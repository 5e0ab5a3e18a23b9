------------------------- MODULE GroupsConfigProofs -------------------------
(* For any groups, and any number of edits, loads, failures and colleagues:  *)
(* no save of the shared catalog undoes what another user saved meanwhile,   *)
(* and a user who has not chosen groups is shown none.                       *)
EXTENDS GroupsConfig, TLAPS

VersionFields == {"groups", "default", "marked", "revision", "origin"}
PageFields ==
    {"config", "preferences", "active", "loading", "open", "renewed", "draft", "base",
     "seen", "seenBase", "seenDirty", "signed", "saving", "choosing", "message",
     "conflicted"}
RequestFields == {"kind", "step", "version", "choice", "also", "heard", "reply"}

Versioned(v) == DOMAIN v = VersionFields /\ v.revision \in Nat

\* A version the page may send: its revision is that of the version its
\* content was made from, unless it was imported and cannot be stored.
Held(v) == Versioned(v) /\ (v.revision >= 1 => v.origin = v.revision)

SoundPage(p) == DOMAIN p = PageFields /\ Held(p.config) /\ Held(p.draft)

SoundRequest(r) ==
    /\ DOMAIN r = RequestFields
    /\ Versioned(r.reply.version)
    /\ r.kind \in {"save", "toggle"} => Held(r.version)

IInv ==
    /\ Versioned(catalog)
    /\ NoLostUpdate
    /\ SoundPage(page)
    /\ \A r \in wire : SoundRequest(r)

-----------------------------------------------------------------------------
(* Versions, pages and requests. *)

LEMMA VersionFieldsOf ==
  ASSUME NEW content, NEW revision \in Nat, NEW origin
  PROVE  /\ Versioned(Version(content, revision, origin))
         /\ Version(content, revision, origin).revision = revision
         /\ Version(content, revision, origin).origin = origin
BY DEF Version, Versioned, VersionFields

LEMMA NoCatalogHeld == Held(NoCatalog) /\ Versioned(NoCatalog) /\ NoCatalog.revision = 0
BY VersionFieldsOf DEF NoCatalog, Held

\* An edit keeps the revision and, with it, what the content was made from.
LEMMA EditKeeps ==
  ASSUME NEW c, Versioned(c), NEW g, NEW e \in {Added(c, g), Removed(c, g), Defaulted(c, g), Marked(c, g)}
  PROVE  Versioned(e) /\ e.revision = c.revision /\ e.origin = c.origin
<1>1. CASE e = Added(c, g)
  BY <1>1 DEF Added, Versioned, VersionFields
<1>2. CASE e = Removed(c, g)
  BY <1>2 DEF Removed, Versioned, VersionFields
<1>3. CASE e = Defaulted(c, g)
  BY <1>3 DEF Defaulted, Versioned, VersionFields
<1>4. CASE e = Marked(c, g)
  BY <1>4 DEF Marked, Versioned, VersionFields
<1> QED
  BY <1>1, <1>2, <1>3, <1>4

LEMMA EditHeld ==
  ASSUME NEW c, Held(c), NEW g
  PROVE  Held(Added(c, g)) /\ Held(Removed(c, g)) /\ Held(Defaulted(c, g)) /\ Held(Marked(c, g))
BY EditKeeps DEF Held

LEMMA RenderedSound ==
  ASSUME NEW p, SoundPage(p)
  PROVE  SoundPage(Rendered(p))
BY DEF SoundPage, PageFields, Rendered

LEMMA EffectsSound ==
  ASSUME NEW p, SoundPage(p)
  PROVE  SoundPage(Effects(p))
<1> DEFINE b == ActiveEffect(p, p)
<1>1. SoundPage(b)
  BY DEF SoundPage, PageFields, ActiveEffect
<1> HIDE DEF b
<1>2. SoundPage(DraftEffect(b, p))
  BY <1>1 DEF SoundPage, PageFields, DraftEffect
<1> QED
  BY <1>2 DEF Effects, b

LEMMA SettledSound ==
  ASSUME NEW p, SoundPage(p)
  PROVE  SoundPage(Settled(p))
BY RenderedSound, EffectsSound DEF Settled

LEMMA FreshPageSound ==
  ASSUME NEW active
  PROVE  SoundPage(FreshPage(active))
BY NoCatalogHeld DEF FreshPage, SoundPage, PageFields

LEMMA RequestSound ==
  ASSUME NEW kind, NEW version, NEW choice, NEW also, kind \in {"save", "toggle"} => Held(version)
  PROVE  SoundRequest(Request(kind, version, choice, also))
BY NoCatalogHeld DEF Request, SoundRequest, RequestFields, NoReply

\* A step of the server that does not answer.
LEMMA MovedSound ==
  ASSUME NEW r \in wire, \A q \in wire : SoundRequest(q), NEW step, Moved(r, step)
  PROVE  \A q \in wire' : SoundRequest(q)
<1> DEFINE n == [r EXCEPT !.step = step]
<1>1. SoundRequest(n)
  BY DEF SoundRequest, RequestFields
<1> QED
  BY <1>1 DEF Moved

LEMMA AnsweredSound ==
  ASSUME NEW r \in wire, \A q \in wire : SoundRequest(q),
         NEW status, NEW version, NEW preferences, Versioned(version),
         Answered(r, Reply(status, version, preferences))
  PROVE  \A q \in wire' : SoundRequest(q)
<1> DEFINE reply == Reply(status, version, preferences)
           n == [r EXCEPT !.step = "answered", !.version = NoCatalog, !.reply = reply]
<1>1. reply.version = version
  BY DEF Reply
<1> HIDE DEF reply
<1>2. SoundRequest(n)
  BY <1>1, NoCatalogHeld DEF SoundRequest, RequestFields
<1>3. wire' \subseteq (wire \ {r}) \cup {n}
  BY DEF Answered, reply
<1> QED
  BY <1>2, <1>3

\* What the answers set on the page.
LEMMA ConfiguredSound ==
  ASSUME NEW p, SoundPage(p), NEW version, Versioned(version), NEW preferences
  PROVE  SoundPage(Configured(p, version, preferences))
<1> DEFINE config == [version EXCEPT !.origin = version.revision]
<1>1. Held(config)
  BY DEF Held, Versioned, VersionFields
<1> HIDE DEF config
<1>2. Configured(p, version, preferences) =
        [p EXCEPT !.config = config, !.preferences = preferences, !.renewed = TRUE]
  BY DEF Configured, config
<1> QED
  BY <1>1, <1>2 DEF SoundPage, PageFields

LEMMA AppliedSavedSound ==
  ASSUME NEW p, SoundPage(p), NEW version, Versioned(version), NEW preferences
  PROVE  SoundPage(AppliedSaved(p, version, preferences))
<1> DEFINE q == Configured(p, version, preferences)
<1>1. SoundPage(q)
  BY ConfiguredSound
<1>2. AppliedSaved(p, version, preferences) =
        [q EXCEPT !.draft = q.config, !.base = Signature(q.config),
                  !.active = Resolved(q.config, Effective(q.config, preferences), p.active)]
  BY DEF AppliedSaved
<1> HIDE DEF q
<1> QED
  BY <1>1, <1>2 DEF SoundPage, PageFields

LEMMA SmallSettersSound ==
  ASSUME NEW p, SoundPage(p), NEW preferences, NEW message
  PROVE  /\ SoundPage(AppliedPreferences(p, preferences))
         /\ SoundPage(Closed(p)) /\ SoundPage(Ended(p, message))
<1>1. SoundPage(AppliedPreferences(p, preferences))
  BY DEF SoundPage, PageFields, AppliedPreferences
<1>2. SoundPage(Closed(p)) /\ SoundPage(Ended(p, message))
  BY DEF SoundPage, PageFields, Closed, Ended
<1> QED
  BY <1>1, <1>2

-----------------------------------------------------------------------------
(* The steps. *)

LEMMA InitIInv == Init => IInv
<1> SUFFICES ASSUME Init PROVE IInv
  OBVIOUS
<1>1. Versioned(catalog) /\ catalog.revision <= 1
  <2>1. CASE catalog = NoCatalog
    BY <2>1, NoCatalogHeld
  <2>2. CASE catalog = Version(Nothing, 1, 0)
    BY <2>2, VersionFieldsOf
  <2>3. CASE catalog = Version(Legacy, 1, 0)
    BY <2>3, VersionFieldsOf
  <2> QED
    BY <2>1, <2>2, <2>3 DEF Init
<1>2. SoundPage(page)
  BY FreshPageSound DEF Init
<1>3. SoundRequest(LoadRequest)
  BY RequestSound DEF LoadRequest
<1> QED
  BY <1>1, <1>2, <1>3 DEF Init, IInv, NoLostUpdate, Versioned

\* A step of the server or the network that leaves the catalog alone.
LEMMA ReaderStep ==
  ASSUME IInv, NEW r \in wire,
         \/ FindNoCatalog(r) \/ ReadCatalog(r) \/ CheckSave(r)
         \/ ReadForPreferences(r) \/ StorePreferences(r) \/ Fail(r)
  PROVE  IInv'
<1>1. UNCHANGED <<catalog, page>>
  BY DEF FindNoCatalog, ReadCatalog, CheckSave, ReadForPreferences, StorePreferences, Fail
<1>2. Versioned(catalog) /\ Versioned(NoCatalog) /\ \A q \in wire : SoundRequest(q)
  BY NoCatalogHeld DEF IInv
<1>3. \A q \in wire' : SoundRequest(q)
  <2>1. CASE FindNoCatalog(r)
    BY <1>2, <2>1, MovedSound DEF FindNoCatalog
  <2>2. CASE ReadCatalog(r)
    BY <1>2, <2>2, AnsweredSound DEF ReadCatalog
  <2>3. CASE CheckSave(r)
    BY <1>2, <2>3, MovedSound, AnsweredSound DEF CheckSave
  <2>4. CASE ReadForPreferences(r)
    <3> DEFINE n == [r EXCEPT !.step = "checked", !.version = catalog]
    <3>1. r.kind \in {"prefs", "first"} /\ wire' = (wire \ {r}) \cup {n}
      BY <2>4 DEF ReadForPreferences, Loads
    <3>2. SoundRequest(n)
      BY <1>2, <3>1 DEF SoundRequest, RequestFields
    <3> HIDE DEF n
    <3> QED
      BY <1>2, <3>1, <3>2
  <2>5. CASE StorePreferences(r)
    <3>1. \E status, preferences : Answered(r, Reply(status, NoCatalog, preferences))
      BY <2>5 DEF StorePreferences
    <3> QED
      BY <1>2, <3>1, AnsweredSound
  <2>6. CASE Fail(r)
    BY <1>2, <2>6, AnsweredSound DEF Fail
  <2> QED
    BY <2>1, <2>2, <2>3, <2>4, <2>5, <2>6
<1> QED
  BY <1>1, <1>3 DEF IInv, NoLostUpdate

\* The creation of the row, and the loser's error.
LEMMA CreateStep ==
  ASSUME IInv, NEW r \in wire, CreateCatalog(r)
  PROVE  IInv'
<1>1. UNCHANGED page /\ Versioned(NoCatalog) /\ \A q \in wire : SoundRequest(q)
  BY NoCatalogHeld DEF IInv, CreateCatalog
<1>2. CASE catalog.revision = 0
  <2>1. catalog' = Version(Legacy, 1, 0) /\ Moved(r, "sent")
    BY <1>2 DEF CreateCatalog
  <2>2. Versioned(catalog') /\ catalog'.revision = 1
    BY <2>1, VersionFieldsOf
  <2> QED
    BY <1>1, <2>1, <2>2, MovedSound DEF IInv, NoLostUpdate
<1>3. CASE catalog.revision # 0
  <2>1. catalog' = catalog /\ Answered(r, Reply("failed", NoCatalog, NoPreferences))
    BY <1>3 DEF CreateCatalog
  <2> QED
    BY <1>1, <2>1, AnsweredSound DEF IInv, NoLostUpdate
<1> QED
  BY <1>2, <1>3

\* The conditional update: what is stored was made from what is replaced.
LEMMA SaveStep ==
  ASSUME IInv, NEW r \in wire, StoreSave(r)
  PROVE  IInv'
<1>1. /\ UNCHANGED page /\ Versioned(NoCatalog) /\ Versioned(catalog)
      /\ \A q \in wire : SoundRequest(q)
  BY NoCatalogHeld DEF IInv, StoreSave
<1>2. Held(r.version)
  BY <1>1 DEF StoreSave, SoundRequest
<1>3. ASSUME catalog' = catalog PROVE NoLostUpdate'
  BY <1>3 DEF IInv, NoLostUpdate
<1>4. CASE r.version.revision < 1
  <2>1. catalog' = catalog /\ Answered(r, Reply("refused", NoCatalog, NoPreferences))
    BY <1>2, <1>4 DEF StoreSave, Held, Versioned
  <2> QED
    BY <1>1, <1>3, <2>1, AnsweredSound DEF IInv
<1>5. CASE r.version.revision >= 1 /\ r.version.revision = catalog.revision
  <2>1. /\ catalog' = [r.version EXCEPT !.revision = @ + 1]
        /\ Answered(r, Reply("ok", catalog', Normalized(catalog', row)))
    BY <1>2, <1>5 DEF StoreSave, Held, Versioned
  <2>2. Versioned(catalog') /\ catalog'.revision = r.version.revision + 1
        /\ catalog'.origin = r.version.revision
    BY <1>2, <1>5, <2>1 DEF Held, Versioned, VersionFields
  <2>3. NoLostUpdate'
    BY <1>2, <2>2 DEF NoLostUpdate, Held, Versioned
  <2>4. \A q \in wire' : SoundRequest(q)
    BY <1>1, <2>1, <2>2, AnsweredSound
  <2> QED
    BY <1>1, <2>2, <2>3, <2>4 DEF IInv
<1>6. CASE r.version.revision >= 1 /\ r.version.revision # catalog.revision
  <2>1. catalog' = catalog /\ Answered(r, Reply("conflict", catalog, NoPreferences))
    BY <1>2, <1>6 DEF StoreSave, Held, Versioned
  <2> QED
    BY <1>1, <1>3, <2>1, AnsweredSound DEF IInv
<1>7. r.version.revision < 1 \/ r.version.revision >= 1
  BY <1>2 DEF Held, Versioned
<1> QED
  BY <1>4, <1>5, <1>6, <1>7

LEMMA ColleagueStep ==
  ASSUME IInv, Colleague
  PROVE  IInv'
<1>1. Versioned(catalog') /\ NoLostUpdate'
  <2>1. CASE catalog.revision = 0 /\ catalog' = Version(Legacy, 1, 0)
    BY <2>1, VersionFieldsOf DEF NoLostUpdate
  <2>2. ASSUME NEW next \in Edited(catalog),
               catalog' = [next EXCEPT !.revision = @ + 1, !.origin = catalog.revision]
        PROVE  Versioned(catalog') /\ NoLostUpdate'
    <3>1. Versioned(next) /\ next.revision = catalog.revision
      BY EditKeeps DEF IInv, Edited
    <3>2. Versioned(catalog') /\ catalog'.revision = catalog.revision + 1
          /\ catalog'.origin = catalog.revision
      BY <2>2, <3>1 DEF Versioned, VersionFields
    <3> QED
      BY <3>1, <3>2 DEF NoLostUpdate, Versioned
  <2> QED
    BY <2>1, <2>2 DEF Colleague
<1> QED
  BY <1>1 DEF IInv, Colleague

\* Steps of the page: the catalog stays, the page and what it sends are sound.
LEMMA PageStep ==
  ASSUME IInv, catalog' = catalog, SoundPage(page)', \A q \in wire' : q \in wire \/ SoundRequest(q)
  PROVE  IInv'
BY DEF IInv, NoLostUpdate

LEMMA ReceiveStep ==
  ASSUME IInv, NEW r \in wire, Receive(r)
  PROVE  IInv'
<1> DEFINE reply == r.reply
           saved == AppliedSaved(page, reply.version, reply.preferences)
<1>1. SoundPage(page) /\ Versioned(reply.version)
  BY DEF IInv, SoundRequest
<1>2. SoundPage(saved) /\ \A message : SoundPage(Ended(saved, message))
      /\ SoundPage(Closed(Ended(saved, "none")))
  BY <1>1, AppliedSavedSound, SmallSettersSound
<1>3. \A message : SoundPage(Ended(page, message))
  BY <1>1, SmallSettersSound
<1> HIDE DEF saved
<1>4. CASE ReceiveLoad(r)
  <2> DEFINE ready == [page EXCEPT !.loading = FALSE]
             q == Configured(ready, reply.version, reply.preferences)
  <2>1. SoundPage(ready)
    BY <1>1 DEF SoundPage, PageFields
  <2> HIDE DEF ready
  <2>2. SoundPage(q)
    BY <1>1, <2>1, ConfiguredSound
  <2> HIDE DEF q
  <2>3. \A active : SoundPage([q EXCEPT !.active = active])
    BY <2>2 DEF SoundPage, PageFields
  <2>4. \/ page' = Settled(ready)
        \/ \E active : page' = Settled([q EXCEPT !.active = active])
    BY <1>4 DEF ReceiveLoad, ready, q
  <2>5. SoundPage(page)'
    BY <2>1, <2>3, <2>4, SettledSound
  <2> QED
    BY <1>4, <2>5, PageStep DEF ReceiveLoad
<1>5. CASE ReceiveSave(r)
  <2>1. \/ page' = Settled(saved) \/ page' = Settled(Closed(Ended(saved, "none")))
        \/ page' = Settled([Ended(saved, "conflict") EXCEPT !.conflicted = TRUE])
        \/ page' = Settled(Ended(page, "failed"))
    BY <1>5 DEF ReceiveSave, saved
  <2>2. SoundPage([Ended(saved, "conflict") EXCEPT !.conflicted = TRUE])
    <3>1. SoundPage(Ended(saved, "conflict"))
      BY <1>2
    <3> QED
      BY <3>1 DEF SoundPage, PageFields
  <2>3. SoundPage(page)'
    BY <1>2, <1>3, <2>1, <2>2, SettledSound
  <2>4. \A q \in wire' : q \in wire \/ SoundRequest(q)
    BY <1>5, RequestSound DEF ReceiveSave
  <2> QED
    BY <1>5, <2>3, <2>4, PageStep DEF ReceiveSave
<1>6. CASE ReceivePreferences(r)
  <2> DEFINE chosen == AppliedPreferences(page, reply.preferences)
  <2>1. SoundPage(Closed(Ended(chosen, "none")))
    BY <1>1, SmallSettersSound
  <2>2. page' = Settled(Closed(Ended(chosen, "none"))) \/ page' = Settled(Ended(page, "failed"))
    BY <1>6 DEF ReceivePreferences
  <2>3. SoundPage(page)'
    BY <1>3, <2>1, <2>2, SettledSound
  <2> QED
    BY <1>6, <2>3, PageStep DEF ReceivePreferences
<1>7. CASE ReceiveFirstRun(r)
  <2> DEFINE ready == [page EXCEPT !.choosing = FALSE]
  <2>1. SoundPage(ready)
    BY <1>1 DEF SoundPage, PageFields
  <2>2. page' = Settled(ready) \/ page' = Settled(AppliedPreferences(ready, reply.preferences))
    BY <1>7 DEF ReceiveFirstRun
  <2> HIDE DEF ready
  <2>3. SoundPage(page)'
    BY <2>1, <2>2, SmallSettersSound, SettledSound
  <2> QED
    BY <1>7, <2>3, PageStep DEF ReceiveFirstRun
<1>8. CASE ReceiveToggle(r)
  <2>1. \/ page' = Settled(saved)
        \/ page' = Settled([saved EXCEPT !.message = "conflict", !.conflicted = TRUE])
        \/ page' = Settled([page EXCEPT !.message = "failed"])
    BY <1>8 DEF ReceiveToggle, saved
  <2>2. /\ SoundPage([saved EXCEPT !.message = "conflict", !.conflicted = TRUE])
        /\ SoundPage([page EXCEPT !.message = "failed"])
    BY <1>1, <1>2 DEF SoundPage, PageFields
  <2>3. SoundPage(page)'
    BY <1>2, <2>1, <2>2, SettledSound
  <2> QED
    BY <1>8, <2>3, PageStep DEF ReceiveToggle
<1> QED
  BY <1>4, <1>5, <1>6, <1>7, <1>8 DEF Receive

\* An edit in the dialog changes the draft, and at most what is ticked.
LEMMA EditStep ==
  ASSUME IInv, NEW draft, Held(draft), NEW seen,
         Edit([page EXCEPT !.draft = draft, !.seen = seen])
  PROVE  IInv'
<1> DEFINE p == [page EXCEPT !.draft = draft, !.seen = seen]
<1>1. SoundPage(p)
  BY DEF IInv, SoundPage, PageFields
<1> HIDE DEF p
<1>2. SoundPage(page)'
  BY <1>1, SettledSound DEF Edit, p
<1> QED
  BY <1>2, PageStep DEF Edit

LEMMA DialogStep ==
  ASSUME IInv, NEW g \in Group,
         \/ AddGroup(g) \/ RemoveGroup(g) \/ ToggleDefault(g)
         \/ ChangeGroup(g) \/ ToggleVisible(g) \/ Import(g)
  PROVE  IInv'
<1>1. SoundPage(page) /\ Held(page.draft)
  BY DEF IInv, SoundPage
<1>2. \A h : /\ Held(Added(page.draft, h)) /\ Held(Removed(page.draft, h))
             /\ Held(Defaulted(page.draft, h)) /\ Held(Marked(page.draft, h))
             /\ Held(Marked(Added(page.draft, h), h))
  BY <1>1, EditHeld
<1>3. \A draft : [page EXCEPT !.draft = draft] = [page EXCEPT !.draft = draft, !.seen = page.seen]
  BY <1>1 DEF SoundPage, PageFields
<1>4. CASE AddGroup(g)
  <2> DEFINE plain == Added(page.draft, g)
             copy == Marked(plain, g)
  <2>1. \E seen : \/ Edit([page EXCEPT !.draft = plain, !.seen = seen])
                  \/ Edit([page EXCEPT !.draft = copy, !.seen = seen])
    <3>1. PICK named, copied \in BOOLEAN :
             Edit([page EXCEPT !.draft = IF copied THEN copy ELSE plain,
                               !.seen = IF named THEN @ \cup {g} ELSE @])
      BY <1>4 DEF AddGroup
    <3> HIDE DEF plain, copy
    <3> DEFINE seen == IF named THEN page.seen \cup {g} ELSE page.seen
    <3>2. Edit([page EXCEPT !.draft = IF copied THEN copy ELSE plain, !.seen = seen])
      BY <3>1
    <3> HIDE DEF seen
    <3>3. CASE copied
      BY <3>2, <3>3
    <3>4. CASE ~copied
      BY <3>2, <3>4
    <3> QED
      BY <3>3, <3>4
  <2>2. Held(plain) /\ Held(copy)
    BY <1>2
  <2> HIDE DEF plain, copy
  <2> QED
    BY <2>1, <2>2, EditStep
<1>5. CASE RemoveGroup(g)
  BY <1>2, <1>5, EditStep DEF RemoveGroup
<1>6. CASE ToggleDefault(g)
  BY <1>2, <1>3, <1>6, EditStep DEF ToggleDefault
<1>7. CASE ChangeGroup(g)
  BY <1>2, <1>3, <1>7, EditStep DEF ChangeGroup
<1>8. CASE ToggleVisible(g)
  <2>1. PICK seen : Edit([page EXCEPT !.seen = seen])
    BY <1>8 DEF ToggleVisible
  <2>2. [page EXCEPT !.seen = seen] = [page EXCEPT !.draft = page.draft, !.seen = seen]
    BY <1>1 DEF SoundPage, PageFields
  <2> QED
    BY <1>1, <2>1, <2>2, EditStep
<1>9. CASE Import(g)
  <2> DEFINE draft == Version(Added(Nothing, g), 0, 0)
  <2>1. Held(draft)
    BY VersionFieldsOf DEF Held
  <2>2. Edit([page EXCEPT !.draft = draft])
    BY <1>9 DEF Import
  <2> HIDE DEF draft
  <2> QED
    BY <1>3, <2>1, <2>2, EditStep
<1> QED
  BY <1>4, <1>5, <1>6, <1>7, <1>8, <1>9

\* Opening and closing the dialog, and choosing among the groups shown.
LEMMA ViewStep ==
  ASSUME IInv, OpenSettings \/ AddFirstGroup \/ CloseSettings \/ \E g \in Group : SelectGroup(g)
  PROVE  IInv'
<1>1. SoundPage(page)
  BY DEF IInv
<1>2. /\ SoundPage([page EXCEPT !.open = TRUE, !.renewed = TRUE])
      /\ SoundPage([page EXCEPT !.open = TRUE, !.renewed = TRUE, !.preferences.onboarding = FALSE])
      /\ SoundPage(Closed(page))
      /\ \A g : SoundPage([page EXCEPT !.active = g])
  BY <1>1, SmallSettersSound DEF SoundPage, PageFields
<1>3. SoundPage(page)' /\ UNCHANGED <<catalog, wire>>
  <2>1. CASE OpenSettings
    BY <1>2, <2>1, SettledSound DEF OpenSettings
  <2>2. CASE AddFirstGroup
    BY <1>2, <2>2, SettledSound DEF AddFirstGroup
  <2>3. CASE CloseSettings
    BY <1>2, <2>3, SettledSound DEF CloseSettings
  <2>4. CASE \E g \in Group : SelectGroup(g)
    BY <1>2, <2>4, SettledSound DEF SelectGroup
  <2> QED
    BY <2>1, <2>2, <2>3, <2>4
<1> QED
  BY <1>3, PageStep

\* The steps that send a request.
LEMMA SendStep ==
  ASSUME IInv, Save \/ ToggleEpic \/ ContinueFirstRun \/ Reload
  PROVE  IInv'
<1>1. SoundPage(page) /\ Held(page.draft) /\ Held(page.config)
  BY DEF IInv, SoundPage
<1>2. CASE Save
  <2>1. SoundPage([page EXCEPT !.saving = TRUE, !.message = "none"])
    BY <1>1 DEF SoundPage, PageFields
  <2>2. SoundPage(page)'
    BY <1>2, <2>1, SettledSound DEF Save
  <2>3. \A q \in wire' : q \in wire \/ SoundRequest(q)
    BY <1>1, <1>2, RequestSound DEF Save
  <2> QED
    BY <1>2, <2>2, <2>3, PageStep DEF Save
<1>3. CASE ToggleEpic
  <2>1. SoundPage([page EXCEPT !.message = "none"])
    BY <1>1 DEF SoundPage, PageFields
  <2>2. SoundPage(page)'
    BY <1>3, <2>1, SettledSound DEF ToggleEpic
  <2>3. Held(Toggled(page))
    BY <1>1, EditHeld DEF Toggled
  <2>4. \A q \in wire' : q \in wire \/ SoundRequest(q)
    BY <1>3, <2>3, RequestSound DEF ToggleEpic
  <2> QED
    BY <1>3, <2>2, <2>4, PageStep DEF ToggleEpic
<1>4. CASE ContinueFirstRun
  <2>1. SoundPage(page)'
    BY <1>1, <1>4 DEF ContinueFirstRun, SoundPage, PageFields
  <2>2. \A q \in wire' : q \in wire \/ SoundRequest(q)
    <3>1. \E choice : wire' = wire \cup {Request("first", NoCatalog, choice, FALSE)}
      BY <1>4 DEF ContinueFirstRun
    <3> QED
      BY <3>1, RequestSound
  <2> QED
    BY <1>4, <2>1, <2>2, PageStep DEF ContinueFirstRun
<1>5. CASE Reload
  <2>1. SoundPage(page)'
    BY <1>5, FreshPageSound DEF Reload
  <2>2. \A r \in wire : SoundRequest([r EXCEPT !.heard = FALSE])
    BY DEF IInv, SoundRequest, RequestFields
  <2>3. SoundRequest(LoadRequest)
    BY RequestSound DEF LoadRequest
  <2>4. \A q \in wire' : SoundRequest(q)
    <3>1. \A q \in wire' : q = LoadRequest \/ \E r \in wire : q = [r EXCEPT !.heard = FALSE]
      BY <1>5 DEF Reload
    <3> QED
      BY <2>2, <2>3, <3>1
  <2> QED
    BY <1>5, <2>1, <2>4, PageStep DEF Reload
<1> QED
  BY <1>2, <1>3, <1>4, <1>5

LEMMA NextIInv == IInv /\ [Next]_vars => IInv'
<1> SUFFICES ASSUME IInv, [Next]_vars PROVE IInv'
  OBVIOUS
<1>1. ASSUME NEW r \in wire, Server(r) \/ Fail(r) PROVE IInv'
  BY <1>1, ReaderStep, CreateStep, SaveStep DEF Server
<1>2. ASSUME NEW r \in wire, Receive(r) PROVE IInv'
  BY <1>2, ReceiveStep
<1>3. CASE User
  BY <1>3, DialogStep, ViewStep, SendStep DEF User
<1>4. CASE Colleague
  BY <1>4, ColleagueStep
<1>5. CASE UNCHANGED vars
  BY <1>5 DEF IInv, NoLostUpdate, vars
<1> QED
  BY <1>1, <1>2, <1>3, <1>4, <1>5 DEF Next

\* No stored version of the shared catalog was made from any but the one it
\* replaced, whatever the pages do between reading and saving it
\* (NoLostUpdate; the conditional update of save_shared_groups and the
\* revision that dashboard.jsx sends with a save and a toggle).
THEOREM NoUpdateIsLost == Spec => []NoLostUpdate
<1>1. IInv => NoLostUpdate
  BY DEF IInv
<1> QED
  BY <1>1, InitIInv, NextIInv, PTL DEF Spec

-----------------------------------------------------------------------------
(* The first run. *)

PageType ==
    [config: Versions, preferences: Preferences, active: Group \cup {None},
     loading: BOOLEAN, open: BOOLEAN, renewed: BOOLEAN, draft: Versions,
     base: Signatures, seen: SUBSET Group,
     seenBase: Choices \cup {NoRow}, seenDirty: BOOLEAN, signed: Choices,
     saving: BOOLEAN, choosing: BOOLEAN,
     message: {"none", "conflict", "failed"}, conflicted: BOOLEAN]

TypedVersion(v) == v \in Versions /\ Coherent(v)
TypedPage(p) == p \in PageType /\ Coherent(p.config) /\ Coherent(p.draft)
TypedRequest(r) == r \in Requests /\ Coherent(r.version) /\ Coherent(r.reply.version)

\* Without a preference row the page has no group to show: the dialog of the
\* first run is still to be answered, or the catalog is empty.
Unchosen(p) ==
    ~p.conflicted /\ row = NoRow => Effective(p.config, p.preferences) = {}

\* Without a preference row, no answer of the server says there is a choice.
Told(r) ==
    row = NoRow /\ r.reply.status = "ok" =>
        r.kind \in {"load", "save", "toggle"} /\ r.reply.preferences.onboarding = TRUE

Bounded ==
    /\ edits \in 0..MaxEdits /\ opens \in 0..MaxOpens
    /\ loads \in 1..MaxLoads /\ fails \in 0..MaxFails

GateInv ==
    /\ TypedVersion(catalog)
    /\ row \in Choices \cup {NoRow}
    /\ TypedPage(page) /\ page.renewed = FALSE /\ page.signed = VisibilitySignature(page)
    /\ Unchosen(page)
    /\ row = NoRow /\ ~page.loading /\ ~page.conflicted => page.active = None
    /\ \A r \in wire : TypedRequest(r) /\ Told(r)
    /\ Bounded

\* The empty version, preferences and replies are typed.
LEMMA NothingTyped ==
  /\ TypedVersion(NoCatalog) /\ TypedVersion(Version(Nothing, 1, 0))
  /\ TypedVersion(Version(Legacy, 1, 0)) /\ NoPreferences \in Preferences
  /\ NoCatalog.groups = {}
BY GroupsAssumption DEF TypedVersion, NoCatalog, Version, Nothing, Versions, Coherent, Contents,
     NoPreferences, Preferences

\* What a preference row says of a catalog.
LEMMA EffectiveTyped ==
  ASSUME NEW content, content \in Versions, NEW preferences
  PROVE  /\ Effective(content, preferences) \in SUBSET Group
         /\ preferences.onboarding = TRUE => Effective(content, preferences) = {}
         /\ content.groups = {} => Effective(content, preferences) = {}
BY DEF Effective, Versions

LEMMA ResolvedTyped ==
  ASSUME NEW content, content \in Versions, NEW visible \in SUBSET Group, NEW current
  PROVE  /\ Resolved(content, visible, current) \in Group \cup {None}
         /\ visible = {} => Resolved(content, visible, current) = None
BY DEF Resolved, Versions

LEMMA NormalizedTyped ==
  ASSUME NEW content, content \in Versions, NEW stored \in Choices \cup {NoRow}
  PROVE  /\ Normalized(content, stored) \in Preferences
         /\ stored = NoRow => Normalized(content, stored).onboarding = TRUE
<1>1. CASE stored = NoRow
  BY <1>1 DEF Normalized, NoPreferences, Preferences
<1>2. CASE stored # NoRow
  <2>1. PICK chosen \in Preferences :
           chosen = [customized |-> TRUE, onboarding |-> FALSE,
                     visible |-> stored.visible \cap content.groups, active |-> None]
    BY <1>2 DEF Choices, Preferences, Versions
  <2>2. PICK asked \in Preferences :
           asked = [chosen EXCEPT !.onboarding = content.groups # {} /\ chosen.visible = {}]
    BY DEF Preferences
  <2>3. Resolved(content, Effective(content, asked), stored.active) \in Group \cup {None}
    BY EffectiveTyped, ResolvedTyped
  <2>4. Normalized(content, stored) =
          [asked EXCEPT !.active = Resolved(content, Effective(content, asked), stored.active)]
    BY <1>2, <2>1, <2>2 DEF Normalized
  <2> QED
    BY <1>2, <2>3, <2>4 DEF Preferences
<1> QED
  BY <1>1, <1>2

\* A chosen row is a row.
LEMMA ChoiceIsRow == ASSUME NEW choice \in Choices PROVE choice # NoRow
<1>1. NoRow.visible = {None} /\ choice.visible \subseteq Group
  BY DEF NoRow, Choices
<1> QED
  BY <1>1, GroupsAssumption

LEMMA EditTyped ==
  ASSUME NEW c, TypedVersion(c), NEW g \in Group
  PROVE  /\ TypedVersion(Added(c, g)) /\ TypedVersion(Removed(c, g)) /\ Added(c, g).groups = c.groups \cup {g}
         /\ g \in c.groups => TypedVersion(Defaulted(c, g)) /\ TypedVersion(Marked(c, g))
<1>1. TypedVersion(Added(c, g)) /\ Added(c, g).groups = c.groups \cup {g}
  BY DEF TypedVersion, Added, Versions, Coherent
<1>2. TypedVersion(Removed(c, g))
  BY DEF TypedVersion, Removed, Versions, Coherent
<1>3. g \in c.groups => TypedVersion(Defaulted(c, g))
  BY DEF TypedVersion, Defaulted, Versions, Coherent
<1>4. g \in c.groups => TypedVersion(Marked(c, g))
  BY DEF TypedVersion, Marked, Versions, Coherent
<1> QED
  BY <1>1, <1>2, <1>3, <1>4

LEMMA SignatureTyped ==
  ASSUME NEW p, p \in PageType
  PROVE  VisibilitySignature(p) \in Choices /\ Signature(p.draft) \in Signatures
         /\ Signature(p.config) \in Signatures
BY DEF PageType, VisibilitySignature, Choices, Signature, Signatures, Versions

\* The dialog that takes up the stored version leaves a page.
LEMMA RebasedTyped ==
  ASSUME NEW p \in PageType, NEW config \in Versions, NEW base \in Signatures,
         NEW seen \in SUBSET Group, NEW seenBase \in Choices
  PROVE  [p EXCEPT !.renewed = FALSE, !.draft = config, !.base = base, !.seen = seen,
                   !.seenBase = seenBase, !.message = "none"] \in PageType
BY DEF PageType

\* What the rounds of renders and effects keep of a page.
Kept(p, q) ==
    /\ q.config = p.config /\ q.preferences = p.preferences
    /\ q.loading = p.loading /\ q.conflicted = p.conflicted
    /\ q.active = IF p.loading THEN p.active
                  ELSE Resolved(p.config, Effective(p.config, p.preferences), p.active)

LEMMA RenderedTyped ==
  ASSUME NEW p, TypedPage(p)
  PROVE  LET q == Rendered(p) IN
         /\ TypedPage(q) /\ q.signed = VisibilitySignature(q)
         /\ q.config = p.config /\ q.preferences = p.preferences /\ q.active = p.active
         /\ q.loading = p.loading /\ q.conflicted = p.conflicted /\ q.renewed = p.renewed
<1>1. VisibilitySignature(p) \in Choices
  BY SignatureTyped DEF TypedPage
<1> PICK v \in Choices : v = VisibilitySignature(p)
  BY <1>1
<1>2. CASE v = p.signed
  BY <1>2 DEF Rendered
<1>3. CASE v # p.signed
  <2> PICK dirty \in BOOLEAN : dirty = (v # p.seenBase)
    OBVIOUS
  <2> PICK q : q = [p EXCEPT !.signed = v, !.seenDirty = dirty]
    OBVIOUS
  <2>1. q = Rendered(p)
    BY <1>3 DEF Rendered
  <2>2. /\ q \in PageType /\ q.signed = v /\ q.seen = p.seen
        /\ q.config = p.config /\ q.preferences = p.preferences /\ q.active = p.active
        /\ q.loading = p.loading /\ q.conflicted = p.conflicted /\ q.renewed = p.renewed
        /\ q.draft = p.draft
    BY DEF TypedPage, PageType
  <2>3. VisibilitySignature(q) = v
    BY <2>2 DEF VisibilitySignature
  <2> QED
    BY <2>1, <2>2, <2>3 DEF TypedPage
<1> QED
  BY <1>2, <1>3

LEMMA EffectsTyped ==
  ASSUME NEW p, TypedPage(p)
  PROVE  TypedPage(Effects(p)) /\ Kept(p, Effects(p)) /\ Effects(p).renewed = FALSE
<1> PICK b : b = ActiveEffect(p, p)
  OBVIOUS
<1>1. TypedPage(b) /\ Kept(p, b) /\ b.renewed = p.renewed
  <2>1. CASE p.loading
    BY <2>1 DEF ActiveEffect, Kept
  <2>2. CASE ~p.loading
    <3> PICK a \in Group \cup {None} :
               a = Resolved(p.config, Effective(p.config, p.preferences), p.active)
      BY EffectiveTyped, ResolvedTyped DEF TypedPage, PageType
    <3>1. b = [p EXCEPT !.active = a]
      BY <2>2 DEF ActiveEffect
    <3> QED
      BY <2>2, <3>1 DEF TypedPage, PageType, Kept
  <2> QED
    BY <2>1, <2>2
<1>2. SeenAtStart(p) \in SUBSET Group
  BY DEF SeenAtStart, TypedPage, PageType, Preferences, Versions
<1>3. CASE ~p.renewed
  BY <1>1, <1>3 DEF Effects, DraftEffect, TypedPage, PageType
<1>4. CASE p.renewed /\ ~p.open
  <2>1. Effects(p) = [b EXCEPT !.renewed = FALSE]
    BY <1>4 DEF Effects, DraftEffect
  <2> PICK q : q = [b EXCEPT !.renewed = FALSE]
    OBVIOUS
  <2>2. b \in PageType
    BY <1>1 DEF TypedPage
  <2>3. q \in PageType
    BY <2>2 DEF PageType
  <2>4. /\ q.draft = b.draft /\ q.config = b.config /\ q.preferences = b.preferences
        /\ q.loading = b.loading /\ q.conflicted = b.conflicted /\ q.active = b.active
        /\ q.renewed = FALSE
    BY <2>2 DEF PageType
  <2>5. TypedPage(q)
    BY <1>1, <2>3, <2>4 DEF TypedPage
  <2>6. Kept(p, q)
    BY <1>1, <2>4 DEF Kept
  <2> QED
    BY <2>1, <2>4, <2>5, <2>6
<1>5. CASE p.renewed /\ p.open
  <2> PICK seen \in SUBSET Group : seen = SeenAtStart(p)
    BY <1>2
  <2> PICK base \in Signatures : base = Signature(p.config)
    BY SignatureTyped DEF TypedPage
  <2> PICK seenBase \in Choices :
             seenBase = [visible |-> SeenAtStart(p),
                         active |-> IF p.preferences.active # None
                                    THEN p.preferences.active ELSE p.active]
    BY <1>2 DEF Choices, TypedPage, PageType, Preferences
  <2> PICK config \in Versions : config = p.config
    BY DEF TypedPage, PageType
  <2> PICK q : q = [b EXCEPT !.renewed = FALSE, !.draft = config, !.base = base, !.seen = seen,
                             !.seenBase = seenBase, !.message = "none"]
    OBVIOUS
  <2>1. q = Effects(p)
    BY <1>5 DEF Effects, DraftEffect
  <2>2. b \in PageType
    BY <1>1 DEF TypedPage
  <2>3. q \in PageType /\ q.draft = config /\ q.renewed = FALSE
    <3>1. [b EXCEPT !.renewed = FALSE, !.draft = config, !.base = base, !.seen = seen,
                    !.seenBase = seenBase, !.message = "none"] \in PageType
      BY <2>2, RebasedTyped, ZenonT(30)
    <3>2. q.draft = config /\ q.renewed = FALSE
      BY <2>2 DEF PageType
    <3> QED
      BY <3>1, <3>2
  <2>4. q.config = b.config /\ q.preferences = b.preferences /\ q.loading = b.loading
        /\ q.conflicted = b.conflicted /\ q.active = b.active
    BY <2>2 DEF PageType
  <2>5. TypedPage(q)
    BY <1>1, <2>3, <2>4 DEF TypedPage
  <2>6. Kept(p, q)
    BY <1>1, <2>4 DEF Kept
  <2> QED
    BY <2>1, <2>3, <2>5, <2>6
<1> QED
  BY <1>3, <1>4, <1>5 DEF TypedPage, PageType

\* Once settled, a page without a group to show has none active.
LEMMA SettledTyped ==
  ASSUME NEW p, TypedPage(p)
  PROVE  LET q == Settled(p) IN
         /\ TypedPage(q) /\ q.renewed = FALSE /\ q.signed = VisibilitySignature(q)
         /\ q.config = p.config /\ q.preferences = p.preferences
         /\ q.loading = p.loading /\ q.conflicted = p.conflicted
         /\ ~p.loading /\ Effective(p.config, p.preferences) = {} => q.active = None
<1> PICK p1 : p1 = Rendered(p)
  OBVIOUS
<1> PICK p2 : p2 = Effects(p1)
  OBVIOUS
<1> PICK p3 : p3 = Rendered(p2)
  OBVIOUS
<1> PICK p4 : p4 = Effects(p3)
  OBVIOUS
<1> PICK p5 : p5 = Rendered(p4)
  OBVIOUS
<1>1. TypedPage(p1) /\ p1.config = p.config /\ p1.preferences = p.preferences
      /\ p1.loading = p.loading /\ p1.conflicted = p.conflicted
  BY RenderedTyped
<1>2. TypedPage(p2) /\ Kept(p1, p2)
  BY <1>1, EffectsTyped
<1>3. TypedPage(p3) /\ p3.config = p2.config /\ p3.preferences = p2.preferences
      /\ p3.loading = p2.loading /\ p3.conflicted = p2.conflicted
  BY <1>2, RenderedTyped
<1>4. TypedPage(p4) /\ Kept(p3, p4) /\ p4.renewed = FALSE
  BY <1>3, EffectsTyped
<1>5. /\ TypedPage(p5) /\ p5.config = p4.config /\ p5.preferences = p4.preferences
      /\ p5.loading = p4.loading /\ p5.conflicted = p4.conflicted /\ p5.active = p4.active
      /\ p5.renewed = p4.renewed /\ p5.signed = VisibilitySignature(p5)
  BY <1>4, RenderedTyped
<1>6. p5 = Settled(p)
  BY DEF Settled
<1>7. ~p.loading /\ Effective(p.config, p.preferences) = {} => p4.active = None
  BY <1>1, <1>2, <1>3, <1>4, ResolvedTyped DEF Kept, TypedPage, PageType
<1> QED
  BY <1>1, <1>2, <1>3, <1>4, <1>5, <1>6, <1>7 DEF Kept

\* Requests on the way, where the row of the user stays or comes to be.
LEMMA MovedTyped ==
  ASSUME NEW r \in wire, \A q \in wire : TypedRequest(q) /\ Told(q), row' = row,
         NEW step \in {"sent", "creating", "checked"}, Moved(r, step)
  PROVE  \A q \in wire' : TypedRequest(q) /\ Told(q)'
<1> PICK n : n = [r EXCEPT !.step = step]
  OBVIOUS
<1>1. TypedRequest(n) /\ n.reply = r.reply /\ n.kind = r.kind
  BY DEF TypedRequest, Requests
<1>2. wire' = (wire \ {r}) \cup {n}
  BY DEF Moved
<1> QED
  BY <1>1, <1>2 DEF Told

LEMMA AnsweredTyped ==
  ASSUME NEW r \in wire, \A q \in wire : TypedRequest(q) /\ Told(q),
         row' = NoRow => row = NoRow,
         NEW status \in {"ok", "conflict", "refused", "failed"},
         NEW version, TypedVersion(version), NEW preferences \in Preferences,
         row' = NoRow /\ status = "ok" =>
             r.kind \in {"load", "save", "toggle"} /\ preferences.onboarding = TRUE,
         Answered(r, Reply(status, version, preferences))
  PROVE  \A q \in wire' : TypedRequest(q) /\ Told(q)'
<1> PICK reply : reply = Reply(status, version, preferences)
  OBVIOUS
<1>1. /\ reply \in [status: {"none", "ok", "conflict", "refused", "failed"},
                    version: Versions, preferences: Preferences]
      /\ reply.status = status /\ reply.version = version /\ reply.preferences = preferences
  BY DEF Reply, TypedVersion
<1> PICK n : n = [r EXCEPT !.step = "answered", !.version = NoCatalog, !.reply = reply]
  OBVIOUS
<1>2. NoCatalog \in Versions /\ Coherent(NoCatalog)
  BY NothingTyped DEF TypedVersion
<1>3. n \in Requests /\ n.reply = reply /\ n.version = NoCatalog /\ n.kind = r.kind
  BY <1>1, <1>2 DEF TypedRequest, Requests
<1>4. TypedRequest(n)
  BY <1>1, <1>2, <1>3 DEF TypedRequest, TypedVersion
<1>5. wire' \subseteq (wire \ {r}) \cup {n}
  BY DEF Answered
<1>6. Told(n)'
  BY <1>1, <1>3 DEF Told
<1>7. \A q \in wire : Told(q)'
  BY DEF Told
<1> QED
  BY <1>4, <1>5, <1>6, <1>7

LEMMA RequestTyped ==
  ASSUME NEW kind \in {"load", "save", "toggle", "prefs", "first"},
         NEW version, TypedVersion(version), NEW choice \in Choices, NEW also \in BOOLEAN
  PROVE  LET q == Request(kind, version, choice, also) IN TypedRequest(q) /\ Told(q)'
<1>1. NoReply.status = "none" /\ NoReply.version = NoCatalog /\ NoReply.preferences = NoPreferences
  BY DEF NoReply
<1>2. NoReply \in [status: {"none", "ok", "conflict", "refused", "failed"},
                   version: Versions, preferences: Preferences]
  BY NothingTyped DEF NoReply, TypedVersion
<1> PICK q : q = Request(kind, version, choice, also)
  OBVIOUS
<1>3. q \in Requests /\ q.version = version /\ q.reply = NoReply
  BY <1>2 DEF Request, Requests, TypedVersion
<1>4. TypedRequest(q) /\ Told(q)'
  BY <1>1, <1>3, NothingTyped DEF TypedRequest, TypedVersion, Told
<1> QED
  BY <1>4

\* Steps that leave the page alone.
LEMMA ServerKeeps ==
  ASSUME GateInv, TypedVersion(catalog)', row' \in Choices \cup {NoRow},
         row' = NoRow => row = NoRow, UNCHANGED page,
         \A q \in wire' : TypedRequest(q) /\ Told(q)', Bounded'
  PROVE  GateInv'
BY DEF GateInv, Unchosen

LEMMA ServerGate ==
  ASSUME GateInv, NEW r \in wire, Server(r)
  PROVE  GateInv'
<1>1. /\ TypedVersion(catalog) /\ row \in Choices \cup {NoRow} /\ Bounded
      /\ \A q \in wire : TypedRequest(q) /\ Told(q)
      /\ TypedRequest(r) /\ r \in Requests
  BY DEF GateInv, TypedRequest
<1>2. /\ UNCHANGED <<page, edits, opens, loads, fails>>
  BY DEF Server, FindNoCatalog, CreateCatalog, ReadCatalog, CheckSave, StoreSave,
         ReadForPreferences, StorePreferences
<1>3. Bounded'
  BY <1>1, <1>2 DEF Bounded
<1>4. NoPreferences \in Preferences /\ TypedVersion(NoCatalog)
  BY NothingTyped
<1>5. \A v : TypedVersion(v) => /\ Normalized(v, row) \in Preferences
                                /\ row = NoRow => Normalized(v, row).onboarding = TRUE
  BY <1>1, NormalizedTyped DEF TypedVersion
<1>6. CASE FindNoCatalog(r)
  <2>1. UNCHANGED <<catalog, row>> /\ Moved(r, "creating")
    BY <1>6 DEF FindNoCatalog
  <2>2. \A q \in wire' : TypedRequest(q) /\ Told(q)'
    BY <1>1, <2>1, MovedTyped
  <2> QED
    BY <1>1, <1>2, <1>3, <2>1, <2>2, ServerKeeps
<1>7. CASE CreateCatalog(r)
  <2>1. CASE catalog.revision = 0
    <3>1. row' = row /\ catalog' = Version(Legacy, 1, 0) /\ Moved(r, "sent")
      BY <1>7, <2>1 DEF CreateCatalog
    <3>2. \A q \in wire' : TypedRequest(q) /\ Told(q)'
      BY <1>1, <3>1, MovedTyped
    <3>3. TypedVersion(catalog)'
      BY <3>1, NothingTyped
    <3> QED
      BY <1>1, <1>2, <1>3, <3>1, <3>2, <3>3, ServerKeeps
  <2>2. CASE catalog.revision # 0
    <3>1. /\ UNCHANGED <<catalog, row>>
          /\ Answered(r, Reply("failed", NoCatalog, NoPreferences))
      BY <1>7, <2>2 DEF CreateCatalog
    <3>2. \A q \in wire' : TypedRequest(q) /\ Told(q)'
      BY <1>1, <1>4, <3>1, AnsweredTyped
    <3> QED
      BY <1>1, <1>2, <1>3, <3>1, <3>2, ServerKeeps
  <2> QED
    BY <2>1, <2>2
<1>8. CASE ReadCatalog(r)
  <2>1. /\ UNCHANGED <<catalog, row>> /\ r.kind = "load"
        /\ Answered(r, Reply("ok", catalog, Normalized(catalog, row)))
    BY <1>8 DEF ReadCatalog, Loads
  <2>2. \A q \in wire' : TypedRequest(q) /\ Told(q)'
    BY <1>1, <1>5, <2>1, AnsweredTyped
  <2> QED
    BY <1>1, <1>2, <1>3, <2>1, <2>2, ServerKeeps
<1>9. CASE CheckSave(r)
  <2>1. /\ UNCHANGED <<catalog, row>>
        /\ \/ Answered(r, Reply("refused", NoCatalog, NoPreferences))
           \/ Moved(r, "checked")
    BY <1>9 DEF CheckSave
  <2>2. \A q \in wire' : TypedRequest(q) /\ Told(q)'
    BY <1>1, <1>4, <2>1, AnsweredTyped, MovedTyped
  <2> QED
    BY <1>1, <1>2, <1>3, <2>1, <2>2, ServerKeeps
<1>10. CASE StoreSave(r)
  <2>1. row' = row /\ r.kind \in {"save", "toggle"}
    BY <1>10 DEF StoreSave
  <2>2. CASE /\ catalog' = catalog
             /\ \/ Answered(r, Reply("refused", NoCatalog, NoPreferences))
                \/ Answered(r, Reply("conflict", catalog, NoPreferences))
    <3>1. \A q \in wire' : TypedRequest(q) /\ Told(q)'
      BY <1>1, <1>4, <2>1, <2>2, AnsweredTyped
    <3> QED
      BY <1>1, <1>2, <1>3, <2>1, <2>2, <3>1, ServerKeeps
  <2>3. CASE /\ catalog' = [r.version EXCEPT !.revision = @ + 1]
             /\ Answered(r, Reply("ok", catalog', Normalized(catalog', row)))
    <3> PICK stored : stored = catalog'
      OBVIOUS
    <3>1. TypedVersion(stored)
      BY <1>1, <2>3 DEF TypedRequest, Requests, TypedVersion, Versions, Coherent
    <3>2. \A q \in wire' : TypedRequest(q) /\ Told(q)'
      <4>1. Answered(r, Reply("ok", stored, Normalized(stored, row)))
        BY <2>3
      <4> QED
        BY <1>1, <1>5, <2>1, <3>1, <4>1, AnsweredTyped
    <3>3. TypedVersion(catalog)'
      BY <3>1
    <3> QED
      BY <1>1, <1>2, <1>3, <2>1, <3>2, <3>3, ServerKeeps
  <2> QED
    BY <1>10, <2>2, <2>3 DEF StoreSave
<1>11. CASE ReadForPreferences(r)
  <2> PICK n : n = [r EXCEPT !.step = "checked", !.version = catalog]
    OBVIOUS
  <2>1. UNCHANGED <<catalog, row>> /\ wire' = (wire \ {r}) \cup {n}
    BY <1>11 DEF ReadForPreferences
  <2>2. n \in Requests /\ n.reply = r.reply /\ n.kind = r.kind /\ n.version = catalog
    BY <1>1 DEF Requests, TypedVersion
  <2>3. TypedRequest(n) /\ Told(n)'
    BY <1>1, <2>1, <2>2 DEF TypedRequest, TypedVersion, Told
  <2>4. \A q \in wire' : TypedRequest(q) /\ Told(q)'
    BY <1>1, <2>1, <2>3 DEF Told
  <2> QED
    BY <1>1, <1>2, <1>3, <2>1, <2>4, ServerKeeps
<1>12. CASE StorePreferences(r)
  <2>0. catalog' = catalog
    BY <1>12 DEF StorePreferences
  <2> PICK preferences : preferences = Normalized(r.version, r.choice)
    OBVIOUS
  <2>1. preferences \in Preferences
    <3>1. r.version \in Versions /\ r.choice \in Choices
      BY <1>1 DEF Requests
    <3> QED
      BY <3>1, NormalizedTyped
  <2>2. CASE row' = row /\ Answered(r, Reply("refused", NoCatalog, NoPreferences))
    <3>1. \A q \in wire' : TypedRequest(q) /\ Told(q)'
      BY <1>1, <1>4, <2>2, AnsweredTyped
    <3> QED
      BY <1>1, <1>2, <1>3, <2>0, <2>2, <3>1, ServerKeeps
  <2>3. CASE /\ row' = [visible |-> preferences.visible, active |-> preferences.active]
             /\ Answered(r, Reply("ok", NoCatalog, preferences))
    <3>1. row' \in Choices
      BY <2>1, <2>3 DEF Choices, Preferences
    <3>2. row' # NoRow
      BY <3>1, ChoiceIsRow
    <3>3. \A q \in wire' : TypedRequest(q) /\ Told(q)'
      BY <1>1, <1>4, <2>1, <2>3, <3>2, AnsweredTyped
    <3> QED
      BY <1>1, <1>2, <1>3, <2>0, <3>1, <3>2, <3>3, ServerKeeps
  <2> QED
    BY <1>12, <2>2, <2>3 DEF StorePreferences
<1> QED
  BY <1>6, <1>7, <1>8, <1>9, <1>10, <1>11, <1>12 DEF Server

\* A request that fails, and what another user does.
LEMMA OthersGate ==
  ASSUME GateInv, Colleague \/ \E r \in wire : Fail(r)
  PROVE  GateInv'
<1>1. /\ TypedVersion(catalog) /\ row \in Choices \cup {NoRow} /\ Bounded
      /\ \A q \in wire : TypedRequest(q) /\ Told(q)
  BY DEF GateInv
<1>2. CASE \E r \in wire : Fail(r)
  <2>1. PICK r \in wire : Fail(r)
    BY <1>2
  <2>2. UNCHANGED <<catalog, row, page, edits, opens, loads>> /\ fails < MaxFails
        /\ fails' = fails + 1 /\ Answered(r, Reply("failed", NoCatalog, NoPreferences))
    BY <2>1 DEF Fail
  <2>3. Bounded'
    BY <1>1, <2>2, GroupsAssumption DEF Bounded
  <2>4. \A q \in wire' : TypedRequest(q) /\ Told(q)'
    BY <1>1, <2>2, NothingTyped, AnsweredTyped
  <2> QED
    BY <1>1, <2>2, <2>3, <2>4, ServerKeeps
<1>3. CASE Colleague
  <2>1. UNCHANGED <<row, page, wire, edits, opens, loads, fails>>
    BY <1>3 DEF Colleague
  <2>2. TypedVersion(catalog)'
    <3>1. CASE catalog' = Version(Legacy, 1, 0)
      BY <3>1, NothingTyped
    <3>2. ASSUME NEW next \in Edited(catalog),
                 catalog' = [next EXCEPT !.revision = @ + 1, !.origin = catalog.revision]
          PROVE  TypedVersion(catalog)'
      <4>1. TypedVersion(next)
        <5>1. catalog.groups \subseteq Group
          BY <1>1 DEF TypedVersion, Versions
        <5> QED
          BY <1>1, <5>1, EditTyped DEF Edited
      <4>2. catalog.revision \in Nat
        BY <1>1 DEF TypedVersion, Versions
      <4> PICK n \in Nat : n = next.revision + 1
        BY <4>1 DEF TypedVersion, Versions
      <4> PICK stored : stored = [next EXCEPT !.revision = n, !.origin = catalog.revision]
        OBVIOUS
      <4>3. TypedVersion(stored)
        BY <4>1, <4>2 DEF TypedVersion, Versions, Coherent
      <4> QED
        BY <3>2, <4>3
    <3> QED
      BY <1>3, <3>1, <3>2 DEF Colleague
  <2>3. Bounded' /\ \A q \in wire' : Told(q)'
    BY <1>1, <2>1 DEF Bounded, Told
  <2> QED
    BY <1>1, <2>1, <2>2, <2>3, ServerKeeps
<1> QED
  BY <1>2, <1>3

\* Steps of the page: it settles, and what it sends is typed.
LEMMA PageKeeps ==
  ASSUME GateInv, NEW p, TypedPage(p), Unchosen(p), page' = Settled(p), UNCHANGED <<catalog, row>>,
         \A q \in wire' : q \in wire \/ (TypedRequest(q) /\ Told(q)'), Bounded'
  PROVE  GateInv'
<1> PICK s : s = Settled(p)
  OBVIOUS
<1>1. /\ TypedPage(s) /\ s.renewed = FALSE /\ s.signed = VisibilitySignature(s)
      /\ s.config = p.config /\ s.preferences = p.preferences
      /\ s.loading = p.loading /\ s.conflicted = p.conflicted
      /\ ~p.loading /\ Effective(p.config, p.preferences) = {} => s.active = None
  BY SettledTyped
<1>2. Unchosen(s) /\ (row = NoRow /\ ~s.loading /\ ~s.conflicted => s.active = None)
  BY <1>1 DEF Unchosen
<1>3. \A q \in wire' : TypedRequest(q) /\ Told(q)'
  BY DEF GateInv, Told
<1>4. TypedVersion(catalog)' /\ row' \in Choices \cup {NoRow}
  BY DEF GateInv
<1>5. page' = s /\ row' = row
  OBVIOUS
<1>6. Unchosen(page)' /\ VisibilitySignature(page)' = VisibilitySignature(s)
  BY <1>2, <1>5 DEF Unchosen, VisibilitySignature
<1> QED
  BY <1>1, <1>2, <1>3, <1>4, <1>5, <1>6 DEF GateInv

LEMMA ConfiguredTyped ==
  ASSUME NEW p, TypedPage(p), NEW version, TypedVersion(version), NEW preferences \in Preferences
  PROVE  LET q == Configured(p, version, preferences) IN
         /\ TypedPage(q) /\ q.preferences = preferences /\ q.conflicted = p.conflicted
         /\ q.loading = p.loading /\ q.draft = p.draft
<1> PICK config : config = [version EXCEPT !.origin = version.revision]
  OBVIOUS
<1>1. config \in Versions /\ Coherent(config)
  BY DEF TypedVersion, Versions, Coherent
<1> PICK q : q = [p EXCEPT !.config = config, !.preferences = preferences, !.renewed = TRUE]
  OBVIOUS
<1>2. q = Configured(p, version, preferences)
  BY DEF Configured
<1>3. /\ q \in PageType /\ q.config = config /\ q.preferences = preferences
      /\ q.conflicted = p.conflicted /\ q.loading = p.loading /\ q.draft = p.draft
  BY <1>1 DEF TypedPage, PageType
<1> QED
  BY <1>1, <1>2, <1>3 DEF TypedPage

LEMMA ActiveTyped ==
  ASSUME NEW p \in PageType, NEW a \in Group \cup {None}
  PROVE  [p EXCEPT !.active = a] \in PageType
BY DEF PageType

\* A refused change of the choice leaves a page.
LEMMA RefusedTyped ==
  ASSUME NEW p \in PageType
  PROVE  [p EXCEPT !.message = "conflict", !.conflicted = TRUE] \in PageType
BY DEF PageType

\* A new draft, with its signature, leaves a page.
LEMMA DraftTyped ==
  ASSUME NEW p \in PageType, NEW v \in Versions
  PROVE  [p EXCEPT !.draft = v] \in PageType
BY DEF PageType

LEMMA BaseTyped ==
  ASSUME NEW p \in PageType, NEW b \in Signatures
  PROVE  [p EXCEPT !.base = b] \in PageType
BY DEF PageType

LEMMA AppliedSavedTyped ==
  ASSUME NEW p, TypedPage(p), NEW version, TypedVersion(version), NEW preferences \in Preferences
  PROVE  LET q == AppliedSaved(p, version, preferences) IN
         /\ TypedPage(q) /\ q.preferences = preferences /\ q.conflicted = p.conflicted
<1> PICK c : c = Configured(p, version, preferences)
  OBVIOUS
<1>1. TypedPage(c) /\ c.preferences = preferences /\ c.conflicted = p.conflicted
  BY ConfiguredTyped
<1> PICK config \in Versions : config = c.config
  BY <1>1 DEF TypedPage, PageType
<1> PICK base \in Signatures : base = Signature(config)
  BY <1>1, SignatureTyped DEF TypedPage
<1> PICK active \in Group \cup {None} :
           active = Resolved(config, Effective(config, preferences), p.active)
  BY EffectiveTyped, ResolvedTyped
<1> PICK q : q = [c EXCEPT !.draft = config, !.base = base, !.active = active]
  OBVIOUS
<1>2. q = AppliedSaved(p, version, preferences)
  BY DEF AppliedSaved
<1>3. c \in PageType
  BY <1>1 DEF TypedPage
<1>4. q \in PageType
  <2> PICK d : d = [c EXCEPT !.draft = config]
    OBVIOUS
  <2> PICK b : b = [d EXCEPT !.base = base]
    OBVIOUS
  <2>1. d \in PageType
    <3>1. [c EXCEPT !.draft = config] \in PageType
      BY <1>3, DraftTyped
    <3> QED
      BY <3>1
  <2>2. b \in PageType
    <3>1. [d EXCEPT !.base = base] \in PageType
      BY <2>1, BaseTyped
    <3> QED
      BY <3>1
  <2>3. [b EXCEPT !.active = active] \in PageType
    BY <2>2, ActiveTyped
  <2>4. q = [b EXCEPT !.active = active]
    BY <1>3 DEF PageType
  <2> QED
    BY <2>3, <2>4
<1>5. /\ q.draft = config /\ q.config = config
      /\ q.preferences = c.preferences /\ q.conflicted = c.conflicted
  BY <1>3 DEF PageType
<1> QED
  BY <1>1, <1>2, <1>4, <1>5 DEF TypedPage

LEMMA AppliedPreferencesTyped ==
  ASSUME NEW p, TypedPage(p), NEW preferences \in Preferences
  PROVE  TypedPage(AppliedPreferences(p, preferences))
<1> PICK seen \in SUBSET Group : seen = preferences.visible
  BY DEF Preferences
<1> PICK seenBase \in Choices :
           seenBase = [visible |-> preferences.visible, active |-> preferences.active]
  BY DEF Preferences, Choices
<1> PICK active \in Group \cup {None} :
           active = Resolved(p.config, Effective(p.config, preferences),
                             IF preferences.active # None THEN preferences.active ELSE p.active)
  BY EffectiveTyped, ResolvedTyped DEF TypedPage, PageType
<1> PICK q : q = [p EXCEPT !.preferences = preferences, !.seen = seen, !.seenBase = seenBase,
                           !.active = active]
  OBVIOUS
<1>1. q = AppliedPreferences(p, preferences)
  BY DEF AppliedPreferences
<1>2. q \in PageType /\ q.config = p.config /\ q.draft = p.draft
  BY DEF TypedPage, PageType
<1> QED
  BY <1>1, <1>2 DEF TypedPage

LEMMA ClosedTyped ==
  ASSUME NEW p, TypedPage(p), NEW message \in {"none", "conflict", "failed"}
  PROVE  /\ TypedPage(Closed(p)) /\ TypedPage(Ended(p, message))
         /\ Unchosen(p) => Unchosen(Closed(p)) /\ Unchosen(Ended(p, message))
<1>1. TypedPage(Closed(p)) /\ (Unchosen(p) => Unchosen(Closed(p)))
  BY DEF TypedPage, PageType, Closed, Unchosen
<1>2. TypedPage(Ended(p, message)) /\ (Unchosen(p) => Unchosen(Ended(p, message)))
  BY DEF TypedPage, PageType, Ended, Unchosen
<1> QED
  BY <1>1, <1>2

\* A page that heard there is no choice shows none.
LEMMA ToldUnchosen ==
  ASSUME NEW p, TypedPage(p), row = NoRow => p.preferences.onboarding = TRUE
  PROVE  Unchosen(p)
BY EffectiveTyped DEF Unchosen, TypedPage, PageType

\* An answer that the page receives.
LEMMA ReceiveGate ==
  ASSUME GateInv, NEW r \in wire, Receive(r)
  PROVE  GateInv'
<1>1. /\ TypedPage(page) /\ page \in PageType /\ Unchosen(page) /\ Bounded
      /\ TypedRequest(r) /\ Told(r) /\ r.choice \in Choices
      /\ TypedVersion(r.reply.version) /\ r.reply.preferences \in Preferences
  BY DEF GateInv, TypedPage, TypedRequest, Requests, TypedVersion
<1>2. UNCHANGED <<catalog, row, edits, opens, loads, fails>>
  BY DEF Receive, ReceiveLoad, ReceiveSave, ReceivePreferences, ReceiveFirstRun, ReceiveToggle
<1>3. Bounded'
  BY <1>1, <1>2 DEF Bounded
<1> PICK version : version = r.reply.version
  OBVIOUS
<1> PICK preferences \in Preferences : preferences = r.reply.preferences
  BY <1>1
<1>4. TypedVersion(version)
  BY <1>1
<1>5. ASSUME NEW p, TypedPage(p)
      PROVE  /\ TypedPage([p EXCEPT !.conflicted = TRUE])
             /\ Unchosen([p EXCEPT !.conflicted = TRUE])
  BY <1>5 DEF TypedPage, PageType, Unchosen
<1> PICK saved : saved = AppliedSaved(page, version, preferences)
  OBVIOUS
<1>6. TypedPage(saved) /\ saved.preferences = preferences
  BY <1>1, <1>4, AppliedSavedTyped
<1>7. CASE ReceiveLoad(r)
  <2> PICK ready : ready = [page EXCEPT !.loading = FALSE]
    OBVIOUS
  <2>1. TypedPage(ready) /\ Unchosen(ready)
    BY <1>1 DEF TypedPage, PageType, Unchosen
  <2> PICK q : q = Configured(ready, version, preferences)
    OBVIOUS
  <2>2. TypedPage(q) /\ q.preferences = preferences
    BY <1>4, <2>1, ConfiguredTyped
  <2> PICK preferred : preferred = IF q.preferences.active # None THEN q.preferences.active
                                   ELSE page.active
    OBVIOUS
  <2> PICK active \in Group \cup {None} :
             active = Resolved(q.config, Effective(q.config, q.preferences), preferred)
    BY <2>2, EffectiveTyped, ResolvedTyped DEF TypedPage, PageType
  <2> PICK shown : shown = [q EXCEPT !.active = active]
    OBVIOUS
  <2>3. TypedPage(shown) /\ shown.preferences = preferences
    <3>1. q \in PageType
      BY <2>2 DEF TypedPage
    <3>2. shown \in PageType
      BY <3>1, ActiveTyped
    <3>3. /\ shown.config = q.config /\ shown.draft = q.draft
          /\ shown.preferences = q.preferences
      BY <3>1 DEF PageType
    <3> QED
      BY <2>2, <3>2, <3>3 DEF TypedPage
  <2>4. CASE r.reply.status = "ok"
    <3>1. page' = Settled(shown) /\ wire' = wire \ {r}
      BY <1>7, <2>4 DEF ReceiveLoad
    <3>2. Unchosen(shown)
      BY <1>1, <2>3, <2>4, ToldUnchosen DEF Told
    <3> QED
      BY <1>2, <1>3, <2>3, <3>1, <3>2, PageKeeps
  <2>5. CASE r.reply.status # "ok"
    <3>1. page' = Settled(ready) /\ wire' = wire \ {r}
      BY <1>7, <2>5 DEF ReceiveLoad
    <3> QED
      BY <1>2, <1>3, <2>1, <3>1, PageKeeps
  <2> QED
    BY <2>4, <2>5
<1>8. CASE ReceiveSave(r)
  <2>1. \A q \in wire' : q \in wire \/ (TypedRequest(q) /\ Told(q)')
    <3> PICK n : n = Request("prefs", NoCatalog, r.choice, FALSE)
      OBVIOUS
    <3>1. TypedRequest(n) /\ Told(n)'
      BY <1>1, NothingTyped, RequestTyped
    <3>2. wire' \subseteq (wire \ {r}) \cup {n}
      BY <1>8 DEF ReceiveSave
    <3> QED
      BY <3>1, <3>2
  <2>2. CASE r.reply.status = "ok"
    <3>1. Unchosen(saved)
      BY <1>1, <1>6, <2>2, ToldUnchosen DEF Told
    <3> PICK ended : ended = Ended(saved, "none")
      OBVIOUS
    <3> PICK closed : closed = Closed(ended)
      OBVIOUS
    <3>2. TypedPage(ended) /\ Unchosen(ended)
      BY <1>6, <3>1, ClosedTyped
    <3>3. TypedPage(closed) /\ Unchosen(closed)
      BY <3>2, ClosedTyped
    <3>4. page' = Settled(saved) \/ page' = Settled(closed)
      BY <1>8, <2>2 DEF ReceiveSave
    <3>5. CASE page' = Settled(saved)
      BY <1>2, <1>3, <1>6, <2>1, <3>1, <3>5, PageKeeps
    <3>6. CASE page' = Settled(closed)
      BY <1>2, <1>3, <2>1, <3>3, <3>6, PageKeeps
    <3> QED
      BY <3>4, <3>5, <3>6
  <2>3. CASE r.reply.status = "conflict"
    <3> PICK ended : ended = Ended(saved, "conflict")
      OBVIOUS
    <3>1. TypedPage(ended)
      BY <1>6, ClosedTyped
    <3> PICK refused : refused = [ended EXCEPT !.conflicted = TRUE]
      OBVIOUS
    <3>2. TypedPage(refused) /\ Unchosen(refused)
      BY <1>5, <3>1
    <3>3. page' = Settled(refused)
      BY <1>8, <2>3 DEF ReceiveSave
    <3> QED
      BY <1>2, <1>3, <2>1, <3>2, <3>3, PageKeeps
  <2>4. CASE r.reply.status \notin {"ok", "conflict"}
    <3> PICK ended : ended = Ended(page, "failed")
      OBVIOUS
    <3>1. TypedPage(ended) /\ Unchosen(ended)
      BY <1>1, ClosedTyped
    <3>2. page' = Settled(ended)
      BY <1>8, <2>4 DEF ReceiveSave
    <3> QED
      BY <1>2, <1>3, <2>1, <3>1, <3>2, PageKeeps
  <2> QED
    BY <2>2, <2>3, <2>4
<1>9. CASE ReceivePreferences(r)
  <2>0. r.kind = "prefs" /\ wire' = wire \ {r}
    BY <1>9 DEF ReceivePreferences, Arrives
  <2> PICK applied : applied = AppliedPreferences(page, preferences)
    OBVIOUS
  <2> PICK ended : ended = IF r.reply.status = "ok" THEN Ended(applied, "none")
                           ELSE Ended(page, "failed")
    OBVIOUS
  <2>1. CASE r.reply.status = "ok"
    <3>1. TypedPage(applied)
      BY <1>1, AppliedPreferencesTyped
    <3>2. Unchosen(applied)
      BY <1>1, <2>0, <2>1 DEF Told, Unchosen
    <3>3. TypedPage(ended) /\ Unchosen(ended)
      BY <2>1, <3>1, <3>2, ClosedTyped
    <3> PICK closed : closed = Closed(ended)
      OBVIOUS
    <3>4. TypedPage(closed) /\ Unchosen(closed)
      BY <3>3, ClosedTyped
    <3>5. page' = Settled(closed)
      BY <1>9, <2>1 DEF ReceivePreferences
    <3> QED
      BY <1>2, <1>3, <2>0, <3>4, <3>5, PageKeeps
  <2>2. CASE r.reply.status # "ok"
    <3>1. TypedPage(ended) /\ Unchosen(ended)
      BY <1>1, <2>2, ClosedTyped
    <3>2. page' = Settled(ended)
      BY <1>9, <2>2 DEF ReceivePreferences
    <3> QED
      BY <1>2, <1>3, <2>0, <3>1, <3>2, PageKeeps
  <2> QED
    BY <2>1, <2>2
<1>10. CASE ReceiveFirstRun(r)
  <2>0. r.kind = "first" /\ wire' = wire \ {r}
    BY <1>10 DEF ReceiveFirstRun, Arrives
  <2> PICK ready : ready = [page EXCEPT !.choosing = FALSE]
    OBVIOUS
  <2>1. TypedPage(ready) /\ Unchosen(ready)
    BY <1>1 DEF TypedPage, PageType, Unchosen
  <2>2. CASE r.reply.status = "ok"
    <3> PICK applied : applied = AppliedPreferences(ready, preferences)
      OBVIOUS
    <3>1. TypedPage(applied)
      BY <2>1, AppliedPreferencesTyped
    <3>2. Unchosen(applied)
      BY <1>1, <2>0, <2>2 DEF Told, Unchosen
    <3>3. page' = Settled(applied)
      BY <1>10, <2>2 DEF ReceiveFirstRun
    <3> QED
      BY <1>2, <1>3, <2>0, <3>1, <3>2, <3>3, PageKeeps
  <2>3. CASE r.reply.status # "ok"
    <3>1. page' = Settled(ready)
      BY <1>10, <2>3 DEF ReceiveFirstRun
    <3> QED
      BY <1>2, <1>3, <2>0, <2>1, <3>1, PageKeeps
  <2> QED
    BY <2>2, <2>3
<1>11. CASE ReceiveToggle(r)
  <2>0. wire' = wire \ {r}
    BY <1>11 DEF ReceiveToggle
  <2>1. CASE r.reply.status = "ok"
    <3>1. Unchosen(saved)
      BY <1>1, <1>6, <2>1, ToldUnchosen DEF Told
    <3>2. page' = Settled(saved)
      BY <1>11, <2>1 DEF ReceiveToggle
    <3> QED
      BY <1>2, <1>3, <1>6, <2>0, <3>1, <3>2, PageKeeps
  <2>2. CASE r.reply.status = "conflict"
    <3> PICK refused : refused = [saved EXCEPT !.message = "conflict", !.conflicted = TRUE]
      OBVIOUS
    <3>0. refused \in PageType
      <4>1. saved \in PageType
        BY <1>6 DEF TypedPage
      <4>2. [saved EXCEPT !.message = "conflict", !.conflicted = TRUE] \in PageType
        BY <4>1, RefusedTyped
      <4> QED
        BY <4>2
    <3>f. /\ refused.config = saved.config /\ refused.draft = saved.draft
          /\ refused.conflicted = TRUE
      <4>1. saved \in PageType
        BY <1>6 DEF TypedPage
      <4> QED
        BY <4>1 DEF PageType
    <3>1. TypedPage(refused) /\ Unchosen(refused)
      BY <1>6, <3>0, <3>f DEF TypedPage, Unchosen
    <3>2. page' = Settled(refused)
      BY <1>11, <2>2 DEF ReceiveToggle
    <3> QED
      BY <1>2, <1>3, <2>0, <3>1, <3>2, PageKeeps
  <2>3. CASE r.reply.status \notin {"ok", "conflict"}
    <3> PICK told : told = [page EXCEPT !.message = "failed"]
      OBVIOUS
    <3>1. TypedPage(told) /\ Unchosen(told)
      BY <1>1 DEF TypedPage, PageType, Unchosen
    <3>2. page' = Settled(told)
      BY <1>11, <2>3 DEF ReceiveToggle
    <3> QED
      BY <1>2, <1>3, <2>0, <3>1, <3>2, PageKeeps
  <2> QED
    BY <2>1, <2>2, <2>3
<1> QED
  BY <1>7, <1>8, <1>9, <1>10, <1>11 DEF Receive

\* An edit changes the draft, the ticks and the count of edits alone.
LEMMA EditGate ==
  ASSUME GateInv, NEW draft, TypedVersion(draft), NEW seen \in SUBSET Group,
         Edit([page EXCEPT !.draft = draft, !.seen = seen])
  PROVE  GateInv'
<1> PICK p : p = [page EXCEPT !.draft = draft, !.seen = seen]
  OBVIOUS
<1>1. page \in PageType /\ Coherent(page.config) /\ Unchosen(page) /\ Bounded
  BY DEF GateInv, TypedPage
<1>2. draft \in Versions /\ Coherent(draft)
  BY DEF TypedVersion
<1>3. p \in PageType
  BY <1>1, <1>2 DEF PageType
<1>4. /\ p.draft = draft /\ p.config = page.config /\ p.preferences = page.preferences
      /\ p.conflicted = page.conflicted
  BY <1>1 DEF PageType
<1>5. TypedPage(p) /\ Unchosen(p)
  BY <1>1, <1>2, <1>3, <1>4 DEF TypedPage, Unchosen
<1>6. /\ page' = Settled(p) /\ edits < MaxEdits /\ edits' = edits + 1
      /\ UNCHANGED <<catalog, row, wire, opens, loads, fails>>
  BY DEF Edit
<1>7. Bounded'
  BY <1>1, <1>6, GroupsAssumption DEF Bounded
<1> QED
  BY <1>5, <1>6, <1>7, PageKeeps

\* What the user edits in the settings.
LEMMA DialogGate ==
  ASSUME GateInv, NEW g \in Group,
         \/ AddGroup(g) \/ RemoveGroup(g) \/ ToggleDefault(g)
         \/ ChangeGroup(g) \/ ToggleVisible(g) \/ Import(g)
  PROVE  GateInv'
<1> PICK d : d = page.draft
  OBVIOUS
<1> PICK seen : seen = page.seen
  OBVIOUS
<1>1. page \in PageType /\ TypedVersion(d) /\ seen \in SUBSET Group
  BY DEF GateInv, TypedPage, PageType, TypedVersion
<1>2. CASE AddGroup(g)
  <2>1. PICK named \in BOOLEAN, copied \in BOOLEAN :
           Edit([page EXCEPT !.draft = IF copied THEN Marked(Added(@, g), g) ELSE Added(@, g),
                             !.seen = IF named THEN @ \cup {g} ELSE @])
    BY <1>2 DEF AddGroup
  <2> PICK added : added = Added(d, g)
    OBVIOUS
  <2>2. TypedVersion(added) /\ g \in added.groups
    BY <1>1, EditTyped
  <2> PICK draft : draft = IF copied THEN Marked(added, g) ELSE added
    OBVIOUS
  <2> PICK ticked : ticked = IF named THEN seen \cup {g} ELSE seen
    OBVIOUS
  <2>3. TypedVersion(draft) /\ ticked \in SUBSET Group
    BY <1>1, <2>2, EditTyped
  <2>4. Edit([page EXCEPT !.draft = draft, !.seen = ticked])
    BY <2>1
  <2> QED
    BY <2>3, <2>4, EditGate
<1>3. CASE RemoveGroup(g)
  <2> PICK draft : draft = Removed(d, g)
    OBVIOUS
  <2>1. TypedVersion(draft) /\ seen \ {g} \in SUBSET Group
    BY <1>1, EditTyped
  <2>2. Edit([page EXCEPT !.draft = draft, !.seen = seen \ {g}])
    BY <1>3 DEF RemoveGroup
  <2> QED
    BY <2>1, <2>2, EditGate
<1>4. CASE ToggleDefault(g) \/ ChangeGroup(g)
  <2>1. PICK draft \in {Defaulted(d, g), Marked(d, g)} : Edit([page EXCEPT !.draft = draft])
    BY <1>4 DEF ToggleDefault, ChangeGroup
  <2>2. TypedVersion(draft)
    BY <1>1, <1>4, EditTyped DEF ToggleDefault, ChangeGroup
  <2>3. [page EXCEPT !.draft = draft] = [page EXCEPT !.draft = draft, !.seen = seen]
    BY <1>1 DEF PageType
  <2> QED
    BY <1>1, <2>1, <2>2, <2>3, EditGate
<1>5. CASE ToggleVisible(g)
  <2> PICK ticked : ticked = IF g \in seen THEN seen \ {g} ELSE seen \cup {g}
    OBVIOUS
  <2>1. Edit([page EXCEPT !.seen = ticked])
    BY <1>5 DEF ToggleVisible
  <2>2. [page EXCEPT !.seen = ticked] = [page EXCEPT !.draft = d, !.seen = ticked]
    BY <1>1 DEF PageType
  <2>3. ticked \in SUBSET Group
    BY <1>1
  <2>4. Edit([page EXCEPT !.draft = d, !.seen = ticked])
    BY <2>1, <2>2
  <2> QED
    BY <1>1, <2>3, <2>4, EditGate
<1>6. CASE Import(g)
  <2> PICK draft : draft = Version(Added(Nothing, g), 0, 0)
    OBVIOUS
  <2>1. TypedVersion(draft)
    BY GroupsAssumption DEF Version, Added, Nothing, TypedVersion, Versions, Coherent
  <2>2. Edit([page EXCEPT !.draft = draft])
    BY <1>6 DEF Import
  <2>3. [page EXCEPT !.draft = draft] = [page EXCEPT !.draft = draft, !.seen = seen]
    BY <1>1 DEF PageType
  <2> QED
    BY <1>1, <2>1, <2>2, <2>3, EditGate
<1> QED
  BY <1>2, <1>3, <1>4, <1>5, <1>6

\* The settings open and close, and another group is chosen.
LEMMA ViewGate ==
  ASSUME GateInv, OpenSettings \/ AddFirstGroup \/ CloseSettings \/ \E g \in Group : SelectGroup(g)
  PROVE  GateInv'
<1>1. page \in PageType /\ TypedPage(page) /\ Unchosen(page) /\ Bounded
  BY DEF GateInv, TypedPage
<1>2. CASE OpenSettings
  <2> PICK p : p = [page EXCEPT !.open = TRUE, !.renewed = TRUE]
    OBVIOUS
  <2>1. /\ page' = Settled(p) /\ opens < MaxOpens /\ opens' = opens + 1
        /\ UNCHANGED <<catalog, row, wire, edits, loads, fails>>
    BY <1>2 DEF OpenSettings
  <2>2. TypedPage(p) /\ Unchosen(p)
    BY <1>1 DEF TypedPage, PageType, Unchosen
  <2>3. Bounded'
    BY <1>1, <2>1, GroupsAssumption DEF Bounded
  <2> QED
    BY <2>1, <2>2, <2>3, PageKeeps
<1>3. CASE AddFirstGroup
  <2> PICK preferences : preferences = [page.preferences EXCEPT !.onboarding = FALSE]
    OBVIOUS
  <2>1. preferences \in Preferences
    BY <1>1 DEF PageType, Preferences
  <2> PICK p : p = [page EXCEPT !.open = TRUE, !.renewed = TRUE, !.preferences = preferences]
    OBVIOUS
  <2>2. /\ page' = Settled(p) /\ opens < MaxOpens /\ opens' = opens + 1
        /\ page.config.groups = {}
        /\ UNCHANGED <<catalog, row, wire, edits, loads, fails>>
    BY <1>3 DEF AddFirstGroup
  <2>3. p \in PageType
    BY <1>1, <2>1 DEF PageType
  <2>4. p.config = page.config /\ p.draft = page.draft
    BY <1>1 DEF PageType
  <2>5. TypedPage(p)
    BY <1>1, <2>3, <2>4 DEF TypedPage
  <2>6. Effective(p.config, p.preferences) = {}
    <3>1. p.config \in Versions
      BY <2>3 DEF PageType
    <3> QED
      BY <2>2, <2>4, <3>1, EffectiveTyped
  <2>7. Unchosen(p)
    BY <2>6 DEF Unchosen
  <2>8. Bounded'
    BY <1>1, <2>2, GroupsAssumption DEF Bounded
  <2> QED
    BY <2>2, <2>5, <2>7, <2>8, PageKeeps
<1>4. CASE CloseSettings
  <2> PICK p : p = Closed(page)
    OBVIOUS
  <2>1. TypedPage(p) /\ Unchosen(p)
    BY <1>1, ClosedTyped
  <2>2. page' = Settled(p) /\ UNCHANGED <<catalog, row, wire, edits, opens, loads, fails>>
    BY <1>4 DEF CloseSettings
  <2>3. Bounded'
    BY <1>1, <2>2 DEF Bounded
  <2> QED
    BY <2>1, <2>2, <2>3, PageKeeps
<1>5. CASE \E g \in Group : SelectGroup(g)
  <2>1. PICK g \in Group : SelectGroup(g)
    BY <1>5
  <2> PICK p : p = [page EXCEPT !.active = g]
    OBVIOUS
  <2>2. p \in PageType
    BY <1>1, ActiveTyped
  <2>3. /\ p.config = page.config /\ p.draft = page.draft /\ p.preferences = page.preferences
        /\ p.conflicted = page.conflicted
    BY <1>1 DEF PageType
  <2>4. TypedPage(p) /\ Unchosen(p)
    BY <1>1, <2>2, <2>3 DEF TypedPage, Unchosen
  <2>5. page' = Settled(p) /\ UNCHANGED <<catalog, row, wire, edits, opens, loads, fails>>
    BY <2>1 DEF SelectGroup
  <2>6. Bounded'
    BY <1>1, <2>5 DEF Bounded
  <2> QED
    BY <2>4, <2>5, <2>6, PageKeeps
<1> QED
  BY <1>2, <1>3, <1>4, <1>5

\* The choice that Save or the first run sends, and the wire with it.
LEMMA SentTyped ==
  ASSUME GateInv, NEW p \in PageType, page' = Settled(p), TypedPage(p), Unchosen(p),
         NEW q, TypedRequest(q) /\ Told(q)', wire' = wire \cup {q},
         UNCHANGED <<catalog, row, opens, loads, fails>>,
         edits' = edits \/ (edits < MaxEdits /\ edits' = edits + 1)
  PROVE  GateInv'
<1>1. Bounded
  BY DEF GateInv
<1>2. Bounded'
  BY <1>1, GroupsAssumption DEF Bounded
<1> QED
  BY <1>2, PageKeeps

\* What the page asks the server for.
LEMMA SendGate ==
  ASSUME GateInv, Save \/ ToggleEpic \/ ContinueFirstRun
  PROVE  GateInv'
<1>1. /\ page \in PageType /\ TypedPage(page) /\ Unchosen(page) /\ Bounded
      /\ TypedVersion(page.config) /\ TypedVersion(page.draft)
  BY DEF GateInv, TypedPage, PageType, TypedVersion
<1>2. CASE Save
  <2> PICK p : p = [page EXCEPT !.saving = TRUE, !.message = "none"]
    OBVIOUS
  <2> PICK choice : choice = VisibilitySignature(page)
    OBVIOUS
  <2>1. choice \in Choices /\ page.seenDirty \in BOOLEAN
    BY <1>1, SignatureTyped DEF PageType
  <2>2. PICK q \in {Request("save", page.draft, choice, page.seenDirty),
                    Request("prefs", NoCatalog, choice, FALSE)} : wire' = wire \cup {q}
    BY <1>2 DEF Save
  <2>3. TypedRequest(q) /\ Told(q)'
    BY <1>1, <2>1, <2>2, NothingTyped, RequestTyped
  <2>4. p \in PageType /\ TypedPage(p) /\ Unchosen(p)
    BY <1>1 DEF TypedPage, PageType, Unchosen
  <2>5. page' = Settled(p) /\ UNCHANGED <<catalog, row, edits, opens, loads, fails>>
    BY <1>2 DEF Save
  <2> QED
    BY <2>2, <2>3, <2>4, <2>5, SentTyped
<1>3. CASE ToggleEpic
  <2> PICK p : p = [page EXCEPT !.message = "none"]
    OBVIOUS
  <2> PICK version : version = Marked(page.config, page.active)
    OBVIOUS
  <2>1. page.active \in page.config.groups /\ page.config.groups \subseteq Group
    BY <1>1, <1>3 DEF ToggleEpic, TypedVersion, Versions
  <2>2. TypedVersion(version)
    BY <1>1, <2>1, EditTyped
  <2> PICK q : q = Request("toggle", version, NoChoice, FALSE)
    OBVIOUS
  <2>3. NoChoice \in Choices
    BY DEF NoChoice, Choices
  <2>4. TypedRequest(q) /\ Told(q)'
    BY <2>2, <2>3, RequestTyped
  <2>5. /\ page' = Settled(p) /\ wire' = wire \cup {q} /\ edits < MaxEdits /\ edits' = edits + 1
        /\ UNCHANGED <<catalog, row, opens, loads, fails>>
    BY <1>3 DEF ToggleEpic, Toggled
  <2>6. p \in PageType /\ TypedPage(p) /\ Unchosen(p)
    BY <1>1 DEF TypedPage, PageType, Unchosen
  <2> QED
    BY <2>4, <2>5, <2>6, SentTyped
<1>4. CASE ContinueFirstRun
  <2>1. PICK chosen \in (SUBSET page.config.groups) \ {{}} :
           wire' = wire \cup
             {Request("first", NoCatalog,
                      [visible |-> chosen \cup ({page.config.default} \ {None}),
                       active |-> CHOOSE g \in chosen : TRUE], FALSE)}
    BY <1>4 DEF ContinueFirstRun
  <2> PICK choice : choice = [visible |-> chosen \cup ({page.config.default} \ {None}),
                              active |-> CHOOSE g \in chosen : TRUE]
    OBVIOUS
  <2>2. chosen \subseteq Group /\ chosen # {} /\ page.config.default \in Group \cup {None}
    BY <1>1, <2>1 DEF TypedVersion, Versions
  <2>3. choice \in Choices
    <3>1. PICK first : first = CHOOSE g \in chosen : TRUE
      OBVIOUS
    <3>2. first \in Group
      BY <2>2, <3>1
    <3>3. PICK visible : visible = chosen \cup ({page.config.default} \ {None})
      OBVIOUS
    <3>4. visible \in SUBSET Group
      BY <2>2, <3>3
    <3>5. choice = [visible |-> visible, active |-> first]
      BY <3>1, <3>3
    <3> QED
      BY <3>2, <3>4, <3>5 DEF Choices
  <2> PICK q : q = Request("first", NoCatalog, choice, FALSE)
    OBVIOUS
  <2>4. TypedRequest(q) /\ Told(q)' /\ wire' = wire \cup {q}
    BY <2>1, <2>3, NothingTyped, RequestTyped
  <2> PICK p : p = [page EXCEPT !.choosing = TRUE]
    OBVIOUS
  <2>5. p \in PageType /\ TypedPage(p) /\ Unchosen(p)
    BY <1>1 DEF TypedPage, PageType, Unchosen
  <2>6. page' = p /\ UNCHANGED <<catalog, row, edits, opens, loads, fails>>
    BY <1>4 DEF ContinueFirstRun
  <2>7. /\ p.renewed = page.renewed /\ p.signed = page.signed
        /\ p.seen = page.seen /\ p.active = page.active /\ p.loading = page.loading
        /\ p.conflicted = page.conflicted
    BY <1>1 DEF PageType
  <2>8. VisibilitySignature(p) = VisibilitySignature(page)
    BY <2>7 DEF VisibilitySignature
  <2>9. Unchosen(page)' /\ VisibilitySignature(page)' = VisibilitySignature(p)
    BY <2>5, <2>6 DEF Unchosen, VisibilitySignature
  <2>10. \A s \in wire' : TypedRequest(s) /\ Told(s)'
    BY <2>4, <2>6 DEF GateInv, Told
  <2>11. Bounded' /\ TypedVersion(catalog)' /\ row' \in Choices \cup {NoRow}
    BY <2>6 DEF GateInv, Bounded
  <2>12. /\ page'.renewed = FALSE /\ page'.signed = VisibilitySignature(page)'
         /\ row' = NoRow /\ ~page'.loading /\ ~page'.conflicted => page'.active = None
    <3>1. /\ page.renewed = FALSE /\ page.signed = VisibilitySignature(page)
          /\ row = NoRow /\ ~page.loading /\ ~page.conflicted => page.active = None
      BY DEF GateInv
    <3>2. page'.renewed = FALSE /\ page'.signed = VisibilitySignature(page)'
      BY <2>6, <2>7, <2>8, <2>9, <3>1
    <3>3. row' = NoRow /\ ~page'.loading /\ ~page'.conflicted => page'.active = None
      BY <2>6, <2>7, <3>1
    <3> QED
      BY <3>2, <3>3
  <2>13. TypedPage(page)'
    BY <2>5, <2>6
  <2> QED
    BY <2>9, <2>10, <2>11, <2>12, <2>13 DEF GateInv
<1> QED
  BY <1>2, <1>3, <1>4

\* A page as it is loaded.
LEMMA FreshPageTyped ==
  ASSUME NEW active \in Group \cup {None}
  PROVE  LET q == FreshPage(active) IN
         /\ TypedPage(q) /\ q.renewed = FALSE /\ q.signed = VisibilitySignature(q)
         /\ q.loading = TRUE /\ Effective(q.config, q.preferences) = {}
<1> PICK base \in Signatures : base = Signature(NoCatalog)
  BY NothingTyped DEF TypedVersion, Signature, Signatures, Versions
<1> PICK signed \in Choices : signed = [visible |-> {}, active |-> active]
  BY DEF Choices
<1> PICK nothing \in Versions : nothing = NoCatalog
  BY NothingTyped DEF TypedVersion
<1> PICK preferences \in Preferences : preferences = NoPreferences
  BY NothingTyped
<1> PICK q : q = FreshPage(active)
  OBVIOUS
<1>1. q = [config |-> nothing, preferences |-> preferences, active |-> active,
           loading |-> TRUE, open |-> FALSE, renewed |-> FALSE,
           draft |-> nothing, base |-> base, seen |-> {},
           seenBase |-> NoRow, seenDirty |-> TRUE, signed |-> signed,
           saving |-> FALSE, choosing |-> FALSE, message |-> "none",
           conflicted |-> FALSE]
  BY DEF FreshPage, NoChoice
<1>2. q \in PageType
  BY <1>1 DEF PageType
<1>3. /\ q.renewed = FALSE /\ q.signed = signed /\ q.loading = TRUE
      /\ q.config = nothing /\ q.draft = nothing
  BY <1>1
<1>4. VisibilitySignature(q) = signed
  BY <1>1 DEF VisibilitySignature
<1>5. Effective(q.config, q.preferences) = {}
  BY <1>3, NothingTyped, EffectiveTyped
<1>6. TypedPage(q)
  BY <1>2, <1>3, NothingTyped DEF TypedPage, TypedVersion
<1> QED
  BY <1>3, <1>4, <1>5, <1>6

\* The page is loaded anew.
LEMMA ReloadGate ==
  ASSUME GateInv, Reload
  PROVE  GateInv'
<1> PICK q : q = FreshPage(page.active)
  OBVIOUS
<1>1. page.active \in Group \cup {None} /\ Bounded
  BY DEF GateInv, TypedPage, PageType
<1>2. /\ TypedPage(q) /\ q.renewed = FALSE /\ q.signed = VisibilitySignature(q)
      /\ q.loading = TRUE /\ Effective(q.config, q.preferences) = {}
  BY <1>1, FreshPageTyped
<1>3. page' = q /\ loads < MaxLoads /\ loads' = loads + 1
      /\ UNCHANGED <<catalog, row, edits, opens, fails>>
  BY DEF Reload
<1>4. Bounded'
  BY <1>1, <1>3, GroupsAssumption DEF Bounded
<1>5. \A s \in wire' : TypedRequest(s) /\ Told(s)'
  <2>1. TypedRequest(LoadRequest) /\ Told(LoadRequest)'
    <3>1. NoChoice \in Choices
      BY DEF NoChoice, Choices
    <3> QED
      BY <3>1, NothingTyped, RequestTyped DEF LoadRequest
  <2>2. ASSUME NEW r \in wire, NEW s, s = [r EXCEPT !.heard = FALSE]
        PROVE  TypedRequest(s) /\ Told(s)'
    <3>1. TypedRequest(r) /\ Told(r)
      BY DEF GateInv
    <3>2. s \in Requests /\ s.reply = r.reply /\ s.version = r.version /\ s.kind = r.kind
      BY <2>2, <3>1 DEF TypedRequest, Requests
    <3> QED
      BY <1>3, <3>1, <3>2 DEF TypedRequest, Told
  <2> QED
    BY <2>1, <2>2 DEF Reload
<1>6. Unchosen(page)' /\ VisibilitySignature(page)' = VisibilitySignature(q)
  BY <1>2, <1>3 DEF Unchosen, VisibilitySignature
<1>7. TypedVersion(catalog)' /\ row' \in Choices \cup {NoRow}
  BY <1>3 DEF GateInv
<1> QED
  BY <1>2, <1>3, <1>4, <1>5, <1>6, <1>7 DEF GateInv

LEMMA InitGate == Init => GateInv
<1> SUFFICES ASSUME Init PROVE GateInv
  OBVIOUS
<1>1. TypedVersion(catalog)
  BY NothingTyped DEF Init
<1>2. row \in Choices \cup {NoRow}
  <2>1. catalog.groups \subseteq Group
    BY <1>1 DEF TypedVersion, Versions
  <2> QED
    BY <2>1 DEF Init, Choices
<1>3. PICK active \in Group \cup {None} : page = FreshPage(active)
  BY GroupsAssumption DEF Init, Contents
<1>4. /\ TypedPage(page) /\ page.renewed = FALSE /\ page.signed = VisibilitySignature(page)
      /\ page.loading = TRUE /\ Effective(page.config, page.preferences) = {}
  BY <1>3, FreshPageTyped
<1>5. TypedRequest(LoadRequest) /\ Told(LoadRequest)
  <2>1. NoReply \in [status: {"none", "ok", "conflict", "refused", "failed"},
                     version: Versions, preferences: Preferences]
    BY NothingTyped DEF NoReply, TypedVersion
  <2>2. NoReply.status = "none" /\ NoReply.version = NoCatalog
    BY DEF NoReply
  <2>3. LoadRequest = [kind |-> "load", step |-> "sent", version |-> NoCatalog,
                       choice |-> NoChoice, also |-> FALSE, heard |-> TRUE, reply |-> NoReply]
    BY DEF LoadRequest, Request
  <2>4. NoChoice \in Choices
    BY DEF NoChoice, Choices
  <2>5. NoCatalog \in Versions /\ Coherent(NoCatalog)
    BY NothingTyped DEF TypedVersion
  <2>6. LoadRequest \in Requests
    BY <2>1, <2>3, <2>4, <2>5 DEF Requests
  <2>7. LoadRequest.version = NoCatalog /\ LoadRequest.reply = NoReply
    BY <2>3
  <2> QED
    BY <2>2, <2>5, <2>6, <2>7 DEF TypedRequest, Told
<1>6. wire = {LoadRequest}
  BY DEF Init
<1>7. Bounded
  BY GroupsAssumption DEF Init, Bounded
<1>8. Unchosen(page)
  BY <1>4 DEF Unchosen
<1> QED
  BY <1>1, <1>2, <1>4, <1>5, <1>6, <1>7, <1>8 DEF GateInv

LEMMA NextGate == GateInv /\ [Next]_vars => GateInv'
<1> SUFFICES ASSUME GateInv, [Next]_vars PROVE GateInv'
  OBVIOUS
<1>1. CASE \E r \in wire : Server(r) \/ Receive(r)
  BY <1>1, ServerGate, ReceiveGate
<1>2. CASE Colleague \/ \E r \in wire : Fail(r)
  BY <1>2, OthersGate
<1>3. CASE OpenSettings \/ AddFirstGroup \/ CloseSettings \/ \E g \in Group : SelectGroup(g)
  BY <1>3, ViewGate
<1>4. CASE Save \/ ToggleEpic \/ ContinueFirstRun \/ Reload
  BY <1>4, SendGate, ReloadGate
<1>5. CASE \E g \in Group : \/ AddGroup(g) \/ RemoveGroup(g) \/ ToggleDefault(g)
                            \/ ChangeGroup(g) \/ ToggleVisible(g) \/ Import(g)
  BY <1>5, DialogGate
<1>6. CASE UNCHANGED vars
  <2>1. UNCHANGED <<catalog, row, page, wire, edits, opens, loads, fails>>
    BY <1>6 DEF vars
  <2>2. TypedVersion(catalog)' /\ row' \in Choices \cup {NoRow} /\ Bounded'
    BY <2>1 DEF GateInv, Bounded
  <2>3. \A q \in wire' : TypedRequest(q) /\ Told(q)'
    BY <2>1 DEF GateInv, Told
  <2> QED
    BY <2>1, <2>2, <2>3, ServerKeeps
<1>7. User => \/ OpenSettings \/ AddFirstGroup \/ CloseSettings \/ \E g \in Group : SelectGroup(g)
              \/ Save \/ ToggleEpic \/ ContinueFirstRun \/ Reload
              \/ \E g \in Group : \/ AddGroup(g) \/ RemoveGroup(g) \/ ToggleDefault(g)
                                  \/ ChangeGroup(g) \/ ToggleVisible(g) \/ Import(g)
  BY DEF User
<1> QED
  BY <1>1, <1>2, <1>3, <1>4, <1>5, <1>6, <1>7 DEF Next

LEMMA GateOfInv == GateInv => FirstRunGate
<1> SUFFICES ASSUME GateInv PROVE FirstRunGate
  OBVIOUS
<1>1. catalog \in Versions /\ Coherent(catalog) /\ (row = NoRow \/ row \in Choices)
  BY DEF GateInv, TypedVersion
<1>2. /\ page \in PageType /\ Coherent(page.config) /\ Coherent(page.draft)
      /\ page.renewed = FALSE /\ page.signed = VisibilitySignature(page)
  BY DEF GateInv, TypedPage
<1>3. page \in [config: Versions, preferences: Preferences, active: Group \cup {None},
                loading: BOOLEAN, open: BOOLEAN, renewed: {FALSE}, draft: Versions,
                base: Signatures, seen: SUBSET Group,
                seenBase: Choices \cup {NoRow}, seenDirty: BOOLEAN,
                signed: {VisibilitySignature(page)},
                saving: BOOLEAN, choosing: BOOLEAN,
                message: {"none", "conflict", "failed"}, conflicted: BOOLEAN]
  BY <1>2 DEF PageType
<1>4. wire \subseteq Requests
  BY DEF GateInv, TypedRequest
<1>5. TypeOK
  BY <1>1, <1>2, <1>3, <1>4 DEF TypeOK, GateInv, Bounded
<1>6. page.active # None /\ ~page.loading /\ ~page.conflicted => row # NoRow
  BY DEF GateInv
<1> QED
  BY <1>5, <1>6 DEF FirstRunGate

\* A user without a preference row is shown no group until the dialog of the
\* first run is answered, or a save was refused, in whatever order the
\* answers of saves, toggles and reloads come (FirstRunGate;
\* normalize_group_preferences, openFirstRunAddGroup, onboardingRequired).
THEOREM NoGroupBeforeChoice == Spec => []FirstRunGate
BY InitGate, NextGate, GateOfInv, PTL DEF Spec
=============================================================================
