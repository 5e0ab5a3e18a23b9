----------------------------- MODULE DraftEvents -----------------------------
(***************************************************************************)
(* How a tab follows the event feed of the draft it shows: get_events_page *)
(* of backend/scenario_drafts.py, polled every five seconds, and the       *)
(* optional stream of the same events; both effects of                     *)
(* frontend/src/dashboard.jsx apply an event, move the cursor and are run  *)
(* again when the cursor has moved.  The feed itself, numbered without     *)
(* gaps in commit order, is that of ScenarioDrafts.tla.                    *)
(***************************************************************************)
EXTENDS Naturals, Sequences

CONSTANTS Types,       \* event types
          Heard,       \* those the stream's client has a listener for
          PageLimit,   \* events in a page
          MaxEvents,   \* bound on the feed
          MaxPolls     \* bound on the polls in flight

ASSUME TypesAssumption == Heard \subseteq Types
ASSUME LimitAssumption == PageLimit \in Nat \ {0} /\ MaxPolls \in Nat \ {0}

VARIABLES feed,     \* types of the events, by number
          cursor,   \* scenarioDraftLastEventNumber
          applied,  \* events given to applyScenarioDraftEvent
          polls,    \* in flight: asked since an event, answered to the last of a page
          stream,   \* events still to come from the open stream
          opened    \* a stream was opened at this cursor

feedVars == <<feed, cursor, applied, polls, stream, opened>>

FeedInit ==
    /\ feed = <<>>
    /\ cursor = 0
    /\ applied = {}
    /\ polls = <<>>
    /\ stream = <<>>
    /\ opened = FALSE

AppendEvent(type) ==
    /\ Len(feed) < MaxEvents
    /\ feed' = Append(feed, type)
    /\ UNCHANGED <<cursor, applied, polls, stream, opened>>

\* Only whole pages.
PageEndIfFull(since) ==
    IF Len(feed) >= since + PageLimit THEN since + PageLimit ELSE since

\* get_events_page: the number of the last event of the page after since.
PageEnd(since) ==
    IF Len(feed) > since + PageLimit THEN since + PageLimit ELSE Len(feed)

Without(i) == [j \in 1 .. Len(polls) - 1 |-> IF j < i THEN polls[j] ELSE polls[j + 1]]

\* The interval, or the effect that a new cursor has run again.
SendPoll ==
    /\ Len(polls) < MaxPolls
    /\ polls' = Append(polls, [since |-> cursor, state |-> "sent", last |-> 0])
    /\ UNCHANGED <<feed, cursor, applied, stream, opened>>

AnswerPoll(i) ==
    /\ polls[i].state = "sent"
    /\ polls' = [polls EXCEPT ![i] = [since |-> @.since, state |-> "answered",
                                      last |-> PageEnd(@.since)]]
    /\ UNCHANGED <<feed, cursor, applied, stream, opened>>

\* Moving the cursor ends the effects that depend on it: the stream is
\* closed, and a poll that asked since an older event is cancelled.
MoveTo(n) ==
    /\ cursor' = n
    /\ IF n = cursor THEN UNCHANGED <<stream, opened>>
                     ELSE stream' = <<>> /\ opened' = FALSE

\* event_number compared with the next cursor.
EventsAfterNext(p) == p.since + 2 .. p.last

\* event_number > since.
EventsOf(p) == p.since + 1 .. p.last

HandlePoll(i) ==
    /\ polls[i].state = "answered"
    /\ polls[i].since = cursor
    /\ applied' = applied \union EventsOf(polls[i])
    /\ MoveTo(polls[i].last)
    /\ polls' = Without(i)
    /\ UNCHANGED feed

\* Cancelled, lost, or answered with an error: the interval polls again.
DropPoll(i) ==
    /\ polls' = Without(i)
    /\ UNCHANGED <<feed, cursor, applied, stream, opened>>

\* The response is one page of the feed; it ends, and its end is taken for a
\* disconnect, after which only a new cursor opens a stream.
OpenStream ==
    /\ ~opened
    /\ opened' = TRUE
    /\ stream' = [j \in 1 .. PageEnd(cursor) - cursor |-> cursor + j]
    /\ UNCHANGED <<feed, cursor, applied, polls>>

\* EventSource hands an event to the listeners of its type, if there are any.
StreamEvent ==
    /\ stream # <<>>
    /\ IF feed[Head(stream)] \in Heard
         THEN applied' = applied \union {Head(stream)} /\ MoveTo(Head(stream))
         ELSE stream' = Tail(stream) /\ UNCHANGED <<applied, cursor, opened>>
    /\ UNCHANGED <<feed, polls>>

StreamBreaks ==
    /\ stream # <<>>
    /\ stream' = <<>>
    /\ UNCHANGED <<feed, cursor, applied, polls, opened>>

HandlePolls == \E i \in 1 .. Len(polls) : HandlePoll(i)
AnswerPolls == \E i \in 1 .. Len(polls) : AnswerPoll(i)

\* A cancelled poll is aborted.
AbortPolls == \E i \in 1 .. Len(polls) : polls[i].since # cursor /\ DropPoll(i)

FeedNext ==
    \/ \E type \in Types : AppendEvent(type)
    \/ SendPoll \/ AnswerPolls \/ HandlePolls
    \/ \E i \in 1 .. Len(polls) : DropPoll(i)
    \/ OpenStream \/ StreamEvent \/ StreamBreaks

FeedSpec == FeedInit /\ [][FeedNext]_feedVars

\* The timer fires and cancelled polls are aborted; of the polls that go on
\* being sent, some are answered and handled.
FeedFairness ==
    /\ WF_feedVars(SendPoll) /\ WF_feedVars(AbortPolls)
    /\ SF_feedVars(AnswerPolls) /\ SF_feedVars(HandlePolls)
FeedLiveSpec == FeedSpec /\ FeedFairness

-----------------------------------------------------------------------------
(* Properties                                                              *)

Poll == [since: Nat, state: {"sent", "answered"}, last: Nat]

FeedTypeOK ==
    /\ feed \in Seq(Types)
    /\ cursor \in Nat
    /\ applied \subseteq 1 .. Len(feed)
    /\ polls \in Seq(Poll)
    /\ stream \in Seq(Nat)
    /\ opened \in BOOLEAN

\* The cursor passes no event the tab can hear of: pages, a stream cut short,
\* polls in flight and cancelled ones together lose nothing before it and
\* never take it back.
NothingHeardSkipped ==
    /\ FeedTypeOK
    /\ \A n \in 1 .. cursor : feed[n] \in Heard => n \in applied
    /\ \A n \in applied : n <= cursor

\* Every event reaches the tab, however long the feed is compared to a page,
\* while polls fail now and then (docs/plans/DONE-scenario-planner-quarter-
\* drafts-03-collaboration-writeback-gate.md:128).
EverythingHeardArrives ==
    \A n \in 1 .. MaxEvents :
        n \in 1 .. Len(feed) /\ feed[n] \in Heard ~> n \in applied
=============================================================================
