-------------------------- MODULE MCTokensAndFeed --------------------------
(* The two things that go on by themselves while others are at work: the    *)
(* refresh of a user's token in every request, by two requests and two      *)
(* callbacks; and a tab that polls the feed of a draft, of up to four       *)
(* events, with pages of two, two polls in flight, and the stream with and  *)
(* without the events its client has no listener for.  They share nothing;  *)
(* a behaviour follows one of them, part.                                   *)
EXTENDS TokenRefresh, DraftEvents

MCTypes == {"draft.saved", "draft.reloaded_from_jira"}
MCHeard == {"draft.saved"}

VARIABLE part

TokensNext == part = "tokens" /\ Next /\ UNCHANGED <<feedVars, part>>
ReaderNext == part = "feed" /\ FeedNext /\ UNCHANGED <<vars, part>>

\* FairSpec and FeedLiveSpec, each as long as its part is the one followed.
MCFairness ==
    /\ Fairness
    /\ WF_feedVars(part = "feed" /\ SendPoll) /\ WF_feedVars(part = "feed" /\ AbortPolls)
    /\ SF_feedVars(part = "feed" /\ AnswerPolls) /\ SF_feedVars(part = "feed" /\ HandlePolls)

MCInit == Init /\ FeedInit /\ part \in {"tokens", "feed"}

MCSpec ==
    /\ MCInit
    /\ [][TokensNext \/ ReaderNext]_<<vars, feedVars, part>>
    /\ MCFairness
=============================================================================
