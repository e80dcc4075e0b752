---------------------------- MODULE MCLifecycles ----------------------------
(***************************************************************************)
(* What becomes of the notifications of a tweet that its author edits and  *)
(* removes, and of a file between its upload and its removal.  The two     *)
(* parts share no document and are checked side by side: every behaviour   *)
(* is one of a single part, and the other rests.                           *)
(***************************************************************************)
EXTENDS Naturals, FiniteSets, TLC

CONSTANTS
    Users, Handlers, MaxEdits, MaxClock,    \* TweetMentions
    Hand, MaxTries, MaxMishaps              \* Media

VARIABLES
    part,
    clock, tweet, replied, restored_at, hidden_at, edits, note, events, tx,
    asset, doc, upload, removal, mediaJob, owner, tries, hand, scan, excused, mishaps

mentionVars == <<clock, tweet, replied, restored_at, hidden_at, edits, note, events, tx>>
mediaVars == <<asset, doc, upload, removal, mediaJob, owner, tries, hand, scan, excused, mishaps>>
lifeVars == <<part, mentionVars, mediaVars>>

T == INSTANCE TweetMentions WITH
        Worker <- Handlers, MaxAsk <- MaxEdits, MaxTime <- MaxClock,
        now <- clock, ask <- edits, pending <- events, job <- tx
M == INSTANCE Media WITH job <- mediaJob

ASSUME ConstantsFit == T!MentionsAssumption /\ M!MediaAssumption

LifeInit == part \in {"mentions", "media"} /\ T!Init /\ M!Init

LifeNext ==
    \/ part = "mentions" /\ T!Next /\ UNCHANGED <<part, mediaVars>>
    \/ part = "media" /\ M!Next /\ UNCHANGED <<part, mentionVars>>

LifeSpec == LifeInit /\ [][LifeNext]_lifeVars

LifeSymmetry == Permutations(Handlers) \cup Permutations(Hand)

-----------------------------------------------------------------------------
\* Nobody comes to be notified of a mention that is gone or not public.
OnlyCurrentMentions == T!OnlyCurrentMentions

\* When its events are processed, a tweet that was always public notifies
\* whom it mentions, and a hidden one nobody from before.
MentionsConverge == T!MentionsConverge

\* A file is ready or failed for good, and with its asset while it is ready.
OutcomeFinal == M!OutcomeFinal /\ []M!ReadyStored

=============================================================================
