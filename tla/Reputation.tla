----------------------------- MODULE Reputation -----------------------------
(***************************************************************************)
(* The reputation registry (packages/reputation-registry): the activity    *)
(* scores that record keeps, with their history in pages, and beside them  *)
(* the scores of scoring.rs, which circles also keep in their own storage. *)
(***************************************************************************)
EXTENDS Integers, Sequences, FiniteSets, SequencesExt

CONSTANTS
    Member,            \* users with a reputation
    Club,              \* circles that payments are reported for
    Registrar,         \* accounts that may call init
    PageSize,          \* ACTIVITY_PAGE_SIZE
    Impacts,           \* score impacts that callers pass
    Volumes,           \* paid amounts, in hundreds of units
    PaidRounds,        \* rounds that payments are reported for
    Inactivity         \* days of inactivity that callers pass

ASSUME ReputationAssumption ==
    /\ PageSize \in Nat \ {0}
    /\ Volumes \subseteq Int /\ Impacts \cup PaidRounds \cup Inactivity \subseteq Nat

Activity == [JOIN |-> 0, CONTRIBUTE |-> 1, COMPLETE |-> 2, DEFAULT |-> 3, PAYOUT_RECEIVED |-> 4]

VARIABLES
    registrar,         \* Admin
    score,             \* Score(user): the record a user without one starts from is all zeros
    pages,             \* UserActivityPage(user, p), in the order of p
    activity_count,    \* UserActivityCount(user)
    moi,               \* MemberScore(user)
    streak, last_round,     \* Streak and LastRound, by member and circle
    completions, defaults,
    registry_paused,
    history,           \* the activities recorded for each user, in order
    paid               \* the rounds reported as paid on time

activityVars == <<score, pages, activity_count, history>>
scoringVars == <<moi, streak, last_round, completions, defaults, paid>>
reputationVars == <<activityVars, scoringVars, registrar, registry_paused>>

Unscored == [score |-> 0, tier |-> 0, total_circles |-> 0, completed_circles |-> 0,
             defaulted_circles |-> 0, streak_count |-> 0]

ReputationInit ==
    /\ registrar \in Registrar
    /\ score = [m \in Member |-> Unscored]
    /\ pages = [m \in Member |-> <<>>]
    /\ activity_count = [m \in Member |-> 0]
    /\ moi = [m \in Member |-> 0]
    /\ streak = [k \in Member \X Club |-> 0]
    /\ last_round = [k \in Member \X Club |-> 0]
    /\ completions = [m \in Member |-> 0] /\ defaults = [m \in Member |-> 0]
    /\ registry_paused = FALSE
    /\ history = [m \in Member |-> <<>>]
    /\ paid = [k \in Member \X Club |-> {}]

-----------------------------------------------------------------------------
(* record_activity.                                                        *)

Capped(points) == IF points > 1000 THEN 1000 ELSE points
Tier(points) == Cardinality({bound \in {200, 400, 600, 800} : points >= bound})

Counted(s, t) ==
    CASE t = Activity.JOIN -> [s EXCEPT !.total_circles = @ + 1]
      [] t = Activity.CONTRIBUTE -> [s EXCEPT !.streak_count = @ + 1]
      [] t = Activity.COMPLETE -> [s EXCEPT !.completed_circles = @ + 1]
      [] t = Activity.DEFAULT -> [s EXCEPT !.defaulted_circles = @ + 1, !.streak_count = 0]
      [] OTHER -> s

\* Even a default adds its impact.
Scored(s, t, impact) ==
    LET points == Capped(s.score + impact)
    IN  [Counted(s, t) EXCEPT !.score = points, !.tier = Tier(points)]

MutPageOf(index) == ((index + 1) \div PageSize) + 1   \* a page ends one entry early
PageOf(index) == (index \div PageSize) + 1

\* The page that the next activity goes to is created when it is missing.
Paged(book, index, entry) ==
    LET p == PageOf(index)
    IN  IF p \in DOMAIN book THEN [book EXCEPT ![p] = Append(@, entry)]
        ELSE Append(book, <<entry>>)

record(m, t, impact) ==
    /\ ~registry_paused
    /\ t <= Activity.PAYOUT_RECEIVED /\ impact <= 1000
    /\ LET entry == [type |-> t, impact |-> impact]
       IN  /\ score' = [score EXCEPT ![m] = Scored(@, t, impact)]
           /\ pages' = [pages EXCEPT ![m] = Paged(@, activity_count[m], entry)]
           /\ history' = [history EXCEPT ![m] = Append(@, entry)]
    /\ activity_count' = [activity_count EXCEPT ![m] = @ + 1]
    /\ UNCHANGED <<scoringVars, registrar, registry_paused>>

\* The activity of an index, in a sequence that is empty when a page lacks it.
ActivityAt(m, index) ==
    LET p == PageOf(index)  offset == (index % PageSize) + 1
    IN  IF p \in DOMAIN pages[m] /\ offset \in DOMAIN pages[m][p] THEN <<pages[m][p][offset]>>
        ELSE <<>>

get_history(m, page, page_size) ==
    LET start == page * page_size
        last == IF start + page_size < activity_count[m] THEN start + page_size
                ELSE activity_count[m]
    IN  FlattenSeq([i \in 1..(last - start) |-> ActivityAt(m, start + i - 1)])

-----------------------------------------------------------------------------
(* scoring.rs.  The log it keeps is never read and is left out.            *)

\* The quotient is cast to an unsigned number, which makes a negative one large.
VolumeBonus(volume) == IF volume \in 0..20 THEN volume ELSE 20
StreakBonus(n) == IF n <= 10 THEN n * 5 ELSE 50

\* A last round of zero is round zero or none at all.
MutNextStreak(key, round) == streak[key] + 1   \* a gap does not end a streak
NextStreak(key, round) ==
    IF last_round[key] = 0 \/ round = last_round[key] + 1 THEN streak[key] + 1 ELSE 1

record_on_time_payment(m, club, volume, round) ==
    LET key == <<m, club>>
        next == NextStreak(key, round)
    IN  /\ ~registry_paused
        /\ streak' = [streak EXCEPT ![key] = next]
        /\ last_round' = [last_round EXCEPT ![key] = round]
        /\ moi' = [moi EXCEPT ![m] = Capped(@ + 10 + StreakBonus(next) + VolumeBonus(volume))]
        /\ paid' = [paid EXCEPT ![key] = @ \cup {round}]
        /\ UNCHANGED <<activityVars, completions, defaults, registrar, registry_paused>>

record_circle_completion(m) ==
    /\ ~registry_paused
    /\ completions' = [completions EXCEPT ![m] = @ + 1]
    /\ moi' = [moi EXCEPT ![m] = Capped(@ + 100)]
    /\ UNCHANGED <<activityVars, streak, last_round, paid, defaults, registrar, registry_paused>>

Reduced(points, loss) == IF points > loss THEN points - loss ELSE 0

record_default(m) ==
    /\ ~registry_paused
    /\ defaults' = [defaults EXCEPT ![m] = @ + 1]
    /\ moi' = [moi EXCEPT ![m] = Reduced(@, 200)]
    /\ UNCHANGED <<activityVars, streak, last_round, paid, completions, registrar, registry_paused>>

\* Nothing remembers the inactivity that was already charged.
apply_inactivity_decay(m, days) ==
    /\ ~registry_paused
    /\ moi' = [moi EXCEPT ![m] = Reduced(@, 5 * (days \div 30))]
    /\ UNCHANGED <<activityVars, streak, last_round, paid, completions, defaults, registrar, registry_paused>>

-----------------------------------------------------------------------------

InitRegistry(a) == registrar' = a /\ UNCHANGED <<activityVars, scoringVars, registry_paused>>

PauseRegistry(a) ==
    /\ a = registrar
    /\ registry_paused' = TRUE
    /\ UNCHANGED <<activityVars, scoringVars, registrar>>

UnpauseRegistry(a) ==
    /\ a = registrar
    /\ registry_paused' = FALSE
    /\ UNCHANGED <<activityVars, scoringVars, registrar>>

ReputationNext ==
    \/ \E m \in Member, t \in 0..5, impact \in Impacts : record(m, t, impact)
    \/ \E m \in Member, club \in Club, volume \in Volumes, round \in PaidRounds :
          record_on_time_payment(m, club, volume, round)
    \/ \E m \in Member : record_circle_completion(m) \/ record_default(m)
    \/ \E m \in Member, days \in Inactivity : apply_inactivity_decay(m, days)
    \/ \E a \in Registrar : InitRegistry(a) \/ PauseRegistry(a) \/ UnpauseRegistry(a)

-----------------------------------------------------------------------------
(* Properties.                                                             *)

\* A reader that fetches the pages of any size one after the other reads every
\* activity once, in the order it was recorded, however requests and stored pages
\* overlap.
HistoryIsWhole ==
    \A m \in Member : \A size \in 1..(Len(history[m]) + 1) :
        FlattenSeq([p \in 1..(Len(history[m]) + 1) |-> get_history(m, p - 1, size)]) = history[m]

\* Circles report rounds in order, and each once for a member.
InOrder(m, club, round) == \A r \in paid[<<m, club>>] : r < round

\* When rounds are reported so, the streak that the bonus grows with stands for
\* rounds that were paid: no more than all of them, and each of the last ones but for
\* the round it began with, where a payment of round zero and no payment at all look
\* alike.
StreaksAreEarned ==
    \A key \in Member \X Club :
        /\ streak[key] <= Cardinality(paid[key])
        /\ (last_round[key] - streak[key] + 2)..last_round[key] \subseteq paid[key]
=============================================================================
