------------------------------- MODULE Reaper -------------------------------
(***************************************************************************)
(* SessionManager and the thread of ReaperEngine that removes its old      *)
(* sessions: a loop that sleeps for a minute in a timed wait and sweeps.   *)
(*                                                                         *)
(* Time passes in ticks, PerMinute to the minute.  Of a session its age is *)
(* kept, the ticks since its last_active; of the wait, the ticks left.     *)
(* Nothing calls get_session, which alone would renew last_active.         *)
(***************************************************************************)
EXTENDS Integers, FiniteSets, Functions

CONSTANTS
  SessionIds,
  TIMEOUT_MINUTES,
  PerMinute        (* the ticks of a minute                                *)

ASSUME ReaperAssumption == TIMEOUT_MINUTES \in Nat /\ PerMinute \in Nat \ {0}

VARIABLES
  mp_sessions,     (* the age of every session there is                    *)
  reaper,          (* where the thread is                                  *)
  left,            (* ticks until its wait times out                       *)
  stop,            (* has request_stop been called?                        *)
  cv               (* does the condition variable still exist?             *)

reaperVars == <<mp_sessions, reaper, left, stop, cv>>

\* The age at which the next sweep at the latest finds a session too old.
MaxAge == (TIMEOUT_MINUTES + 2) * PerMinute

\* "test": at the while condition; "resting": the wait's predicate was false,
\* the thread is about to block; "asleep": blocked; "sweep": about to sweep.
Places == {"none", "test", "resting", "asleep", "sweep", "done"}

NoSessions == [id \in {} |-> 0]

ReaperTypeOK ==
  /\ DOMAIN mp_sessions \subseteq SessionIds
  /\ Range(mp_sessions) \subseteq Nat
  /\ reaper \in Places
  /\ left \in 0..PerMinute
  /\ stop \in BOOLEAN
  /\ cv \in BOOLEAN

ReaperInit ==
  /\ mp_sessions = NoSessions
  /\ reaper = "none"
  /\ left = 0
  /\ stop = FALSE
  /\ cv = FALSE

------------------------------------------------------------------------------
(* SessionManager *)

\* create_session: one that is there already stays as it is, last_active too.
CreateSession(id) ==
  mp_sessions' = [s \in DOMAIN mp_sessions \cup {id} |->
                    IF s \in DOMAIN mp_sessions THEN mp_sessions[s] ELSE 0]

\* duration_cast rounds down to whole minutes.
Minutes(age) == age \div PerMinute

Stale == {s \in DOMAIN mp_sessions : Minutes(mp_sessions[s]) > TIMEOUT_MINUTES}

------------------------------------------------------------------------------
(* The thread: sweep_loop *)

\* The while condition, and the predicate of wait_for before it blocks.
Rest ==
  /\ reaper = "test"
  /\ IF stop THEN reaper' = "done" /\ UNCHANGED left
             ELSE reaper' = "resting" /\ left' = PerMinute
  /\ UNCHANGED <<mp_sessions, stop, cv>>

\* A notification before this is not seen.
FallAsleep ==
  /\ reaper = "resting"
  /\ reaper' = "asleep"
  /\ UNCHANGED <<mp_sessions, left, stop, cv>>

\* Mutant: the wait has no timeout.
TimedOutNever == FALSE

TimedOut == reaper = "asleep" /\ left = 0

WakeUp ==
  /\ TimedOut
  /\ reaper' = IF stop THEN "done" ELSE "sweep"
  /\ UNCHANGED <<mp_sessions, left, stop, cv>>

\* A wait may wake for no reason; it then looks at the predicate again.
WakeSpuriously ==
  /\ reaper = "asleep"
  /\ reaper' = IF stop THEN "done" ELSE "resting"
  /\ UNCHANGED <<mp_sessions, left, stop, cv>>

\* Mutant: the loop is left after the first sweep.
SweepOnce ==
  /\ reaper = "sweep"
  /\ mp_sessions' = Restrict(mp_sessions, DOMAIN mp_sessions \ Stale)
  /\ reaper' = "done"
  /\ UNCHANGED <<left, stop, cv>>

\* cull_stale_sessions.
Sweep ==
  /\ reaper = "sweep"
  /\ mp_sessions' = Restrict(mp_sessions, DOMAIN mp_sessions \ Stale)
  /\ reaper' = "test"
  /\ UNCHANGED <<left, stop, cv>>

ReaperSteps == Rest \/ FallAsleep \/ WakeUp \/ Sweep

------------------------------------------------------------------------------
(* ~ReaperEngine, and the members' destructors after its body *)

RequestStop == stop' = TRUE /\ UNCHANGED <<mp_sessions, reaper, left, cv>>

\* notify_all is called without the mutex, so it can come before the block.
NotifyAll ==
  /\ reaper' = IF reaper = "asleep" THEN "done" ELSE reaper
  /\ UNCHANGED <<mp_sessions, left, stop, cv>>

\* cv is declared after reaper_thread, so it goes before the thread is joined.
DestroyCv == cv' = FALSE /\ UNCHANGED <<mp_sessions, reaper, left, stop>>

\* Waiting on a destroyed condition variable is undefined: where it is not a
\* wait like any other (FallAsleep), it throws and the process is aborted.
AbortsAsleep == reaper = "resting" /\ ~cv

Joined == reaper = "done"

------------------------------------------------------------------------------
(* Time *)

Older(age) == IF age < MaxAge + 1 THEN age + 1 ELSE age

\* The thread does at once what it can do; time passes while it sleeps.
Tick ==
  /\ reaper \in {"none", "asleep", "done"}
  /\ ~TimedOut
  /\ mp_sessions' = [s \in DOMAIN mp_sessions |-> Older(mp_sessions[s])]
  /\ left' = IF reaper = "asleep" /\ left > 0 THEN left - 1 ELSE left
  /\ UNCHANGED <<reaper, stop, cv>>
=============================================================================
