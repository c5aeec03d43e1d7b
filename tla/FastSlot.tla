------------------------------- MODULE FastSlot -------------------------------
(***************************************************************************)
(* Slot_FAST: the counter of tokens by which the consumer of a             *)
(* fast_lockfree_spsc_unbounded learns of the elements, with a semaphore   *)
(* to sleep on.  One producer signals, one consumer gets.  A consumer that *)
(* finds no token lowers the counter below zero and sleeps; the signal     *)
(* that finds it below zero posts the semaphore.                           *)
(*                                                                         *)
(* A step is one atomic operation on the counter or one call of the        *)
(* semaphore, whose own mutex and condition variable make its calls atomic.*)
(* The queue (FastSPSC) extends this module with its blocks.               *)
(***************************************************************************)
EXTENDS Integers

CONSTANTS
  SpinCount,  \* SPIN_COUNT: how often a get looks before it may sleep
  MaxTokens   \* bound: no signal starts when this many tokens are left

ASSUME SpinCountAssumption == SpinCount \in Nat \ {0}
ASSUME MaxTokensAssumption == MaxTokens \in Nat

VARIABLES
  counter,
  sema,       \* the count of the semaphore
  ppc,        \* where the producer is
  cpc,        \* where the consumer is; "got": its call has a token
  call,       \* the function the consumer executes
  spins,      \* turns of hot_path left
  tokens      \* history: signals whose token no get has returned with

shared == <<counter, sema, tokens>>
slot == <<counter, sema, tokens, ppc, cpc, call, spins>>

SlotInit ==
  /\ counter = 0 /\ sema = 0 /\ tokens = 0
  /\ ppc = "idle" /\ cpc = "idle"
  /\ call = "try_get" /\ spins = 0

-----------------------------------------------------------------------------
(* Faulty variants of operations below, each of which breaks a property.   *)

\* hot_path takes a token when it sees none.
SpinBlind ==
  /\ cpc = "spin"
  /\ cpc' = IF counter >= 0 THEN "take" ELSE "claim"
  /\ UNCHANGED <<shared, ppc, call, spins>>

\* A get that timed out gives up without restoring the counter.
RestoreForgotten ==
  /\ cpc = "restore"
  /\ cpc' = IF counter < 0 THEN "idle" ELSE "retract"
  /\ counter' = IF counter < 0 THEN counter ELSE counter + 1
  /\ UNCHANGED <<sema, tokens, ppc, call, spins>>

\* A get that timed out takes the late token from the counter only.
RetractTakes ==
  /\ cpc = "retract"
  /\ counter' = counter - 1
  /\ cpc' = IF counter > 0 THEN "got" ELSE "restore"
  /\ tokens' = IF counter > 0 THEN tokens - 1 ELSE tokens
  /\ UNCHANGED <<sema, ppc, call, spins>>

\* The last look at the semaphore is missing: only the counter decides.
RetractAgain ==
  /\ cpc = "retract"
  /\ counter' = counter - 1
  /\ cpc' = "restore"
  /\ UNCHANGED <<sema, tokens, ppc, call, spins>>

-----------------------------------------------------------------------------
(* The producer: signal                                                    *)

CallSignal ==
  /\ ppc = "idle"
  /\ tokens < MaxTokens
  /\ ppc' = "signal"
  /\ UNCHANGED <<shared, cpc, call, spins>>

AddToken ==
  /\ ppc = "signal"
  /\ counter' = counter + 1
  /\ tokens' = tokens + 1
  /\ ppc' = IF counter < 0 THEN "post" ELSE "idle"
  /\ UNCHANGED <<sema, cpc, call, spins>>

Post ==
  /\ ppc = "post"
  /\ sema' = sema + 1
  /\ ppc' = "idle"
  /\ UNCHANGED <<counter, tokens, cpc, call, spins>>

-----------------------------------------------------------------------------
(* The consumer: try_get, wait_and_get and timed_get                       *)

TryGet ==
  /\ cpc = "idle"
  /\ call' = "try_get"
  /\ cpc' = IF counter > 0 THEN "take" ELSE "idle"
  /\ UNCHANGED <<shared, ppc, spins>>

GetWithSleep(c) ==
  /\ cpc = "idle"
  /\ call' = c
  /\ spins' = SpinCount
  /\ cpc' = "spin"
  /\ UNCHANGED <<shared, ppc>>

\* One turn of hot_path.
Spin ==
  /\ cpc = "spin"
  /\ spins' = spins - 1
  /\ cpc' = IF counter > 0 THEN "take" ELSE IF spins = 1 THEN "claim" ELSE "spin"
  /\ UNCHANGED <<shared, ppc, call>>

\* fetch_sub after a look that showed a token.
TakeToken ==
  /\ cpc = "take"
  /\ counter' = counter - 1
  /\ tokens' = tokens - 1
  /\ cpc' = "got"
  /\ UNCHANGED <<sema, ppc, call, spins>>

\* fetch_sub after the looks that showed none.
Claim ==
  /\ cpc = "claim"
  /\ counter' = counter - 1
  /\ cpc' = IF call = "wait_and_get" THEN "sleep" ELSE "timed"
  /\ UNCHANGED <<sema, tokens, ppc, call, spins>>

Wake ==
  /\ cpc \in {"sleep", "timed", "try_sema"}
  /\ sema > 0
  /\ sema' = sema - 1
  /\ tokens' = tokens - 1
  /\ cpc' = "got"
  /\ UNCHANGED <<counter, ppc, call, spins>>

\* wait_for evaluates its predicate once more when the time is over, and the
\* loop that follows a timeout calls try_get: either finds no count.
NoWake ==
  /\ cpc \in {"timed", "try_sema"}
  /\ sema = 0
  /\ cpc' = "restore"
  /\ UNCHANGED <<shared, ppc, call, spins>>

Restore ==
  /\ cpc = "restore"
  /\ counter' = counter + 1
  /\ cpc' = IF counter < 0 THEN "idle" ELSE "retract"
  /\ UNCHANGED <<sema, tokens, ppc, call, spins>>

Retract ==
  /\ cpc = "retract"
  /\ counter' = counter - 1
  /\ cpc' = IF counter > 0 THEN "try_sema" ELSE "restore"
  /\ UNCHANGED <<sema, tokens, ppc, call, spins>>

\* The call returns true.
Finish ==
  /\ cpc = "got"
  /\ cpc' = "idle"
  /\ UNCHANGED <<shared, ppc, call, spins>>

-----------------------------------------------------------------------------
SignalStep == AddToken \/ Post

GetStep == Spin \/ TakeToken \/ Claim \/ Wake \/ NoWake \/ Restore \/ Retract

SlotNext ==
  \/ CallSignal \/ SignalStep
  \/ TryGet \/ \E c \in {"wait_and_get", "timed_get"} : GetWithSleep(c)
  \/ GetStep \/ Finish

SlotSpec == SlotInit /\ [][SlotNext]_slot

\* Either thread is scheduled until its call returns, and a timed get times
\* out.  No thread has to make another call.
SlotFairness == WF_slot(SignalStep) /\ WF_slot(GetStep \/ Finish)

FairSlotSpec == SlotSpec /\ SlotFairness

-----------------------------------------------------------------------------
SlotTypeOK ==
  /\ counter \in Int
  /\ sema \in Nat
  /\ tokens \in Nat
  /\ ppc \in {"idle", "signal", "post"}
  /\ cpc \in {"idle", "spin", "take", "claim", "sleep", "timed", "restore",
              "retract", "try_sema", "got"}
  /\ call \in {"try_get", "wait_and_get", "timed_get"}
  /\ spins \in Nat

\* The consumer has lowered the counter for a token it has not got yet.
Claimed == cpc \in {"sleep", "timed", "restore", "try_sema"}

\* No token is lost or made up: the counter is the number of tokens, less the
\* one a sleeping consumer has claimed, through every race of a signal with
\* a timeout.
CounterIsExact == counter = IF Claimed THEN tokens - 1 ELSE tokens

\* The signals that saw a sleeper and whose post it has not consumed.
Posted == IF ppc = "post" THEN sema + 1 ELSE sema

\* The semaphore is posted for a claim that is still open, and once: no post
\* is left over to wake a later get for which there is no element.
NoStalePost ==
  /\ Posted <= 1
  /\ Posted = 1 => (Claimed \/ cpc = "retract") /\ tokens > 0

\* The inductive invariant.  Besides the above: a look that showed a token
\* stays true until the token is taken, since only the consumer takes.
SlotIInv ==
  /\ SlotTypeOK
  /\ CounterIsExact
  /\ NoStalePost
  /\ cpc = "take" => tokens > 0
  /\ cpc = "spin" => spins > 0
  /\ cpc \in {"retract", "try_sema"} => tokens > 0

\* A signal that finds a sleeper gives it the token, even if the sleeper times
\* out before the semaphore is posted.
PostReachesSleeper == ppc = "post" ~> cpc = "got"

\* What defs.hpp promises of the slot: the consumer sleeps when the queue is
\* empty, and so not while there is a token.
SleeperGetsToken == cpc = "sleep" /\ tokens > 0 ~> cpc = "got"
=============================================================================
