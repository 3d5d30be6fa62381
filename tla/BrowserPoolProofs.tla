-------------------------- MODULE BrowserPoolProofs --------------------------
(***************************************************************************)
(* Theorems about BrowserPool, for any number of crashes, soft time limits *)
(* and failed launches.                                                    *)
(***************************************************************************)
EXTENDS BrowserPool, TLAPS

\* Where a task has a context of its own open.
Holding == {"route", "page", "render", "closePage", "closeContext"}

\* What a variable ranges over, its bounds aside.
PoolKinds ==
  /\ browser \in {"none", "up", "down"}
  /\ chromium \in Nat /\ drivers \in Nat /\ contexts \in Nat
  /\ at \in Call \union {"idle"}
  /\ raised \in Raised
  /\ second \in BOOLEAN /\ struck \in BOOLEAN
  /\ spent \in [Faults -> Nat]

\* No fault happens more often than it may.
SpentInv == \A fault \in Faults : spent[fault] <= Budget[fault]

Losses == spent["crash"] + spent["misstart"] + spent["limit"]

\* Chromium: a connected browser is a live process, and none is launched while
\* one is connected.
ChromiumInv ==
  /\ chromium <= spent["limit"] + IF browser = "up" THEN 1 ELSE 0
  /\ browser = "up" => chromium >= 1
  /\ at = "chromium" => browser # "up"

\* A driver is started on account of a loss, and the one in use is the first.
DriverInv ==
  drivers <= Losses + IF browser = "up" \/ at = "chromium" THEN 1 ELSE 0

\* Contexts: that of the task, and those that soft time limits left.
ContextInv ==
  /\ contexts <= spent["limit"] + IF at \in Holding THEN 1 ELSE 0
  /\ browser # "up" => contexts = 0
  /\ browser = "up" /\ at \in Holding => contexts >= 1

\* A task past the launch sees no disconnected browser unless it was hit, and
\* up to the rendering no exception is on its way.
FaultInv ==
  /\ FaultsStayLocal
  /\ at \in {"launch", "chromium", "context"} => raised = "nothing"
  /\ at \in Holding \union {"context"} => struck \/ browser = "up"

PoolInv ==
  PoolKinds /\ ChromiumInv /\ DriverInv /\ ContextInv /\ FaultInv

LEMMA PoolInitial == PoolInit => PoolInv
<1> SUFFICES ASSUME PoolInit PROVE PoolInv
  OBVIOUS
<1> USE DEF PoolInit
<1>1. spent["crash"] = 0 /\ spent["misstart"] = 0 /\ spent["limit"] = 0
  BY DEF Faults
<1>2. PoolKinds
  BY DEF PoolKinds, Raised, Call
<1>3. ChromiumInv /\ DriverInv
  BY <1>1 DEF ChromiumInv, DriverInv, Losses
<1>4. ContextInv /\ FaultInv
  BY <1>1 DEF ContextInv, FaultInv, FaultsStayLocal, Holding
<1>. QED
  BY <1>2, <1>3, <1>4 DEF PoolInv

\* A fault is counted once, under its own name.
LEMMA StrikeCounts ==
  ASSUME PoolKinds, NEW fault \in Faults, Strike(fault)
  PROVE  /\ spent' \in [Faults -> Nat] /\ struck' \in BOOLEAN
         /\ spent[fault] \in Nat /\ spent'[fault] = spent[fault] + 1
         /\ \A other \in Faults \ {fault} : spent'[other] = spent[other]
         /\ struck' = (struck \/ at # "idle")
BY DEF PoolKinds, Strike, Faults

LEMMA PoolStep == PoolInv /\ [PoolNext]_poolVars => PoolInv'
<1> SUFFICES ASSUME PoolInv, [PoolNext]_poolVars PROVE PoolInv'
  OBVIOUS
<1>1. PoolKinds
  BY DEF PoolInv
<1>2. /\ "crash" \in Faults /\ "limit" \in Faults /\ "misstart" \in Faults
      /\ spent["crash"] \in Nat /\ spent["limit"] \in Nat
      /\ spent["misstart"] \in Nat
  BY <1>1 DEF PoolKinds, Faults
<1> USE <1>1, <1>2
    DEF PoolInv, PoolKinds, ChromiumInv, DriverInv, ContextInv, FaultInv,
        FaultsStayLocal, Raised, Call, Holding, Losses, resources
<1>3. CASE Take
  BY <1>3 DEF Take
<1>4. CASE ReuseBrowser
  BY <1>4 DEF ReuseBrowser, MustLaunch, Proceed
<1>5. CASE StartDriver
  BY <1>5 DEF StartDriver, MustLaunch, Proceed
<1>6. CASE DriverRefused
  BY <1>6 DEF DriverRefused, MustLaunch, Raise, Unwind
<1>7. CASE LaunchChromium
  BY <1>7 DEF LaunchChromium, Proceed
<1>8. CASE LaunchFails
  BY <1>8, StrikeCounts DEF LaunchFails, Raise, Unwind, Faults
<1>9. CASE OpenContext
  BY <1>9 DEF OpenContext, Proceed
<1>10. CASE Prepare
  BY <1>10 DEF Prepare, Proceed
<1>11. CASE Render \/ ClosePage
  BY <1>11 DEF Render, ClosePage, Proceed
<1>12. CASE RenderFails
  BY <1>12 DEF RenderFails, Raise, Unwind
<1>13. CASE CloseContext
  BY <1>13 DEF CloseContext, Closed, Proceed
<1>14. CASE CallFails
  BY <1>14 DEF CallFails, Raise, Unwind
<1>15. CASE Finish
  BY <1>15 DEF Finish
<1>16. CASE Crash
  BY <1>16, StrikeCounts DEF Crash, Faults
<1>17. CASE SoftTimeLimit
  BY <1>17, StrikeCounts
  DEF SoftTimeLimit, Raise, Unwind, MustLaunch, Closed, Faults
<1>18. CASE UNCHANGED poolVars
  BY <1>18 DEF poolVars
<1>. QED
  BY <1>3, <1>4, <1>5, <1>6, <1>7, <1>8, <1>9, <1>10, <1>11, <1>12, <1>13,
     <1>14, <1>15, <1>16, <1>17, <1>18 DEF PoolNext

\* Only a strike spends, and it finds something left of the budget.
LEMMA SpentWithin == /\ PoolInit => SpentInv
                     /\ PoolInv /\ SpentInv /\ [PoolNext]_poolVars => SpentInv'
<1> USE PoolAssumption DEF SpentInv, Faults, Budget
<1>1. PoolInit => SpentInv
  BY DEF PoolInit
<1>2. ASSUME PoolInv, SpentInv, [PoolNext]_poolVars PROVE SpentInv'
  <2>1. spent \in [Faults -> Nat]
    BY <1>2 DEF PoolInv, PoolKinds
  <2>2. ASSUME NEW fault \in Faults, Strike(fault) PROVE SpentInv'
    BY <1>2, <2>1, <2>2 DEF Strike
  <2>3. ASSUME UNCHANGED spent PROVE SpentInv'
    BY <1>2, <2>3
  <2>4. \/ UNCHANGED spent
        \/ \E fault \in Faults : Strike(fault)
    BY <1>2
    DEF PoolNext, Take, ReuseBrowser, StartDriver, DriverRefused,
        LaunchChromium, LaunchFails, OpenContext, Prepare, Render,
        RenderFails, ClosePage, CloseContext, CallFails, Finish, Crash,
        SoftTimeLimit, poolVars
  <2>. QED
    BY <2>2, <2>3, <2>4
<1>. QED
  BY <1>1, <1>2

LEMMA PoolInductive == PoolSpec => [](PoolInv /\ SpentInv)
BY PoolInitial, PoolStep, SpentWithin, PTL DEF PoolSpec

-----------------------------------------------------------------------------

\* What a process holds is bounded by the faults it met, however many pages it
\* renders and however they end: its drivers, its Chromium processes and its
\* open contexts (pool.py:31-84).
THEOREM PoolTypeCorrect == PoolSpec => []PoolTypeOK
<1>1. ASSUME PoolInv, SpentInv PROVE PoolTypeOK
  <2>1. /\ spent["crash"] \in Nat /\ spent["crash"] <= Crashes
        /\ spent["limit"] \in Nat /\ spent["limit"] <= Limits
        /\ spent["misstart"] \in Nat /\ spent["misstart"] <= Misstarts
    BY <1>1 DEF PoolInv, PoolKinds, SpentInv, Faults, Budget
  <2>2. /\ chromium \in Nat /\ chromium <= 1 + Limits
        /\ contexts \in Nat /\ contexts <= 1 + Limits
        /\ drivers \in Nat /\ drivers <= 1 + Crashes + Misstarts + Limits
    BY <1>1, <2>1, PoolAssumption
    DEF PoolInv, PoolKinds, ChromiumInv, ContextInv, DriverInv, Losses
  <2>. QED
    BY <1>1, <2>2, PoolAssumption DEF PoolInv, PoolKinds, SpentInv, PoolTypeOK
<1>. QED
  BY <1>1, PoolInductive, PTL

\* What the process holds is accounted for: one driver for the first launch and
\* for each loss, and one Chromium besides those that a soft time limit lost
\* (pool.py:31-53).
THEOREM ResourcesExplained == PoolSpec => []LaunchesExplained
<1>1. ASSUME PoolInv PROVE LaunchesExplained
  <2>1. drivers \in Nat /\ Losses \in Nat
    BY <1>1 DEF PoolInv, PoolKinds, Faults, Losses
  <2>. QED
    BY <1>1, <2>1 DEF PoolInv, PoolKinds, Faults, DriverInv, ChromiumInv,
                      LaunchesExplained, Losses
<1>. QED
  BY <1>1, PoolInductive, PTL

\* Between two tasks no context is open but those that a soft time limit lost:
\* every other way out of a page, a crash included, closes its own
\* (pool.py:56-84).
THEOREM ContextsAlwaysReturned == PoolSpec => []ContextsReturned
<1>1. ASSUME PoolInv PROVE ContextsReturned
  BY <1>1 DEF PoolInv, PoolKinds, Faults, ContextInv, ContextsReturned, Holding
<1>. QED
  BY <1>1, PoolInductive, PTL

\* An error that nobody handles comes to a task that was hit itself, or from a
\* library that refuses a second driver (fetch.py:180-199).
THEOREM FaultsAlwaysLocal == PoolSpec => []FaultsStayLocal
<1>1. PoolInv => FaultsStayLocal
  BY DEF PoolInv, FaultInv
<1>. QED
  BY <1>1, PoolInductive, PTL

=============================================================================
