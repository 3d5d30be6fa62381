----------------------------- MODULE BrowserPool -----------------------------
(***************************************************************************)
(* The browser of one worker process (workers/browser/pool.py) and the     *)
(* page tasks that use it one after another (BrowserFetcher._fetch): one   *)
(* driver and one Chromium that live as long as the process, a context and *)
(* a page for each task.                                                   *)
(*                                                                         *)
(* Each call to Playwright is a step. Chromium may crash between any two   *)
(* calls, and the soft time limit raises its exception inside any of them. *)
(* What Playwright does is external and taken from how pool.py uses it.    *)
(***************************************************************************)
EXTENDS Integers

CONSTANTS
  Crashes,   \* bound: how often Chromium crashes
  Limits,    \* bound: how many tasks run into the soft time limit
  Misstarts  \* bound: how often chromium.launch fails

ASSUME PoolAssumption ==
  Crashes \in Nat /\ Limits \in Nat /\ Misstarts \in Nat

VARIABLES
  browser,   \* _browser: none, or connected or not
  chromium,  \* Chromium processes alive
  drivers,   \* Playwright drivers started; only shutdown_pool stops one, which
             \* runs in the parent of the worker processes and finds none there
  contexts,  \* contexts open in the connected browser
  at,        \* the call the task is in
  raised,    \* the exception on its way out of _fetch
  second,    \* whether the library lets a process start a second driver
  struck,    \* a fault has hit this very task
  spent      \* faults that have happened

poolVars == <<browser, chromium, drivers, contexts, at, raised, second, struck,
              spent>>

\* The calls in their order; at "end" the task has left the with statement.
Call == {"launch", "chromium", "context", "route", "page", "render",
         "closePage", "closeContext", "end"}

\* What fetch_page makes of an exception: retried, recorded as failed,
\* recorded and raised again, or unhandled.
Raised == {"nothing", "transient", "permanent", "limit", "unhandled"}

Faults == {"crash", "limit", "misstart"}
Budget == [crash |-> Crashes, limit |-> Limits, misstart |-> Misstarts]

\* What the process holds is bounded, however many pages it renders.
PoolTypeOK ==
  /\ browser \in {"none", "up", "down"}
  /\ chromium \in 0 .. 1 + Limits /\ contexts \in 0 .. 1 + Limits
  /\ drivers \in 0 .. 1 + Crashes + Misstarts + Limits
  /\ at \in Call \union {"idle"}
  /\ raised \in Raised
  /\ second \in BOOLEAN /\ struck \in BOOLEAN
  /\ spent \in [Faults -> Nat]
  /\ \A fault \in Faults : spent[fault] <= Budget[fault]

PoolInit ==
  /\ browser = "none" /\ chromium = 0 /\ drivers = 0 /\ contexts = 0
  /\ at = "idle" /\ raised = "nothing"
  /\ second \in BOOLEAN /\ struck = FALSE
  /\ spent = [fault \in Faults |-> 0]

resources == <<browser, chromium, drivers, contexts>>

Strike(fault) ==
  /\ spent[fault] < Budget[fault]
  /\ spent' = [spent EXCEPT ![fault] = @ + 1]
  /\ struck' = (struck \/ at # "idle")

Proceed(from, to) == at = from /\ at' = to /\ UNCHANGED <<raised, second>>

-----------------------------------------------------------------------------
(* Exceptions *)

\* Variant, wrong: nothing is closed on the way out.
UnwindStraight(call) == "end"

\* Where an exception takes the task: to the finally blocks of job_page and
\* job_context. The route call is still outside the try of job_context.
Unwind(call) ==
  CASE call = "render"                -> "closePage"
    [] call \in {"page", "closePage"} -> "closeContext"
    [] OTHER                          -> "end"

\* An exception replaces one that is on its way already.
Raise(cause) ==
  /\ at' = Unwind(at)
  /\ raised' = cause
  /\ UNCHANGED second

\* The browser is gone: an error outside the try of _fetch, which nobody
\* handles.
CallFails ==
  /\ at \in {"context", "route", "page", "closePage", "closeContext"}
  /\ browser = "down"
  /\ Raise("unhandled")
  /\ UNCHANGED <<resources, struck, spent>>

-----------------------------------------------------------------------------
(* get_browser *)

Take ==
  /\ at = "idle" /\ at' = "launch"
  /\ raised' = "nothing" /\ struck' = FALSE
  /\ UNCHANGED <<resources, second, spent>>

\* Variants, wrong: the connection is not looked at, or the browser is not.
MustLaunchOnce == browser = "none"
MustLaunchAlways == TRUE

\* _browser is None or is not connected.
MustLaunch == browser # "up"

ReuseBrowser ==
  /\ ~ MustLaunch
  /\ Proceed("launch", "context")
  /\ UNCHANGED <<resources, struck, spent>>

\* sync_playwright().start(), also when an earlier driver was never stopped,
StartDriver ==
  /\ MustLaunch
  /\ drivers = 0 \/ second
  /\ Proceed("launch", "chromium")
  /\ drivers' = drivers + 1
  /\ UNCHANGED <<browser, chromium, contexts, struck, spent>>

\* which the library may refuse.
DriverRefused ==
  /\ MustLaunch
  /\ drivers > 0 /\ ~ second
  /\ at = "launch"
  /\ Raise("unhandled")
  /\ UNCHANGED <<resources, struck, spent>>

LaunchChromium ==
  /\ Proceed("chromium", "context")
  /\ browser' = "up" /\ chromium' = chromium + 1 /\ contexts' = 0
  /\ UNCHANGED <<drivers, struck, spent>>

\* The driver stays, and the next task starts another.
LaunchFails ==
  /\ at = "chromium"
  /\ Strike("misstart")
  /\ Raise("unhandled")
  /\ UNCHANGED resources

-----------------------------------------------------------------------------
(* job_context, job_page and the body of _fetch *)

OpenContext ==
  /\ browser = "up"
  /\ Proceed("context", "route")
  /\ contexts' = contexts + 1
  /\ UNCHANGED <<browser, chromium, drivers, struck, spent>>

Prepare ==
  /\ browser = "up"
  /\ Proceed("route", "page") \/ Proceed("page", "render")
  /\ UNCHANGED <<resources, struck, spent>>

Render ==
  /\ browser = "up"
  /\ Proceed("render", "closePage")
  /\ UNCHANGED <<resources, struck, spent>>

\* A timeout or any other error of Playwright, whether the page or the browser
\* is at fault.
RenderFails ==
  /\ at = "render"
  /\ Raise("transient")
  /\ UNCHANGED <<resources, struck, spent>>

\* Closing what is gone already may pass in silence.
ClosePage ==
  /\ Proceed("closePage", "closeContext")
  /\ UNCHANGED <<resources, struck, spent>>

Closed == IF browser = "up" THEN contexts - 1 ELSE contexts

CloseContext ==
  /\ Proceed("closeContext", "end")
  /\ contexts' = Closed
  /\ UNCHANGED <<browser, chromium, drivers, struck, spent>>

\* The status is looked at once all is closed: the page has rows, or its
\* status is one to retry or to give up on.
Finish ==
  /\ at = "end" /\ at' = "idle"
  /\ IF raised = "nothing"
       THEN raised' \in {"nothing", "transient", "permanent"}
       ELSE UNCHANGED raised
  /\ UNCHANGED <<resources, second, struck, spent>>

-----------------------------------------------------------------------------
(* Faults *)

\* The contexts go with the browser.
Crash ==
  /\ browser = "up"
  /\ Strike("crash")
  /\ browser' = "down" /\ chromium' = chromium - 1 /\ contexts' = 0
  /\ UNCHANGED <<drivers, at, raised, second>>

\* The soft time limit, before or after the call had its effect, which in
\* neither case reaches the variable that would have been assigned.
SoftTimeLimit ==
  /\ at # "idle" /\ raised # "limit"
  /\ Strike("limit")
  /\ Raise("limit")
  /\ UNCHANGED browser
  /\ \/ UNCHANGED <<chromium, drivers, contexts>>
     \/ /\ at = "launch" /\ MustLaunch /\ (drivers = 0 \/ second)
        /\ drivers' = drivers + 1 /\ UNCHANGED <<chromium, contexts>>
     \/ /\ at = "chromium"
        /\ chromium' = chromium + 1 /\ UNCHANGED <<drivers, contexts>>
     \/ /\ at = "context" /\ browser = "up"
        /\ contexts' = contexts + 1 /\ UNCHANGED <<chromium, drivers>>
     \/ /\ at = "closeContext"
        /\ contexts' = Closed /\ UNCHANGED <<chromium, drivers>>

-----------------------------------------------------------------------------

PoolNext ==
  \/ Take \/ ReuseBrowser \/ StartDriver \/ DriverRefused
  \/ LaunchChromium \/ LaunchFails \/ OpenContext \/ Prepare
  \/ Render \/ RenderFails \/ ClosePage \/ CloseContext \/ CallFails
  \/ Finish \/ Crash \/ SoftTimeLimit

PoolSpec == PoolInit /\ [][PoolNext]_poolVars

-----------------------------------------------------------------------------
(* Properties *)

\* A page costs no launch unless the browser is gone: each driver beyond the
\* first is owed to a crash, to a launch that failed or to one cut short, and a
\* process has the one Chromium it uses and those it lost sight of in a launch
\* cut short ("pays that once instead of once per page", pool.py:3-4).
LaunchesExplained ==
  /\ drivers <= 1 + spent["crash"] + spent["misstart"] + spent["limit"]
  /\ chromium <= spent["limit"] + IF browser = "up" THEN 1 ELSE 0

\* Between two tasks no context is open, however the pages ended, except for
\* one for each soft time limit that came before the try or into the closing
\* ("a leaked context is a leaked set of pages", pool.py:5-8).
ContextsReturned == at = "idle" => contexts <= spent["limit"]

\* A fault spoils the task it hits and no other: an error that nobody handles,
\* which keeps the chord of its job from firing, comes to a task that was hit
\* itself. The exception is a library that refuses a second driver: then a
\* process that lost its browser never renders again (_launch, pool.py:33-36).
FaultsStayLocal ==
  raised = "unhandled" =>
    struck \/ (~ second /\ drivers > 0 /\ browser # "up")

=============================================================================
