-------------------------- MODULE ApprovalServer ---------------------------
(***************************************************************************)
(* The approval page (internal/approval): callers blocked in Request, HTTP *)
(* handlers resolving them, timers, and Close, over one mutex-guarded map  *)
(* of pending calls and one buffered channel per call.                     *)
(*                                                                         *)
(* A call stands for one Request, its tool, arguments and random id: ids   *)
(* are 128 random bits, taken to be distinct.  The order of the page and   *)
(* its rendering are left out; the human acts on any page shown so far,    *)
(* however stale, in any number of tabs.                                   *)
(***************************************************************************)
EXTENDS Integers, Sequences, FiniteSets

CONSTANTS
  Calls,   \* the Request calls made in a session
  NoCall,  \* a form that names no call yet
  Posts    \* bound: the POSTs to /decision ever made

ASSUME NoCallAssumption == NoCall \notin Calls

VARIABLES
  reqPc,     \* "idle", "select" (blocked), "cleanup", "returned", per call
  out,       \* the local variable out of Request, per call
  pendings,  \* the map: the calls registered and neither resolved nor removed
  ch,        \* each call's channel, of capacity ChanCap
  elapsed,   \* the calls whose timer has fired
  done,      \* Close was called
  shown,     \* the calls some rendered page has listed
  postPc,    \* "idle", "resolve", "send", "done", per POST
  post,      \* the decoded form of each POST: [call, action]
  decided,   \* history: the decision resolve took on each call, or "none"
  inTime     \* history: the calls decided before their timer and before Close

requestVars == <<reqPc, out>>
timeVars    == <<elapsed, done>>
handlerVars == <<shown, postPc, post>>
historyVars == <<decided, inTime>>
vars == <<requestVars, pendings, ch, timeVars, handlerVars, historyVars>>

ChanCap == 1
Actions == {"Approved", "Rejected"}
Blank == [call |-> NoCall, action |-> "none"]

Init ==
  /\ reqPc = [c \in Calls |-> "idle"] /\ out = [c \in Calls |-> "TimedOut"]
  /\ pendings = {} /\ ch = [c \in Calls |-> <<>>]
  /\ elapsed = {} /\ done = FALSE /\ shown = {}
  /\ postPc = [h \in Posts |-> "idle"] /\ post = [h \in Posts |-> Blank]
  /\ decided = [c \in Calls |-> "none"] /\ inTime = {}

-----------------------------------------------------------------------------
\* Request.
Register(c) ==
  /\ reqPc[c] = "idle"
  /\ pendings' = pendings \cup {c}
  /\ reqPc' = [reqPc EXCEPT ![c] = "select"]
  /\ UNCHANGED <<out, ch, timeVars, handlerVars, historyVars>>

TimerFires(c) ==
  /\ reqPc[c] = "select" /\ c \notin elapsed
  /\ elapsed' = elapsed \cup {c}
  /\ UNCHANGED <<requestVars, pendings, ch, done, handlerVars, historyVars>>

\* The select takes any of its ready cases.
Wake(c, o) ==
  /\ reqPc[c] = "select"
  /\ out' = [out EXCEPT ![c] = o]
  /\ reqPc' = [reqPc EXCEPT ![c] = "cleanup"]
  /\ UNCHANGED <<pendings, timeVars, handlerVars, historyVars>>

WakeDecided(c) ==
  /\ ch[c] # <<>> /\ ch' = [ch EXCEPT ![c] = Tail(@)]
  /\ Wake(c, Head(ch[c]))

\* Fault: the select has no timer.
WakeTimedOut_Never(c) == FALSE

WakeTimedOut(c) == c \in elapsed /\ UNCHANGED ch /\ Wake(c, "TimedOut")
WakeClosed(c)   == done /\ UNCHANGED ch /\ Wake(c, "TimedOut")

\* Fault: Request returns without removing its entry.
Unregister_Kept(c) == pendings' = pendings
Unregister(c) == pendings' = pendings \ {c}

Return(c) ==
  /\ reqPc[c] = "cleanup"
  /\ Unregister(c)
  /\ reqPc' = [reqPc EXCEPT ![c] = "returned"]
  /\ UNCHANGED <<out, ch, timeVars, handlerVars, historyVars>>

Request(c) ==
  Register(c) \/ WakeDecided(c) \/ WakeTimedOut(c) \/ WakeClosed(c) \/ Return(c)

-----------------------------------------------------------------------------
\* The HTTP handlers.

\* handleIndex: a snapshot of the map under the mutex.
ShowPage ==
  /\ ~done
  /\ shown' = shown \cup pendings
  /\ UNCHANGED <<requestVars, pendings, ch, timeVars, postPc, post, historyVars>>

\* handleDecision up to resolve: a POST without the page's token or with an
\* unknown action is answered with an error and touches nothing, so only those
\* with both are told apart; they name a call some page has shown.
Click(h, c, action) ==
  /\ ~done /\ postPc[h] = "idle"
  /\ post' = [post EXCEPT ![h] = [call |-> c, action |-> action]]
  /\ postPc' = [postPc EXCEPT ![h] = "resolve"]
  /\ UNCHANGED <<requestVars, pendings, ch, timeVars, shown, historyVars>>

RefusedPost(h) ==
  /\ ~done /\ postPc[h] = "idle"
  /\ postPc' = [postPc EXCEPT ![h] = "done"]
  /\ UNCHANGED <<requestVars, pendings, ch, timeVars, shown, post, historyVars>>

\* Fault: the lookup leaves the entry for a second click to find.
Claim_Left(c) == pendings' = pendings
Claim(c) == pendings' = pendings \ {c}

\* resolve under the mutex: the first click claims the entry, later ones and
\* those on a call no longer waiting do nothing.
ResolveLookup(h) ==
  LET c == post[h].call IN
  /\ postPc[h] = "resolve"
  /\ \/ /\ c \in pendings
        /\ Claim(c)
        /\ decided' = [decided EXCEPT ![c] = post[h].action]
        /\ inTime' = IF c \in elapsed \/ done THEN inTime ELSE inTime \cup {c}
        /\ postPc' = [postPc EXCEPT ![h] = "send"]
     \/ /\ c \notin pendings
        /\ postPc' = [postPc EXCEPT ![h] = "done"]
        /\ UNCHANGED <<pendings, historyVars>>
  /\ UNCHANGED <<requestVars, ch, timeVars, shown, post>>

\* Fault: the handler sends an approval, whatever was clicked.
Decision_Swapped(h) == "Approved"
Decision(h) == post[h].action

\* resolve after the unlock; a send on a full channel would block the handler.
ResolveSend(h) ==
  LET c == post[h].call IN
  /\ postPc[h] = "send" /\ Len(ch[c]) < ChanCap
  /\ ch' = [ch EXCEPT ![c] = Append(@, Decision(h))]
  /\ postPc' = [postPc EXCEPT ![h] = "done"]
  /\ UNCHANGED <<requestVars, pendings, timeVars, shown, post, historyVars>>

\* Close: done is closed once; the listener stops, running handlers finish.
Close ==
  /\ ~done
  /\ done' = TRUE
  /\ UNCHANGED <<requestVars, pendings, ch, elapsed, handlerVars, historyVars>>

Next ==
  \/ \E c \in Calls : Request(c) \/ TimerFires(c)
  \/ ShowPage
  \/ \E h \in Posts :
       \/ \E c \in shown, a \in Actions : Click(h, c, a)
       \/ RefusedPost(h) \/ ResolveLookup(h) \/ ResolveSend(h)
  \/ Close

Spec == Init /\ [][Next]_vars

\* A caller takes what is ready, and the handlers run; nobody needs to click or
\* close, and no timer need ever fire: a configured timeout may be very long.
FairSpec ==
  /\ Spec
  /\ \A c \in Calls : /\ WF_vars(Return(c))
                      /\ WF_vars(WakeDecided(c) \/ WakeTimedOut(c) \/ WakeClosed(c))
  /\ \A h \in Posts : WF_vars(ResolveLookup(h)) /\ WF_vars(ResolveSend(h))

TimersFire == \A c \in Calls : WF_vars(TimerFires(c))

-----------------------------------------------------------------------------
Outcomes == Actions \cup {"TimedOut"}

TypeOK ==
  /\ reqPc \in [Calls -> {"idle", "select", "cleanup", "returned"}]
  /\ out \in [Calls -> Outcomes]
  /\ pendings \subseteq Calls /\ elapsed \subseteq Calls /\ shown \subseteq Calls
  /\ ch \in [Calls -> Seq(Actions)] /\ done \in BOOLEAN
  /\ postPc \in [Posts -> {"idle", "resolve", "send", "done"}]
  /\ post \in [Posts -> [call : Calls, action : Actions] \cup {Blank}]
  /\ decided \in [Calls -> Actions \cup {"none"}] /\ inTime \subseteq Calls

\* A handler that delivers a decision never blocks on the channel and is the
\* only one delivering to that call, even if the caller has already given up,
\* two tabs click at once, or the timer fires in between (resolve).
DeliveryNeverBlocks ==
  \A h \in Posts : postPc[h] = "send" =>
    /\ Len(ch[post[h].call]) < ChanCap
    /\ \A g \in Posts \ {h} : postPc[g] = "send" => post[g].call # post[h].call

\* The map holds exactly the calls a click can still decide: no call that has
\* returned or been decided, and every call still blocked without a decision,
\* so the page never offers a dead call nor hides a live one.
PageIsCurrent ==
  /\ \A c \in pendings : reqPc[c] \in {"select", "cleanup"} /\ decided[c] = "none"
  /\ \A c \in Calls : reqPc[c] = "select" /\ decided[c] = "none" => c \in pendings

Gate == INSTANCE HumanGate WITH
  asked <- {c \in Calls : reqPc[c] # "idle"},
  outcome <- [c \in Calls |-> IF reqPc[c] = "returned" THEN out[c] ELSE "none"]

\* Clicks, timers and Close in any order amount to the gate's promise: the first
\* decision taken on a waiting call, or a timeout.
ImplementsGate == Gate!Spec

\* Every call asked about comes back once timers fire, although nobody clicks, and
\* without them once Close runs; and every handler finishes even if neither does.
EveryRequestReturns ==
  /\ TimersFire => \A c \in Calls : reqPc[c] = "select" ~> reqPc[c] = "returned"
  /\ \A c \in Calls : reqPc[c] = "select" /\ done ~> reqPc[c] = "returned"
  /\ \A h \in Posts : postPc[h] = "resolve" ~> postPc[h] = "done"

\* A call audited as a timeout is one no human answered in time.
TimeoutMeansUnanswered ==
  \A c \in Calls : reqPc[c] = "returned" /\ out[c] = "TimedOut" => c \notin inTime
=============================================================================
