--------------------------- MODULE ApprovalProofs ---------------------------
(***************************************************************************)
(* Theorems about ApprovalServer, for every set of calls and of POSTs: its *)
(* safety, and that it implements HumanGate.                               *)
(***************************************************************************)
EXTENDS ApprovalServer, TLAPS

\* A handler past its checks holds a decoded form; the one that claimed a call will
\* deliver the decision it took, over a channel that is still empty.
HandlerInv ==
  /\ shown \subseteq Calls
  /\ \A h \in Posts : postPc[h] \in {"resolve", "send"} =>
       post[h] \in [call : Calls, action : Actions]
  /\ \A h \in Posts : postPc[h] = "send" =>
       decided[post[h].call] = post[h].action /\ ch[post[h].call] = <<>>
  /\ \A g, h \in Posts :
       postPc[g] = "send" /\ postPc[h] = "send" /\ post[g].call = post[h].call => g = h

\* A channel holds at most the decision taken on its call, once.
ChannelInv == \A c \in Calls : ch[c] # <<>> => ch[c] = <<decided[c]>>

\* Nothing is decided before it is asked, and nothing returned that was not decided.
RequestInv ==
  \A c \in Calls :
    /\ reqPc[c] = "idle" => decided[c] = "none" /\ c \notin pendings
    /\ decided[c] = "none" => ch[c] = <<>>
    /\ reqPc[c] \in {"cleanup", "returned"} => out[c] \in {"TimedOut", decided[c]}

ApprovalInv == PageIsCurrent /\ HandlerInv /\ ChannelInv /\ RequestInv

\* The server's variables keep their types through every step.
LEMMA TypeStep == TypeOK /\ ApprovalInv /\ [Next]_vars => TypeOK'
<1> SUFFICES ASSUME TypeOK, ApprovalInv, [Next]_vars PROVE TypeOK' OBVIOUS
<1> USE DEF TypeOK, requestVars, timeVars, handlerVars, historyVars, Outcomes
<1>1. ASSUME NEW c \in Calls, Register(c) \/ Return(c) \/ TimerFires(c) PROVE TypeOK'
  BY <1>1 DEF Register, Return, Unregister, TimerFires
<1>2. ASSUME NEW c \in Calls, WakeDecided(c) PROVE TypeOK'
  <2>1. ch[c] \in Seq(Actions) /\ ch[c] # <<>>
    BY <1>2 DEF WakeDecided
  <2>2. Head(ch[c]) \in Actions /\ Tail(ch[c]) \in Seq(Actions)
    BY <2>1
  <2> QED BY <1>2, <2>2 DEF WakeDecided, Wake
<1>3. ASSUME NEW c \in Calls, WakeTimedOut(c) \/ WakeClosed(c) PROVE TypeOK'
  BY <1>3 DEF WakeTimedOut, WakeClosed, Wake
<1>4. CASE ShowPage \/ Close
  BY <1>4 DEF ShowPage, Close
<1>5. ASSUME NEW h \in Posts, NEW c \in shown, NEW a \in Actions, Click(h, c, a)
      PROVE  TypeOK'
  BY <1>5 DEF Click
<1>6. ASSUME NEW h \in Posts, RefusedPost(h) PROVE TypeOK'
  BY <1>6 DEF RefusedPost
<1>7. ASSUME NEW h \in Posts, ResolveLookup(h) PROVE TypeOK'
  BY <1>7 DEF ResolveLookup, Claim, ApprovalInv, HandlerInv
<1>8. ASSUME NEW h \in Posts, ResolveSend(h) PROVE TypeOK'
  <2>1. Decision(h) \in Actions /\ post[h].call \in Calls
    BY <1>8 DEF ResolveSend, Decision, ApprovalInv, HandlerInv
  <2> QED BY <1>8, <2>1 DEF ResolveSend
<1>9. CASE UNCHANGED vars
  BY <1>9 DEF vars
<1> QED BY <1>1, <1>2, <1>3, <1>4, <1>5, <1>6, <1>7, <1>8, <1>9 DEF Next, Request

\* A step of one Request touches its own call only.
LEMMA InvRequest ==
  ASSUME TypeOK, ApprovalInv, NEW c \in Calls, Request(c) \/ TimerFires(c)
  PROVE  ApprovalInv'
<1> USE DEF TypeOK, requestVars, timeVars, handlerVars, historyVars, ApprovalInv,
            PageIsCurrent, HandlerInv, ChannelInv, RequestInv, Outcomes
<1>1. CASE Register(c)
  BY <1>1 DEF Register
<1>2. CASE WakeDecided(c)
  <2>1. ch[c] = <<decided[c]>>
    BY <1>2 DEF WakeDecided
  <2>2. Head(ch[c]) = decided[c] /\ Tail(ch[c]) = <<>>
    BY <2>1
  <2> QED BY <1>2, <2>2 DEF WakeDecided, Wake
<1>3. CASE WakeTimedOut(c) \/ WakeClosed(c)
  <2>1. /\ reqPc[c] = "select" /\ reqPc' = [reqPc EXCEPT ![c] = "cleanup"]
        /\ out' = [out EXCEPT ![c] = "TimedOut"]
        /\ UNCHANGED <<pendings, ch, shown, postPc, post, decided>>
    BY <1>3 DEF WakeTimedOut, WakeClosed, Wake
  <2>2. PageIsCurrent'
    BY <2>1
  <2>3. HandlerInv' /\ ChannelInv'
    BY <2>1
  <2>4. RequestInv'
    BY <2>1
  <2> QED BY <2>2, <2>3, <2>4
<1>4. CASE Return(c)
  BY <1>4 DEF Return, Unregister
<1>5. CASE TimerFires(c)
  BY <1>5 DEF TimerFires
<1> QED BY <1>1, <1>2, <1>3, <1>4, <1>5 DEF Request

\* A handler claims a call before it delivers, so two never deliver to one.
LEMMA InvHandler ==
  ASSUME TypeOK, ApprovalInv, NEW h \in Posts,
         \/ \E c \in shown, a \in Actions : Click(h, c, a)
         \/ RefusedPost(h) \/ ResolveLookup(h) \/ ResolveSend(h)
  PROVE  ApprovalInv'
<1> USE DEF TypeOK, requestVars, timeVars, handlerVars, historyVars, ApprovalInv,
            PageIsCurrent, HandlerInv, ChannelInv, RequestInv
<1>1. ASSUME NEW c \in shown, NEW a \in Actions, Click(h, c, a) PROVE ApprovalInv'
  BY <1>1 DEF Click
<1>2. CASE RefusedPost(h)
  BY <1>2 DEF RefusedPost
<1>3. CASE ResolveLookup(h)
  <2> DEFINE c == post[h].call
  <2>1. c \in Calls /\ post[h].action \in Actions /\ "none" \notin Actions
    BY <1>3 DEF ResolveLookup, Actions
  <2>2. CASE c \notin pendings
    BY <1>3, <2>2 DEF ResolveLookup
  <2>3. CASE c \in pendings
    <3>1. decided[c] = "none" /\ ch[c] = <<>> /\ reqPc[c] \in {"select", "cleanup"}
      BY <2>1, <2>3
    <3>2. \A g \in Posts : postPc[g] = "send" => post[g].call # c
      BY <2>1, <3>1
    <3>3. /\ pendings' = pendings \ {c} /\ decided' = [decided EXCEPT ![c] = post[h].action]
          /\ postPc' = [postPc EXCEPT ![h] = "send"]
          /\ UNCHANGED <<reqPc, out, ch, shown, post>>
      BY <1>3, <2>3 DEF ResolveLookup, Claim
    <3>4. PageIsCurrent'
      BY <2>1, <3>1, <3>3
    <3>5. reqPc[c] = "cleanup" => out[c] = "TimedOut"
      BY <2>1, <3>1 DEF Outcomes
    <3>6. RequestInv'
      <4> SUFFICES ASSUME NEW d \in Calls
                   PROVE  /\ reqPc'[d] = "idle" => decided'[d] = "none" /\ d \notin pendings'
                          /\ decided'[d] = "none" => ch'[d] = <<>>
                          /\ reqPc'[d] \in {"cleanup", "returned"} =>
                               out'[d] \in {"TimedOut", decided'[d]}
        OBVIOUS
      <4>1. CASE d = c
        BY <2>1, <3>1, <3>3, <3>5, <4>1
      <4>2. CASE d # c
        BY <3>3, <4>2
      <4> QED BY <4>1, <4>2
    <3>7. ChannelInv'
      BY <2>1, <3>1, <3>3
    <3>8. HandlerInv'
      <4>1. shown' \subseteq Calls
        BY <3>3
      <4>2. \A g \in Posts : postPc'[g] \in {"resolve", "send"} =>
              post'[g] \in [call : Calls, action : Actions]
        BY <1>3, <3>3 DEF ResolveLookup
      <4>3. \A g \in Posts : postPc'[g] = "send" =>
              decided'[post'[g].call] = post'[g].action /\ ch'[post'[g].call] = <<>>
        BY <2>1, <3>1, <3>2, <3>3
      <4>4. \A f, g \in Posts :
              postPc'[f] = "send" /\ postPc'[g] = "send" /\ post'[f].call = post'[g].call
                => f = g
        BY <3>2, <3>3
      <4> QED BY <4>1, <4>2, <4>3, <4>4
    <3> QED BY <3>4, <3>6, <3>7, <3>8
  <2> QED BY <2>2, <2>3
<1>4. CASE ResolveSend(h)
  <2> DEFINE c == post[h].call
  <2>1. c \in Calls /\ ch[c] = <<>> /\ decided[c] = post[h].action
        /\ decided[c] # "none" /\ postPc[h] = "send"
    BY <1>4 DEF ResolveSend, Actions
  <2>2. /\ ch' = [ch EXCEPT ![c] = <<decided[c]>>]
        /\ postPc' = [postPc EXCEPT ![h] = "done"]
        /\ UNCHANGED <<reqPc, out, pendings, shown, post, decided>>
    BY <1>4, <2>1 DEF ResolveSend, Decision
  <2> QED BY <2>1, <2>2
<1> QED BY <1>1, <1>2, <1>3, <1>4

\* The server's invariant, and with it its types, hold in every reachable state.
LEMMA ApprovalInvariant == Spec => [](TypeOK /\ ApprovalInv)
<1>1. Init => TypeOK
  <2> SUFFICES ASSUME Init PROVE TypeOK OBVIOUS
  <2>1. <<>> \in Seq(Actions)
    OBVIOUS
  <2>2. ch \in [Calls -> Seq(Actions)]
    BY <2>1 DEF Init
  <2>3. /\ out \in [Calls -> Outcomes] /\ decided \in [Calls -> Actions \cup {"none"}]
        /\ reqPc \in [Calls -> {"idle", "select", "cleanup", "returned"}]
    BY DEF Init, Outcomes
  <2>4. post \in [Posts -> [call : Calls, action : Actions] \cup {Blank}]
    BY DEF Init
  <2> QED BY <2>2, <2>3, <2>4 DEF Init, TypeOK
<1>2. Init => ApprovalInv
  BY DEF Init, ApprovalInv, PageIsCurrent, HandlerInv, ChannelInv, RequestInv
<1>3. TypeOK /\ ApprovalInv /\ [Next]_vars => ApprovalInv'
  <2> SUFFICES ASSUME TypeOK, ApprovalInv, [Next]_vars PROVE ApprovalInv' OBVIOUS
  <2>1. CASE ShowPage \/ Close \/ UNCHANGED vars
    BY <2>1 DEF ShowPage, Close, vars, TypeOK, requestVars, timeVars, handlerVars,
                historyVars, ApprovalInv, PageIsCurrent, HandlerInv, ChannelInv,
                RequestInv
  <2> QED BY <2>1, InvRequest, InvHandler DEF Next
<1> QED BY <1>1, <1>2, <1>3, TypeStep, PTL DEF Spec

\* Every reachable state of the server is well typed.
THEOREM TypeCorrect == Spec => []TypeOK
BY ApprovalInvariant, PTL

\* No handler ever blocks on a channel or competes to deliver (resolve).
THEOREM HandlersNeverBlock == Spec => []DeliveryNeverBlocks
<1>1. ApprovalInv => DeliveryNeverBlocks
  BY DEF ApprovalInv, HandlerInv, DeliveryNeverBlocks, ChanCap
<1> QED BY <1>1, ApprovalInvariant, PTL

\* The page lists exactly the calls a click can still decide (handleIndex, resolve).
THEOREM ThePageIsCurrent == Spec => []PageIsCurrent
<1>1. ApprovalInv => PageIsCurrent
  BY DEF ApprovalInv
<1> QED BY <1>1, ApprovalInvariant, PTL

-----------------------------------------------------------------------------
\* The server implements the gate: Register asks, the lookup that claims a call
\* decides, Return returns, and everything else stutters (Request, resolve).
THEOREM TheServerIsAGate == Spec => ImplementsGate
<1>1. Init => Gate!Init
  BY DEF Init, Gate!Init
<1>2. TypeOK /\ ApprovalInv /\ [Next]_vars => [Gate!Next]_(Gate!gateVars)
  <2> SUFFICES ASSUME TypeOK, ApprovalInv, [Next]_vars
               PROVE  Gate!Next \/ UNCHANGED Gate!gateVars
    BY DEF Gate!gateVars
  <2> USE DEF TypeOK, requestVars, timeVars, handlerVars, historyVars
  <2>1. ASSUME NEW c \in Calls, Register(c) PROVE Gate!Ask(c)
    BY <2>1 DEF Register, Gate!Ask
  <2>2. ASSUME NEW c \in Calls, WakeDecided(c) \/ WakeTimedOut(c) \/ WakeClosed(c)
        PROVE  UNCHANGED Gate!gateVars
    BY <2>2 DEF WakeDecided, WakeTimedOut, WakeClosed, Wake, Gate!gateVars
  <2>3. ASSUME NEW c \in Calls, Return(c), NEW o, o = out[c] PROVE Gate!Return(c, o)
    BY <2>3 DEF Return, Gate!Return, ApprovalInv, RequestInv
  <2>4. ASSUME NEW h \in Posts, ResolveLookup(h)
        PROVE  UNCHANGED Gate!gateVars \/ Gate!Decide(post[h].call, post[h].action)
    BY <2>4 DEF ResolveLookup, Claim, Gate!Decide, Gate!gateVars, ApprovalInv,
                PageIsCurrent, HandlerInv
  <2>5. ASSUME NEW h \in Posts,
               \/ \E c \in shown, a \in Actions : Click(h, c, a)
               \/ RefusedPost(h) \/ ResolveSend(h)
        PROVE  UNCHANGED Gate!gateVars
    BY <2>5 DEF Click, RefusedPost, ResolveSend, Gate!gateVars
  <2>6. CASE (\E c \in Calls : TimerFires(c)) \/ ShowPage \/ Close \/ UNCHANGED vars
    BY <2>6 DEF TimerFires, ShowPage, Close, vars, Gate!gateVars
  <2>7. ASSUME NEW c \in Calls PROVE out[c] \in {"Approved", "Rejected", "TimedOut"}
    BY DEF Outcomes, Actions
  <2>8. ASSUME NEW h \in Posts, ResolveLookup(h)
        PROVE  post[h].call \in Calls /\ post[h].action \in {"Approved", "Rejected"}
    BY <2>8 DEF ResolveLookup, ApprovalInv, HandlerInv, Actions
  <2>9. ASSUME NEW c \in Calls, Request(c) PROVE Gate!Next \/ UNCHANGED Gate!gateVars
    <3>1. CASE Register(c)
      BY <2>1, <3>1 DEF Gate!Next
    <3>2. CASE Return(c)
      <4>1. PICK o \in {"Approved", "Rejected", "TimedOut"} : o = out[c]
        BY <2>7
      <4>2. Gate!Return(c, o)
        BY <2>3, <3>2, <4>1
      <4> QED BY <4>2 DEF Gate!Next
    <3>3. CASE WakeDecided(c) \/ WakeTimedOut(c) \/ WakeClosed(c)
      BY <2>2, <3>3
    <3> QED BY <2>9, <3>1, <3>2, <3>3 DEF Request
  <2>10. ASSUME NEW h \in Posts, ResolveLookup(h)
         PROVE  Gate!Next \/ UNCHANGED Gate!gateVars
    BY <2>4, <2>8, <2>10 DEF Gate!Next
  <2> HIDE DEF TypeOK
  <2> QED BY <2>5, <2>6, <2>9, <2>10 DEF Next
<1> QED BY <1>1, <1>2, ApprovalInvariant, PTL DEF Spec, ImplementsGate, Gate!Spec
=============================================================================
