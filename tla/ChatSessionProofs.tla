------------------------- MODULE ChatSessionProofs --------------------------
(* The safety of ReportApiClient and ChatSession, for any number of         *)
(* messages and nodes and any number of expirations.                        *)
EXTENDS ChatSession, TLAPS

Waits == {"typing", "login", "answer", "refresh", "relogin", "answer again",
          "events", "over"}

Outcomes == {"pending", "report", "failed", "still running", "rejected",
             "unauthorized", "stream unauthorized", "unreachable"}

ClientTypes ==
    /\ pc \in [Messages -> Waits]
    /\ sent \in [Messages -> {"no", "shared", "own", "expired"}]
    /\ outcome \in [Messages -> Outcomes]
    /\ account \in BOOLEAN

(* What a step of a message does to its own place, and to nobody else's. *)
LEMMA StepPlace ==
    ASSUME ClientTypes, NEW m \in Messages, ClientStep(m)
    PROVE  /\ pc[m] # "over"
           /\ \E p \in Waits \ {"typing"} : pc' = [pc EXCEPT ![m] = p]
<1> USE DEF ClientTypes, Waits, Begin, Tell
<1>1. CASE Say(m)
  <2>1. pc' = [pc EXCEPT ![m] = IF access = "none" THEN "login" ELSE "answer"]
    BY <1>1 DEF Say
  <2>2. pc[m] = "typing"
    BY <1>1 DEF Say
  <2>3. CASE access = "none"
    <3>1. pc' = [pc EXCEPT ![m] = "login"]
      BY <2>1, <2>3
    <3>2. QED
      BY <2>2, <3>1
  <2>4. CASE access # "none"
    <3>1. pc' = [pc EXCEPT ![m] = "answer"]
      BY <2>1, <2>4
    <3>2. QED
      BY <2>2, <3>1
  <2>5. QED
    BY <2>3, <2>4
<1>2. CASE Proceed(m)
  BY <1>2 DEF Proceed, LogsIn, LoginRefused, Refreshes, RefreshRefused, FirstRefusal,
              SecondRefusal, Rejected, Accepted, StreamOpens, Got, Post, Awaiting
<1>3. CASE NoAnswer(m)
  BY <1>3 DEF NoAnswer
<1>4. CASE StreamEnds(m)
  BY <1>4 DEF StreamEnds
<1>5. CASE TimesOut(m)
  BY <1>5 DEF TimesOut
<1>6. QED
  BY <1>1, <1>2, <1>3, <1>4, <1>5 DEF ClientStep

----------------------------------------------------------------------------
(* The second try of a call carries a token of its own, and whoever was     *)
(* told "unauthorized" was told so when there was no user.                  *)
TokenInv ==
    /\ \A m \in Messages : pc[m] = "answer again" => sent[m] = "own"
    /\ UnauthorizedMeansNoUser

(* A message's own step keeps the tokens as TokenInv says. *)
LEMMA ClientTokens ==
    ASSUME ClientTypes, TokenInv, NEW m \in Messages, ClientStep(m)
    PROVE  /\ TokenInv'
           /\ sent' \in [Messages -> {"no", "shared", "own", "expired"}]
           /\ outcome' \in [Messages -> Outcomes]
           /\ account' = account
<1> USE DEF ClientTypes, Outcomes, TokenInv, UnauthorizedMeansNoUser, tokens
<1>1. CASE Say(m)
  BY <1>1 DEF Say, Begin
<1>2. CASE StreamEnds(m)
  BY <1>2 DEF StreamEnds, Begin
<1>3. CASE TimesOut(m)
  BY <1>3 DEF TimesOut, Begin
<1>4. CASE LogsIn(m)
  BY <1>4 DEF LogsIn
<1>5. CASE Refreshes(m)
  BY <1>5 DEF Refreshes
<1>6. CASE LoginRefused(m)
  BY <1>6 DEF LoginRefused, Tell
<1>7. CASE RefreshRefused(m)
  BY <1>7 DEF RefreshRefused
<1>8. CASE FirstRefusal(m)
  BY <1>8 DEF FirstRefusal
<1>9. CASE SecondRefusal(m)
  <2>1. ~account
    BY <1>9 DEF SecondRefusal, Authorized
  <2>2. QED
    BY <1>9, <2>1 DEF SecondRefusal, Tell
<1>10. CASE Rejected(m)
  BY <1>10 DEF Rejected, Tell
<1>11. CASE NoAnswer(m)
  BY <1>11 DEF NoAnswer, Tell
<1>12. CASE Accepted(m)
  BY <1>12 DEF Accepted, Begin
<1>13. CASE StreamOpens(m)
  BY <1>13 DEF StreamOpens
<1>14. CASE Got(m)
  BY <1>14 DEF Got, Tell, Verdict
<1>15. QED
  BY <1>1, <1>2, <1>3, <1>4, <1>5, <1>6, <1>7, <1>8, <1>9, <1>10,
     <1>11, <1>12, <1>13, <1>14 DEF ClientStep, Proceed

(* The server and the other sessions: a token of one's own does not expire, *)
(* and a user that is gone does not come back.                              *)
LEMMA ServerTokens ==
    ASSUME ClientTypes, TokenInv, ServerStep \/ OthersRenew
    PROVE  /\ TokenInv'
           /\ sent' \in [Messages -> {"no", "shared", "own", "expired"}]
           /\ UNCHANGED <<pc, outcome>>
           /\ account' \in BOOLEAN
<1> USE DEF ClientTypes, Outcomes, TokenInv, UnauthorizedMeansNoUser, tokens
<1>1. CASE \E m \in Messages : JobEnds(m)
  <2>1. UNCHANGED <<tokens, account, call, pc, sent, outcome, expiries>>
    BY <1>1 DEF JobEnds
  <2>2. QED
    BY <2>1
<1>2. CASE AccessExpires
  BY <1>2 DEF AccessExpires
<1>3. CASE RefreshExpires
  BY <1>3 DEF RefreshExpires
<1>4. CASE UserDeleted
  BY <1>4 DEF UserDeleted
<1>5. CASE OthersRenew
  BY <1>5 DEF OthersRenew
<1>6. QED
  BY <1>1, <1>2, <1>3, <1>4, <1>5 DEF ServerStep

(* Every step keeps the types and the tokens of the client. *)
LEMMA ClientSteps ==
    ASSUME ClientTypes, TokenInv, [Next]_vars
    PROVE  ClientTypes' /\ TokenInv'
<1>1. ASSUME NEW m \in Messages, ClientStep(m)
      PROVE  ClientTypes' /\ TokenInv'
  BY <1>1, StepPlace, ClientTokens DEF ClientTypes
<1>2. CASE ServerStep \/ OthersRenew
  BY <1>2, ServerTokens DEF ClientTypes
<1>3. CASE UNCHANGED clientVars
  BY <1>3 DEF clientVars, ClientTypes, TokenInv, UnauthorizedMeansNoUser
<1>4. QED
  BY <1>1, <1>2, <1>3 DEF Next, vars, Handle, Draw, Log

(* TokenInv is inductive. *)
LEMMA ClientInvariant == Spec => [](ClientTypes /\ TokenInv)
<1>1. Init => ClientTypes /\ TokenInv
  BY DEF Init, ClientInit, ClientTypes, TokenInv, UnauthorizedMeansNoUser, Waits, Outcomes
<1>2. QED
  BY <1>1, ClientSteps, PTL DEF Spec

(* report_api_client.py:178-180: no token that another message has replaced, *)
(* and none that has expired under a call, makes it fail as unauthorized.    *)
THEOREM UnauthorizedMeansNoUserHolds == Spec => []UnauthorizedMeansNoUser
<1>1. TokenInv => UnauthorizedMeansNoUser
  BY DEF TokenInv
<1>2. QED
  BY <1>1, ClientInvariant, PTL

----------------------------------------------------------------------------
BoxTypes ==
    /\ active \in [Nodes -> Messages \cup {NoMessage}]
    /\ finished \in [Nodes -> Messages \cup {NoMessage}]
    /\ shown \in [Messages -> [Nodes -> NodeStates \cup {"nothing"}]]
    /\ teller \in [Messages -> [Nodes -> Messages]]
    /\ lines \in [Messages -> [Nodes -> SUBSET Messages]]

TypeOK == ClientTypes /\ BoxTypes

(* One message is handled after the other. *)
InTurn ==
    \A k, m \in Messages : k < m /\ pc[m] # "typing" => pc[k] = "over"

(* A message draws nothing before it is sent. *)
BlankBefore ==
    \A m \in Messages, n \in Nodes : pc[m] = "typing" => shown[m][n] = "nothing"

(* An open box is one of a message that is being handled, or was left open. *)
OpenBoxes ==
    \A n \in Nodes : active[n] # NoMessage =>
        /\ pc[active[n]] # "typing"
        /\ pc[active[n]] = "over" => <<active[n], n>> \in left

(* While a message with a box for a node is handled, that box is the open   *)
(* one or the one closed last.                                              *)
OwnBox ==
    \A m \in Messages, n \in Nodes :
        shown[m][n] # "nothing" /\ pc[m] # "over" =>
            active[n] = m \/ (active[n] = NoMessage /\ finished[n] = m)

Inv == InTurn /\ BlankBefore /\ OpenBoxes /\ OwnBox /\ VerdictIsItsNodes

(* A request or its end touches no box; it may leave boxes open, and says so. *)
LEMMA HandleInv ==
    ASSUME TypeOK, Inv, NEW m \in Messages, Handle(m)
    PROVE  BoxTypes' /\ Inv'
<1>1. PICK p \in Waits \ {"typing"} : pc' = [pc EXCEPT ![m] = p]
  BY StepPlace DEF Handle, TypeOK
<1>2. /\ \A k \in Messages : k < m => pc[k] = "over"
      /\ left \subseteq left'
      /\ pc'[m] = "over" => \A n \in Nodes : active[n] = m => <<m, n>> \in left'
      /\ UNCHANGED boxes
  BY DEF Handle
<1>3. BoxTypes'
  BY <1>2 DEF TypeOK, BoxTypes, boxes
<1>4. InTurn'
  <2>1. pc[m] # "over"
    BY StepPlace DEF Handle, TypeOK
  <2>2. SUFFICES ASSUME NEW k \in Messages, NEW l \in Messages, k < l, pc'[l] # "typing"
                 PROVE  pc'[k] = "over"
    BY DEF InTurn
  <2>3. CASE l = m
    BY <1>1, <1>2, <2>2, <2>3, SessionAssumption DEF TypeOK, ClientTypes
  <2>4. CASE l # m
    BY <1>1, <2>1, <2>2, <2>4 DEF Inv, InTurn, TypeOK, ClientTypes
  <2>5. QED
    BY <2>3, <2>4
<1>5. BlankBefore'
  BY <1>1, <1>2 DEF Inv, BlankBefore, TypeOK, ClientTypes, boxes
<1>6. OpenBoxes'
  BY <1>1, <1>2 DEF Inv, OpenBoxes, TypeOK, ClientTypes, BoxTypes, boxes
<1>7. OwnBox'
  <2>1. pc[m] # "over"
    BY StepPlace DEF Handle, TypeOK
  <2>2. QED
    BY <1>1, <1>2, <2>1 DEF Inv, OwnBox, TypeOK, ClientTypes, boxes
<1>8. VerdictIsItsNodes'
  BY <1>2 DEF Inv, VerdictIsItsNodes, boxes
<1>9. QED
  BY <1>3, <1>4, <1>5, <1>6, <1>7, <1>8 DEF Inv

(* Of two messages, only one is being handled. *)
LEMMA OneAtATime ==
    ASSUME Inv, NEW m \in Messages, pc[m] = "events",
           NEW k \in Messages, k # m
    PROVE  pc[k] \in {"typing", "over"}
<1>1. k \in Nat /\ m \in Nat
  BY SessionAssumption
<1>2. CASE k < m
  BY <1>2 DEF Inv, InTurn
<1>3. CASE m < k
  BY <1>3 DEF Inv, InTurn
<1>4. QED
  BY <1>1, <1>2, <1>3

(* _render_node_state(): the box it draws on is m's own, or one that a      *)
(* message before m has left open.                                          *)
LEMMA DrawInv ==
    ASSUME TypeOK, Inv, NEW m \in Messages, NEW n \in Nodes, NEW s \in NodeStates,
           Draw(m, n, s)
    PROVE  BoxTypes' /\ Inv'
<1> DEFINE box == Headed(m, n)
<1>1. /\ pc[m] = "events"
      /\ shown' = [shown EXCEPT ![box][n] = s]
      /\ teller' = [teller EXCEPT ![box][n] = m]
      /\ lines' = IF s = "failed" THEN [lines EXCEPT ![m][n] = @ \cup {box}] ELSE lines
      /\ UNCHANGED <<pc, left>>
  BY DEF Draw, clientVars
<1>2. \/ /\ active' = [active EXCEPT ![n] = box]
         /\ UNCHANGED finished
      \/ /\ active' = [active EXCEPT ![n] = NoMessage]
         /\ finished' = [finished EXCEPT ![n] = box]
  BY DEF Draw
<1>3. /\ box \in Messages /\ box # NoMessage
      /\ box = m \/ (pc[box] = "over" /\ <<box, n>> \in left)
      /\ pc[box] # "typing"
      /\ box # m => active[n] = box
  <2>1. CASE active[n] = NoMessage
    BY <1>1, <2>1, SessionAssumption DEF Headed
  <2>2. CASE active[n] # NoMessage
    BY <1>1, <2>2, OneAtATime DEF Headed, Inv, OpenBoxes, TypeOK, BoxTypes
  <2>3. QED
    BY <2>1, <2>2
<1> HIDE DEF box
<1>4. BoxTypes'
  BY <1>1, <1>2, <1>3 DEF TypeOK, BoxTypes
<1>5. InTurn'
  BY <1>1 DEF Inv, InTurn
<1>6. BlankBefore'
  BY <1>1, <1>3 DEF Inv, BlankBefore, TypeOK, BoxTypes
<1>7. OpenBoxes'
  BY <1>1, <1>2, <1>3 DEF Inv, OpenBoxes, TypeOK, BoxTypes
<1>8. OwnBox'
  <2> SUFFICES ASSUME NEW k \in Messages, NEW i \in Nodes,
                      shown'[k][i] # "nothing", pc'[k] # "over"
               PROVE  active'[i] = k \/ (active'[i] = NoMessage /\ finished'[i] = k)
    BY DEF OwnBox
  <2>1. k = m
    BY <1>1, <1>3, <1>6, OneAtATime DEF BlankBefore
  <2>2. CASE i # n
    BY <1>1, <1>2, <2>1, <2>2 DEF Inv, OwnBox, TypeOK, BoxTypes
  <2>3. CASE i = n
    <3>1. box = m
      BY <1>1, <1>3, <2>1, <2>3, SessionAssumption DEF Inv, OwnBox, TypeOK, BoxTypes
    <3>2. QED
      BY <1>2, <2>1, <2>3, <3>1 DEF TypeOK, BoxTypes
  <2>4. QED
    BY <2>2, <2>3
<1>9. VerdictIsItsNodes'
  BY <1>1, <1>3 DEF Inv, VerdictIsItsNodes, TypeOK, BoxTypes
<1>10. QED
  BY <1>4, <1>5, <1>6, <1>7, <1>8, <1>9 DEF Inv

(* log_agent_content(): a line opens a box only where there is none at all. *)
LEMMA LogInv ==
    ASSUME TypeOK, Inv, NEW m \in Messages, NEW n \in Nodes, Log(m, n)
    PROVE  BoxTypes' /\ Inv'
<1> DEFINE box == Parent(m, n)
           opens == active[n] = NoMessage /\ finished[n] = NoMessage
<1>1. /\ pc[m] = "events"
      /\ lines' = [lines EXCEPT ![m][n] = @ \cup {box}]
      /\ active' = IF opens THEN [active EXCEPT ![n] = m] ELSE active
      /\ shown' = IF opens THEN [shown EXCEPT ![m][n] = "running"] ELSE shown
      /\ teller' = IF opens THEN [teller EXCEPT ![m][n] = m] ELSE teller
      /\ UNCHANGED <<pc, finished, left>>
  BY DEF Log, clientVars
<1>2. box \in Messages
  BY DEF Parent, Headed, TypeOK, BoxTypes
<1> HIDE DEF box
<1>3. CASE ~opens
  <2>1. UNCHANGED <<active, shown, teller, finished, pc, left>>
    BY <1>1, <1>3
  <2>2. BoxTypes'
    BY <1>1, <1>2, <2>1 DEF TypeOK, BoxTypes
  <2>3. Inv'
    BY <2>1 DEF Inv, InTurn, BlankBefore, OpenBoxes, OwnBox, VerdictIsItsNodes
  <2>4. QED
    BY <2>2, <2>3
<1>4. CASE opens
  <2>1. /\ active' = [active EXCEPT ![n] = m]
        /\ shown' = [shown EXCEPT ![m][n] = "running"]
        /\ teller' = [teller EXCEPT ![m][n] = m]
    BY <1>1, <1>4
  <2>2. BoxTypes'
    BY <1>1, <1>2, <2>1 DEF TypeOK, BoxTypes, NodeStates
  <2>3. InTurn'
    BY <1>1 DEF Inv, InTurn
  <2>4. BlankBefore'
    BY <1>1, <2>1 DEF Inv, BlankBefore, TypeOK, BoxTypes
  <2>5. OpenBoxes'
    BY <1>1, <2>1 DEF Inv, OpenBoxes, TypeOK, BoxTypes
  <2>6. OwnBox'
    <3> SUFFICES ASSUME NEW k \in Messages, NEW i \in Nodes,
                        shown'[k][i] # "nothing", pc'[k] # "over"
                 PROVE  active'[i] = k \/ (active'[i] = NoMessage /\ finished'[i] = k)
      BY DEF OwnBox
    <3>1. k = m
      BY <1>1, <2>4, OneAtATime DEF BlankBefore
    <3>2. QED
      BY <1>1, <2>1, <3>1 DEF Inv, OwnBox, TypeOK, BoxTypes
  <2>7. VerdictIsItsNodes'
    BY <1>1, <2>1 DEF Inv, VerdictIsItsNodes, TypeOK, BoxTypes
  <2>8. QED
    BY <2>2, <2>3, <2>4, <2>5, <2>6, <2>7 DEF Inv
<1>5. QED
  BY <1>3, <1>4

(* Every step keeps the boxes as Inv says. *)
LEMMA BoxSteps ==
    ASSUME TypeOK, TokenInv, Inv, [Next]_vars
    PROVE  TypeOK' /\ Inv'
<1>1. ClientTypes'
  BY ClientSteps DEF TypeOK
<1>2. ASSUME NEW m \in Messages, Handle(m)
      PROVE  BoxTypes' /\ Inv'
  BY <1>2, HandleInv
<1>3. ASSUME NEW m \in Messages, NEW n \in Nodes,
             Log(m, n) \/ \E s \in NodeStates : Draw(m, n, s)
      PROVE  BoxTypes' /\ Inv'
  BY <1>3, LogInv, DrawInv
<1>4. CASE ((ServerStep \/ OthersRenew) /\ UNCHANGED chatVars) \/ UNCHANGED vars
  <2>1. UNCHANGED <<pc, active, finished, shown, teller, lines, left>>
    BY <1>4, ServerTokens DEF TypeOK, vars, clientVars, chatVars, boxes
  <2>2. BoxTypes'
    BY <2>1 DEF TypeOK, BoxTypes
  <2>3. Inv'
    BY <2>1 DEF Inv, InTurn, BlankBefore, OpenBoxes, OwnBox, VerdictIsItsNodes
  <2>4. QED
    BY <1>1, <2>2, <2>3 DEF TypeOK
<1>5. QED
  BY <1>1, <1>2, <1>3, <1>4 DEF Next, TypeOK

(* Inv is inductive. *)
LEMMA SessionInvariant == Spec => [](TypeOK /\ Inv)
<1>1. Init => TypeOK /\ Inv
  <2> SUFFICES ASSUME Init PROVE TypeOK /\ Inv
    OBVIOUS
  <2>1. TypeOK
    BY DEF Init, ClientInit, TypeOK, ClientTypes, BoxTypes, Waits, Outcomes
  <2>2. Inv
    BY DEF Init, ClientInit, Inv, InTurn, BlankBefore, OpenBoxes, OwnBox, VerdictIsItsNodes
  <2>3. QED
    BY <2>1, <2>2
<1>2. QED
  BY <1>1, BoxSteps, ClientInvariant, PTL DEF Spec

(* _render_node_state(): for any number of messages and nodes, and events   *)
(* in any order, a closed box tells of its own message's node, unless that  *)
(* message had left it open.                                                *)
THEOREM VerdictIsItsNodesHolds == Spec => []VerdictIsItsNodes
<1>1. Inv => VerdictIsItsNodes
  BY DEF Inv
<1>2. QED
  BY <1>1, SessionInvariant, PTL

(* log_agent_content(): once a message has a box for a node, that node's    *)
(* lines go under it and no other message's box.                            *)
THEOREM LinesGoToOwnBoxHolds == Spec => LinesGoToOwnBox
<1> DEFINE Step == \A m \in Messages, n \in Nodes :
              shown[m][n] # "nothing" => lines'[m][n] \subseteq lines[m][n] \cup {m}
<1>1. ASSUME TypeOK, Inv, Next PROVE Step
  <2> SUFFICES ASSUME NEW m \in Messages, NEW n \in Nodes, shown[m][n] # "nothing"
               PROVE  lines'[m][n] \subseteq lines[m][n] \cup {m}
    OBVIOUS
  <2>1. CASE lines' = lines
    BY <2>1
  <2>2. ASSUME NEW k \in Messages, NEW i \in Nodes, NEW box, pc[k] = "events",
               lines' = [lines EXCEPT ![k][i] = @ \cup {box}],
               box = Headed(k, i) \/ box = Parent(k, i)
        PROVE  lines'[m][n] \subseteq lines[m][n] \cup {m}
    <3>1. CASE k = m /\ i = n
      <4>1. active[n] = m \/ (active[n] = NoMessage /\ finished[n] = m)
        BY <1>1, <2>2, <3>1 DEF Inv, OwnBox
      <4>2. box = m
        BY <2>2, <3>1, <4>1, SessionAssumption DEF Headed, Parent
      <4>3. QED
        BY <1>1, <2>2, <3>1, <4>2 DEF TypeOK, BoxTypes
    <3>2. CASE k # m \/ i # n
      BY <1>1, <2>2, <3>2 DEF TypeOK, BoxTypes
    <3>3. QED
      BY <3>1, <3>2
  <2>3. ASSUME NEW k \in Messages, NEW i \in Nodes, Log(k, i)
        PROVE  lines'[m][n] \subseteq lines[m][n] \cup {m}
    BY <2>2, <2>3 DEF Log
  <2>4. ASSUME NEW k \in Messages, NEW i \in Nodes, NEW s \in NodeStates, Draw(k, i, s)
        PROVE  lines'[m][n] \subseteq lines[m][n] \cup {m}
    <3>1. CASE s = "failed"
      BY <2>2, <2>4, <3>1 DEF Draw
    <3>2. CASE s # "failed"
      BY <2>1, <2>4, <3>2 DEF Draw
    <3>3. QED
      BY <3>1, <3>2
  <2>5. CASE \E k \in Messages : Handle(k)
    BY <2>1, <2>5 DEF Handle, boxes
  <2>6. CASE (ServerStep \/ OthersRenew) /\ UNCHANGED chatVars
    BY <2>1, <2>6 DEF chatVars, boxes
  <2>7. QED
    BY <1>1, <2>3, <2>4, <2>5, <2>6 DEF Next
<1>2. ASSUME TypeOK, Inv, [Next]_vars PROVE [Step]_vars
  BY <1>1, <1>2
<1>3. QED
  BY <1>2, SessionInvariant, PTL DEF Spec, LinesGoToOwnBox
=============================================================================
