-------------------------- MODULE VibeEscrow_proofs --------------------------
(***************************************************************************)
(* Proofs about VibeEscrow, for any number of escrows, parties, calls and  *)
(* crashes.                                                                *)
(***************************************************************************)
EXTENDS VibeEscrow, FiniteSums

(***************************************************************************)
(* What a record says of the rail.  A leg without an attempt was never     *)
(* asked for; a confirmed one has landed; only planned parties are paid.   *)
(***************************************************************************)
RecordInv(e) ==
  LET esc == journal[e] IN
  /\ \A l \in Legs : esc.attempts[l] = "none" => inflight[e][l] = 0 /\ landed[e][l] = 0
  /\ \A l \in Legs : esc.attempts[l] = "confirmed" => landed[e][l] = 1
  /\ \A p \in Parties : esc.attempts[p] # "none" => p \in DOMAIN esc.plan
  /\ esc.state \in {"opening", "open"} => esc.op = "none"
  /\ esc.state \in {"transferring", "released", "refunded"} => esc.op # "none"
  /\ esc.state \notin {"opening", "uncertain"} => esc.attempts["fund"] = "confirmed"
  /\ esc.op = "none" <=> esc.plan = NoPlan
  /\ esc.op # "none" => esc.attempts["fund"] = "confirmed"
  /\ esc.op = "refund" => DOMAIN esc.plan = {esc.terms.payer}
  /\ esc.state \in {"released", "refunded"} =>
       \A p \in DOMAIN esc.plan : esc.attempts[p] = "confirmed"
  /\ esc.state = "refunded" => esc.op = "refund"

\* An escrow nobody opened has moved no money.
UnopenedInv(e) == \A l \in Legs : inflight[e][l] = 0 /\ landed[e][l] = 0

\* Where a call stands agrees with the record it works on.
CallInv(c) ==
  LET e == call[c].e  l == call[c].leg  esc == call[c].esc IN
  /\ Opened(e) /\ esc = journal[e]
  /\ l = "fund" => esc.state = "opening"
  /\ l # "fund" => esc.state = "transferring" /\ l \in DOMAIN esc.plan
  /\ l # "fund" => \A p \in DOMAIN esc.plan \ {l} : esc.attempts[p] \in {"none", "confirmed"}
  /\ call[c].pc = "attempt" => esc.attempts[l] = "none"
  /\ call[c].pc = "send" => esc.attempts[l] = "attempting" /\ inflight[e][l] = 0 /\ landed[e][l] = 0
  /\ call[c].pc = "wait" => esc.attempts[l] = "attempting"
  /\ call[c].pc = "commit" /\ l = "fund" => esc.attempts[l] = "confirmed"
  /\ call[c].pc = "commit" /\ l # "fund" => \A p \in DOMAIN esc.plan : esc.attempts[p] = "confirmed"

Exclusive == \A c, d \in Calls : c # d /\ call[c] # Idle /\ call[d] # Idle => call[c].e # call[d].e

AckInv ==
  \A a \in acked : Opened(a[1]) /\ journal[a[1]].terms = a[2] /\ journal[a[1]].attempts["fund"] = "confirmed"

IInv ==
  /\ TypeOK
  /\ EachLegOnce
  /\ \A e \in Escrows : IF Opened(e) THEN RecordInv(e) ELSE UnopenedInv(e)
  /\ \A c \in Calls : call[c] # Idle => CallInv(c)
  /\ Exclusive
  /\ AckInv
-----------------------------------------------------------------------------
\* Initially nothing was opened and nothing moved.
LEMMA InitIInv == Init => IInv
  BY VibeAssumption, SentinelAssumption
     DEF Init, IInv, TypeOK, EachLegOnce, UnopenedInv, Opened, Exclusive, AckInv, Legs

\* A step on one escrow that re-establishes the invariant there, and leaves
\* alone the calls that work elsewhere, preserves it.
LEMMA OneEscrow ==
  ASSUME IInv, TypeOK', Exclusive', AckInv', NEW e \in Escrows,
         \A x \in Escrows \ {e} : /\ journal'[x] = journal[x]
                                  /\ inflight'[x] = inflight[x]
                                  /\ landed'[x] = landed[x],
         \A l \in Legs : inflight'[e][l] + landed'[e][l] <= 1,
         IF Opened(e)' THEN RecordInv(e)' ELSE UnopenedInv(e)',
         \A c \in Calls : call'[c] # Idle /\ call'[c].e # e => call'[c] = call[c],
         \A c \in Calls : call'[c] # Idle /\ call'[c].e = e => CallInv(c)'
  PROVE  IInv'
<1>1. EachLegOnce'
  BY DEF IInv, EachLegOnce
<1>2. ASSUME NEW x \in Escrows
      PROVE  IF Opened(x)' THEN RecordInv(x)' ELSE UnopenedInv(x)'
  <2>1. CASE x = e
    BY <2>1
  <2>2. CASE x # e
    BY <2>2 DEF IInv, Opened, RecordInv, UnopenedInv
  <2>. QED BY <2>1, <2>2
<1>3. ASSUME NEW c \in Calls, call'[c] # Idle
      PROVE  CallInv(c)'
  <2>1. CASE call'[c].e = e
    BY <1>3, <2>1
  <2>2. CASE call'[c].e # e
    <3>1. call'[c] = call[c] /\ call[c] # Idle /\ call[c] \in Call
      BY <1>3, <2>2 DEF IInv, TypeOK
    <3>2. CallInv(c) /\ call[c].e \in Escrows \ {e}
      BY <3>1, <2>2 DEF IInv, Call
    <3>. QED
      BY <3>1, <3>2 DEF CallInv, Opened
  <2>. QED BY <2>1, <2>2
<1>. QED
  BY <1>1, <1>2, <1>3 DEF IInv

\* A step of call c on escrow e: what is left to show is the invariant there.
LEMMA CallerStep ==
  ASSUME IInv, TypeOK', NEW c \in Calls, NEW e \in Escrows,
         \A x \in Escrows \ {e} : /\ journal'[x] = journal[x]
                                  /\ inflight'[x] = inflight[x]
                                  /\ landed'[x] = landed[x],
         \A d \in Calls \ {c} : call'[d] = call[d] /\ (call[d] # Idle => call[d].e # e),
         call'[c] # Idle => call'[c].e = e /\ CallInv(c)',
         \A l \in Legs : inflight'[e][l] + landed'[e][l] <= 1,
         Opened(e)', RecordInv(e)',
         Opened(e) => /\ journal'[e].terms = journal[e].terms
                      /\ journal[e].attempts["fund"] = "confirmed"
                           => journal'[e].attempts["fund"] = "confirmed",
         \A a \in acked' \ acked : a = <<e, journal'[e].terms>>
                                   /\ journal'[e].attempts["fund"] = "confirmed"
  PROVE  IInv'
<1>1. Exclusive'
  BY DEF IInv, Exclusive
<1>2. AckInv'
  <2>1. ASSUME NEW a \in acked'
        PROVE  Opened(a[1])' /\ journal'[a[1]].terms = a[2]
               /\ journal'[a[1]].attempts["fund"] = "confirmed"
    <3>1. CASE a \notin acked
      BY <3>1
    <3>2. CASE a \in acked
      <4>1. a[1] \in Escrows /\ Opened(a[1]) /\ journal[a[1]].terms = a[2]
            /\ journal[a[1]].attempts["fund"] = "confirmed"
        BY <3>2 DEF IInv, TypeOK, AckInv
      <4>2. CASE a[1] = e
        BY <4>1, <4>2
      <4>3. CASE a[1] # e
        BY <4>1, <4>3 DEF Opened
      <4>. QED BY <4>2, <4>3
    <3>. QED BY <3>1, <3>2
  <2>. QED BY <2>1 DEF AckInv
<1>3. \A d \in Calls : call'[d] # Idle /\ call'[d].e # e => call'[d] = call[d]
  OBVIOUS
<1>4. \A d \in Calls : call'[d] # Idle /\ call'[d].e = e => CallInv(d)'
  OBVIOUS
<1>. QED
  BY ONLY OneEscrow, IInv, TypeOK', <1>1, <1>2, <1>3, <1>4, e \in Escrows,
         \A x \in Escrows \ {e} : /\ journal'[x] = journal[x]
                                  /\ inflight'[x] = inflight[x]
                                  /\ landed'[x] = landed[x],
         \A l \in Legs : inflight'[e][l] + landed'[e][l] <= 1,
         Opened(e)', RecordInv(e)'

\* What a call in progress and its record look like (facts every step uses).
LEMMA ActiveCall ==
  ASSUME IInv, NEW c \in Calls, call[c] # Idle
  PROVE  /\ call[c] \in Call /\ CallInv(c)
         /\ call[c].e \in Escrows /\ call[c].leg \in Legs
         /\ journal[call[c].e] \in Record /\ call[c].esc = journal[call[c].e]
         /\ RecordInv(call[c].e) /\ Opened(call[c].e)
         /\ \A d \in Calls : d # c /\ call[d] # Idle => call[d].e # call[c].e
<1>1. call[c] \in Call /\ CallInv(c)
  BY DEF IInv, TypeOK
<1>2. call[c].e \in Escrows /\ call[c].leg \in Legs
  BY <1>1 DEF Call
<1>3. call[c].esc = journal[call[c].e] /\ Opened(call[c].e)
  BY <1>1 DEF CallInv
<1>4. journal[call[c].e] \in Record
  BY <1>2, <1>3 DEF IInv, TypeOK, Opened
<1>. QED
  BY <1>1, <1>2, <1>3, <1>4 DEF IInv, Exclusive

LEMMA OpenEscrowIInv ==
  ASSUME IInv, NEW c \in Calls, NEW e \in Escrows, NEW t \in Terms, OpenEscrow(c, e, t)
  PROVE  IInv'
<1> DEFINE esc == [state |-> "opening", terms |-> t, op |-> "none", plan |-> NoPlan,
                   attempts |-> [l \in Legs |-> "none"]]
           new == [pc |-> "attempt", e |-> e, esc |-> esc, leg |-> "fund"]
<1>1. esc \in Record /\ new \in Call /\ "fund" \in Legs
  BY DEF Record, Call, Legs
<1>2. journal' = [journal EXCEPT ![e] = esc] /\ call' = [call EXCEPT ![c] = new]
  BY DEF OpenEscrow
<1>3. esc # Absent
  BY <1>1, SentinelAssumption
<1>4. TypeOK'
  BY <1>1, <1>2 DEF IInv, TypeOK, OpenEscrow, rail
<1>5. journal'[e] = esc /\ ~Opened(e) /\ UnopenedInv(e)
  BY <1>2 DEF IInv, TypeOK, OpenEscrow, Opened
<1>6. call'[c] = new /\ \A d \in Calls \ {c} : call'[d] = call[d]
  BY <1>2 DEF IInv, TypeOK
<1>7. \A d \in Calls : call[d] # Idle => call[d].e # e
  BY <1>5, ActiveCall
<1>8. Opened(e)' /\ RecordInv(e)'
  BY <1>3, <1>5, VibeAssumption DEF Opened, RecordInv, UnopenedInv, OpenEscrow, rail, Legs
<1>9. call'[c].e = e /\ CallInv(c)'
  BY <1>1, <1>5, <1>6, <1>8 DEF CallInv
<1>10. \A l \in Legs : inflight'[e][l] + landed'[e][l] <= 1
  BY <1>5 DEF UnopenedInv, OpenEscrow, rail
<1>11. \A x \in Escrows \ {e} : journal'[x] = journal[x] /\ inflight'[x] = inflight[x]
                                /\ landed'[x] = landed[x]
  BY <1>2 DEF IInv, TypeOK, OpenEscrow, rail
<1>12. acked' = acked
  BY DEF OpenEscrow
<1> HIDE DEF esc, new
<1>. QED
  BY CallerStep, <1>4, <1>5, <1>6, <1>7, <1>8, <1>9, <1>10, <1>11, <1>12

LEMMA ReopenEscrowIInv ==
  ASSUME IInv, NEW c \in Calls, NEW e \in Escrows, NEW t \in Terms, ReopenEscrow(c, e, t)
  PROVE  IInv'
<1>1. Opened(e) /\ journal[e].attempts["fund"] = "confirmed"
  BY DEF IInv, ReopenEscrow, SameTerms, Opened, RecordInv
<1>2. TypeOK' /\ AckInv'
  BY <1>1 DEF IInv, TypeOK, AckInv, ReopenEscrow, SameTerms, Opened, rail
<1>3. UNCHANGED <<journal, call, inflight, landed>>
  BY DEF ReopenEscrow, SameTerms, rail
<1>. QED
  BY <1>2, <1>3 DEF IInv, EachLegOnce, RecordInv, UnopenedInv, Opened, CallInv, Exclusive

LEMMA BeginFinishIInv ==
  ASSUME IInv, NEW c \in Calls, NEW e \in Escrows, NEW plan \in Plans,
         NEW op \in {"release", "refund", "split"}, BeginFinish(c, e, op, plan)
  PROVE  IInv'
<1> DEFINE esc == [journal[e] EXCEPT !.state = "transferring", !.op = op, !.plan = plan]
<1>1. PICK leg \in DOMAIN plan :
        /\ journal' = [journal EXCEPT ![e] = esc]
        /\ call' = [call EXCEPT ![c] = [pc |-> "attempt", e |-> e, esc |-> esc, leg |-> leg]]
  BY DEF BeginFinish, Finishable
<1>2. journal[e] \in Record /\ Opened(e) /\ RecordInv(e) /\ journal[e].state = "open"
  BY DEF IInv, TypeOK, BeginFinish, Finishable, Opened
<1>3. DOMAIN plan \subseteq Parties /\ DOMAIN plan # {} /\ leg \in Legs /\ leg # "fund"
  BY VibeAssumption DEF Plans, Legs
<1>4. esc \in Record /\ [pc |-> "attempt", e |-> e, esc |-> esc, leg |-> leg] \in Call
  BY <1>2, <1>3 DEF Record, Call
<1>5. esc # Absent
  BY <1>4, SentinelAssumption
<1>6. TypeOK'
  BY <1>1, <1>4 DEF IInv, TypeOK, BeginFinish, Finishable, rail
<1>7. journal'[e] = esc /\ \A d \in Calls \ {c} : call'[d] = call[d]
  BY <1>1 DEF IInv, TypeOK
<1>8. call'[c].pc = "attempt" /\ call'[c].e = e /\ call'[c].esc = esc /\ call'[c].leg = leg
  BY <1>1 DEF IInv, TypeOK
<1>9. \A d \in Calls : call[d] # Idle => call[d].e # e
  BY <1>2, ActiveCall DEF CallInv
<1>10. esc.attempts = journal[e].attempts /\ esc.terms = journal[e].terms
       /\ esc.state = "transferring" /\ esc.op = op /\ esc.plan = plan
  BY <1>2 DEF Record
<1>11. plan # NoPlan /\ (op = "refund" => DOMAIN plan = {esc.terms.payer})
  BY <1>3, <1>10 DEF NoPlan, BeginFinish, Finishable, WholeTo
<1>12. \A p \in Parties : journal[e].attempts[p] = "none"
  BY <1>2 DEF RecordInv, NoPlan
<1>13. Opened(e)' /\ RecordInv(e)'
  BY <1>2, <1>5, <1>7, <1>10, <1>11, <1>12 DEF Opened, RecordInv, BeginFinish, Finishable, rail
<1>14. \A l \in Legs : inflight'[e][l] + landed'[e][l] <= 1
  BY DEF IInv, EachLegOnce, BeginFinish, Finishable, rail
<1>15. \A x \in Escrows \ {e} : journal'[x] = journal[x] /\ inflight'[x] = inflight[x]
                                /\ landed'[x] = landed[x]
  BY <1>1 DEF IInv, TypeOK, BeginFinish, Finishable, rail
<1>16. acked' = acked
  BY DEF BeginFinish, Finishable
<1>17. leg \in Parties
  BY <1>3 DEF Legs
<1> HIDE DEF esc
<1>18. CallInv(c)'
  BY <1>3, <1>7, <1>8, <1>10, <1>12, <1>13, <1>17 DEF CallInv
<1>. QED
  BY CallerStep, <1>6, <1>7, <1>8, <1>9, <1>10, <1>13, <1>14, <1>15, <1>16, <1>18

\* Changing the attempt of one leg and the state of a record keeps its type.
LEMMA RecordUpdate ==
  ASSUME NEW r \in Record, NEW l \in Legs,
         NEW s \in {"opening", "open", "transferring", "released", "refunded", "uncertain"},
         NEW a \in {"none", "attempting", "confirmed", "unknown"}
  PROVE  /\ [r EXCEPT !.attempts[l] = a] \in Record
         /\ [r EXCEPT !.state = s] \in Record
         /\ [r EXCEPT !.attempts[l] = a, !.state = s] \in Record
  BY DEF Record

LEMMA WriteAttemptIInv ==
  ASSUME IInv, NEW c \in Calls, WriteAttempt(c)
  PROVE  IInv'
<1> PICK e \in Escrows, l \in Legs : e = call[c].e /\ l = call[c].leg
  BY ActiveCall DEF WriteAttempt
<1> DEFINE esc == [call[c].esc EXCEPT !.attempts[l] = "attempting"]
           new == [call[c] EXCEPT !.pc = "send", !.esc.attempts[l] = "attempting"]
<1>1. call[c] # Idle /\ call[c].pc = "attempt" /\ call' = [call EXCEPT ![c] = new]
      /\ journal' = [journal EXCEPT ![e] = new.esc] /\ UNCHANGED <<rail, acked, crashes>>
  BY DEF WriteAttempt, SaveAnd
<1>2. /\ call[c] \in Call /\ CallInv(c) /\ e \in Escrows /\ l \in Legs
      /\ journal[e] \in Record /\ call[c].esc = journal[e] /\ RecordInv(e) /\ Opened(e)
      /\ \A d \in Calls : d # c /\ call[d] # Idle => call[d].e # e
  BY <1>1, ActiveCall
<1>3. esc \in Record
  BY <1>2, RecordUpdate
<1>4. new \in Call /\ new.esc = esc /\ new.e = e /\ new.leg = l /\ new.pc = "send"
  BY <1>2, <1>3 DEF Call
<1>5. esc # Absent
  BY <1>3, SentinelAssumption
<1>6. TypeOK'
  BY <1>1, <1>2, <1>3, <1>4 DEF IInv, TypeOK, rail
<1>7. journal'[e] = esc /\ call'[c] = new /\ \A d \in Calls \ {c} : call'[d] = call[d]
  BY <1>1, <1>2, <1>4 DEF IInv, TypeOK
<1>8. /\ esc.state = journal[e].state /\ esc.terms = journal[e].terms /\ esc.op = journal[e].op
      /\ esc.plan = journal[e].plan
      /\ esc.attempts = [journal[e].attempts EXCEPT ![l] = "attempting"]
      /\ journal[e].attempts \in [Legs -> {"none", "attempting", "confirmed", "unknown"}]
  BY <1>2 DEF Record
<1>9. /\ journal[e].attempts[l] = "none"
      /\ l = "fund" => journal[e].state = "opening"
      /\ l # "fund" => journal[e].state = "transferring" /\ l \in DOMAIN journal[e].plan
  BY <1>1, <1>2 DEF CallInv
<1>10. inflight[e][l] = 0 /\ landed[e][l] = 0
  BY <1>2, <1>9 DEF RecordInv
<1>11. "fund" \in Legs /\ Parties \subseteq Legs /\ "fund" \notin Parties
  BY VibeAssumption DEF Legs
<1> HIDE DEF esc, new
<1>12. Opened(e)' /\ RecordInv(e)'
  <2>1. Opened(e)'
    BY <1>5, <1>7 DEF Opened
  <2>2. \A k \in Legs : k # l => esc.attempts[k] = journal[e].attempts[k]
    BY <1>8
  <2>3. esc.attempts[l] = "attempting"
    BY <1>2, <1>8
  <2>4. \A p \in DOMAIN journal[e].plan : p \in Parties
    BY <1>2 DEF Record, Plans, NoPlan
  <2>5. UNCHANGED <<inflight, landed>>
    BY <1>1 DEF rail
  <2>6. \A k \in Legs : /\ esc.attempts[k] = "none" => inflight[e][k] = 0 /\ landed[e][k] = 0
                        /\ esc.attempts[k] = "confirmed" => landed[e][k] = 1
    BY <1>2, <2>2, <2>3 DEF RecordInv
  <2>7. \A p \in Parties : esc.attempts[p] # "none" => p \in DOMAIN journal[e].plan
    BY <1>2, <1>9, <1>11, <2>2 DEF RecordInv
  <2>8. journal[e].state \notin {"released", "refunded"}
        /\ (journal[e].attempts["fund"] = "confirmed" => esc.attempts["fund"] = "confirmed")
    BY <1>9, <1>11, <2>2
  <2>. QED
    BY <1>2, <1>7, <1>8, <2>1, <2>5, <2>6, <2>7, <2>8 DEF RecordInv
<1>18. l # "fund" => \A p \in DOMAIN esc.plan \ {l} : esc.attempts[p] \in {"none", "confirmed"}
  <2>1. \A p \in DOMAIN esc.plan \ {l} : esc.attempts[p] = journal[e].attempts[p]
    BY <1>2, <1>8 DEF Record, Plans, NoPlan, Legs
  <2>2. l # "fund" => \A p \in DOMAIN journal[e].plan \ {l} :
                        journal[e].attempts[p] \in {"none", "confirmed"}
    BY <1>2 DEF CallInv
  <2>. QED BY <1>8, <2>1, <2>2
<1>19. esc.attempts[l] = "attempting" /\ UNCHANGED <<inflight, landed>>
  BY <1>1, <1>2, <1>8 DEF rail
<1>13. call'[c].e = e /\ CallInv(c)'
  BY <1>4, <1>7, <1>8, <1>9, <1>10, <1>12, <1>18, <1>19 DEF CallInv
<1>14. \A k \in Legs : inflight'[e][k] + landed'[e][k] <= 1
  BY <1>1, <1>2 DEF IInv, EachLegOnce, rail
<1>15. \A x \in Escrows \ {e} : journal'[x] = journal[x] /\ inflight'[x] = inflight[x]
                                /\ landed'[x] = landed[x]
  BY <1>1 DEF IInv, TypeOK, rail
<1>16. journal[e].attempts["fund"] = "confirmed" => journal'[e].attempts["fund"] = "confirmed"
  BY <1>7, <1>8, <1>9, <1>11
<1>17. acked' = acked /\ journal'[e].terms = journal[e].terms
  BY <1>1, <1>7, <1>8
<1>. QED
  BY CallerStep, <1>2, <1>6, <1>7, <1>12, <1>13, <1>14, <1>15, <1>16, <1>17

LEMMA SendIInv ==
  ASSUME IInv, NEW c \in Calls, Send(c)
  PROVE  IInv'
<1> PICK e \in Escrows, l \in Legs : e = call[c].e /\ l = call[c].leg
  BY ActiveCall DEF Send
<1> DEFINE new == [call[c] EXCEPT !.pc = "wait"]
<1>1. call[c] # Idle /\ call[c].pc = "send" /\ call' = [call EXCEPT ![c] = new]
      /\ inflight' = [inflight EXCEPT ![e][l] = @ + 1]
      /\ UNCHANGED <<journal, landed, balance, custody, acked, crashes>>
  BY DEF Send
<1>2. /\ call[c] \in Call /\ CallInv(c) /\ e \in Escrows /\ l \in Legs
      /\ journal[e] \in Record /\ call[c].esc = journal[e] /\ RecordInv(e) /\ Opened(e)
      /\ \A d \in Calls : d # c /\ call[d] # Idle => call[d].e # e
  BY <1>1, ActiveCall
<1>3. new \in Call /\ new.esc = journal[e] /\ new.e = e /\ new.leg = l /\ new.pc = "wait"
  BY <1>2 DEF Call
<1>4. TypeOK'
  BY <1>1, <1>2, <1>3 DEF IInv, TypeOK
<1>5. call'[c] = new /\ \A d \in Calls \ {c} : call'[d] = call[d]
  BY <1>1 DEF IInv, TypeOK
<1>6. /\ journal[e].attempts[l] = "attempting" /\ inflight[e][l] = 0 /\ landed[e][l] = 0
      /\ l = "fund" => journal[e].state = "opening"
      /\ l # "fund" => journal[e].state = "transferring" /\ l \in DOMAIN journal[e].plan
  BY <1>1, <1>2 DEF CallInv
<1>7. /\ inflight'[e][l] = 1
      /\ \A k \in Legs \ {l} : inflight'[e][k] = inflight[e][k]
      /\ \A x \in Escrows \ {e} : inflight'[x] = inflight[x]
  BY <1>1, <1>2, <1>6 DEF IInv, TypeOK
<1> HIDE DEF new
<1>8. Opened(e)' /\ RecordInv(e)'
  BY <1>1, <1>2, <1>6, <1>7 DEF RecordInv, Opened
<1>9. call'[c].e = e /\ CallInv(c)'
  BY <1>1, <1>2, <1>3, <1>5, <1>6, <1>8 DEF CallInv
<1>10. \A k \in Legs : inflight'[e][k] + landed'[e][k] <= 1
  BY <1>1, <1>2, <1>6, <1>7 DEF IInv, EachLegOnce
<1>. QED
  BY CallerStep, <1>1, <1>2, <1>4, <1>5, <1>7, <1>8, <1>9, <1>10

LEMMA ConfirmedIInv ==
  ASSUME IInv, NEW c \in Calls, Confirmed(c)
  PROVE  IInv'
<1> PICK e \in Escrows, l \in Legs : e = call[c].e /\ l = call[c].leg
  BY ActiveCall DEF Confirmed, LegsLeft
<1> DEFINE esc == [call[c].esc EXCEPT !.attempts[l] = "confirmed"]
           rest == {p \in DOMAIN esc.plan : esc.attempts[p] = "none"}
<1>1. call[c] # Idle /\ call[c].pc = "wait" /\ landed[e][l] > 0
      /\ UNCHANGED <<rail, acked, crashes>>
  BY DEF Confirmed, LegsLeft
<1>2. /\ call[c] \in Call /\ CallInv(c)
      /\ journal[e] \in Record /\ call[c].esc = journal[e] /\ RecordInv(e) /\ Opened(e)
      /\ \A d \in Calls : d # c /\ call[d] # Idle => call[d].e # e
  BY <1>1, ActiveCall
<1>3. esc \in Record
  BY <1>2, RecordUpdate
<1>4. esc # Absent
  BY <1>3, SentinelAssumption
<1>5. DOMAIN esc.plan \subseteq Parties /\ Parties \subseteq Legs /\ "fund" \in Legs /\ "fund" \notin Parties
  BY <1>3, VibeAssumption DEF Record, Plans, NoPlan, Legs
<1>6. PICK new \in Call :
        /\ call' = [call EXCEPT ![c] = new] /\ journal' = [journal EXCEPT ![e] = esc]
        /\ new.e = e /\ new.esc = esc
        /\ \/ new.pc = "commit" /\ new.leg = l /\ (l = "fund" \/ rest = {})
           \/ new.pc = "attempt" /\ new.leg \in rest /\ l # "fund"
  <2>1. CASE l = "fund" \/ rest = {}
    <3> DEFINE n == [call[c] EXCEPT !.pc = "commit", !.esc = esc]
    <3>1. n \in Call /\ n.e = e /\ n.esc = esc /\ n.pc = "commit" /\ n.leg = l
      BY <1>2, <1>3 DEF Call
    <3>2. call' = [call EXCEPT ![c] = n] /\ journal' = [journal EXCEPT ![e] = n.esc]
      BY <2>1 DEF Confirmed, LegsLeft, SaveAnd
    <3>. QED BY <2>1, <3>1, <3>2
  <2>2. CASE ~(l = "fund" \/ rest = {})
    <3>1. PICK p \in rest : SaveAnd(c, [call[c] EXCEPT !.pc = "attempt", !.esc = esc, !.leg = p])
      BY <2>2 DEF Confirmed, LegsLeft
    <3> DEFINE n == [call[c] EXCEPT !.pc = "attempt", !.esc = esc, !.leg = p]
    <3>2. p \in Legs
      BY <1>5
    <3>3. n \in Call /\ n.e = e /\ n.esc = esc /\ n.pc = "attempt" /\ n.leg = p
      BY <1>2, <1>3, <3>2 DEF Call
    <3>4. call' = [call EXCEPT ![c] = n] /\ journal' = [journal EXCEPT ![e] = n.esc]
      BY <3>1 DEF SaveAnd
    <3>. QED BY <2>2, <3>3, <3>4
  <2>. QED BY <2>1, <2>2
<1>7. TypeOK'
  BY <1>1, <1>2, <1>3, <1>6 DEF IInv, TypeOK, rail
<1>8. journal'[e] = esc /\ call'[c] = new /\ \A d \in Calls \ {c} : call'[d] = call[d]
  BY <1>6 DEF IInv, TypeOK
<1>9. /\ esc.state = journal[e].state /\ esc.terms = journal[e].terms /\ esc.op = journal[e].op
      /\ esc.plan = journal[e].plan
      /\ \A k \in Legs \ {l} : esc.attempts[k] = journal[e].attempts[k]
      /\ esc.attempts[l] = "confirmed"
  BY <1>2 DEF Record
<1>10. /\ journal[e].attempts[l] = "attempting"
       /\ l = "fund" => journal[e].state = "opening"
       /\ l # "fund" => journal[e].state = "transferring" /\ l \in DOMAIN journal[e].plan
  BY <1>1, <1>2 DEF CallInv
<1>11. UNCHANGED <<inflight, landed>> /\ acked' = acked
  BY <1>1 DEF rail
<1>12. landed[e][l] = 1
  <2>1. landed[e][l] \in Nat /\ inflight[e][l] \in Nat /\ inflight[e][l] + landed[e][l] <= 1
    BY DEF IInv, TypeOK, EachLegOnce
  <2>. QED BY <1>1, <2>1
<1>13. Opened(e)' /\ RecordInv(e)'
  <2>1. Opened(e)'
    BY <1>4, <1>8 DEF Opened
  <2>2. \A k \in Legs : /\ esc.attempts[k] = "none" => inflight[e][k] = 0 /\ landed[e][k] = 0
                        /\ esc.attempts[k] = "confirmed" => landed[e][k] = 1
    BY <1>2, <1>9, <1>12 DEF RecordInv
  <2>3. \A p \in Parties : esc.attempts[p] # "none" => p \in DOMAIN journal[e].plan
    BY <1>2, <1>5, <1>9, <1>10 DEF RecordInv
  <2>4. journal[e].state \notin {"released", "refunded"}
        /\ (journal[e].attempts["fund"] = "confirmed" => esc.attempts["fund"] = "confirmed")
    BY <1>5, <1>9, <1>10
  <2> HIDE DEF esc
  <2>. QED
    BY <1>2, <1>8, <1>9, <1>11, <2>1, <2>2, <2>3, <2>4 DEF RecordInv
<1>14. /\ l # "fund" => \A p \in DOMAIN esc.plan : esc.attempts[p] \in {"none", "confirmed"}
       /\ new.pc = "commit" /\ l # "fund" => \A p \in DOMAIN esc.plan : esc.attempts[p] = "confirmed"
  <2>1. l # "fund" => \A p \in DOMAIN journal[e].plan \ {l} : journal[e].attempts[p] \in {"none", "confirmed"}
    BY <1>2 DEF CallInv
  <2>2. l # "fund" => \A p \in DOMAIN esc.plan : esc.attempts[p] \in {"none", "confirmed"}
    BY <1>5, <1>9, <2>1
  <2>. QED BY <1>6, <2>2
<1>15. new.pc = "attempt" => new.leg \in DOMAIN esc.plan /\ new.leg # "fund" /\ esc.attempts[new.leg] = "none"
  BY <1>5, <1>6, <1>10
<1> HIDE DEF esc, rest
<1>16. call'[c].e = e /\ CallInv(c)'
  BY <1>2, <1>6, <1>8, <1>9, <1>10, <1>13, <1>14, <1>15 DEF CallInv
<1>17. \A k \in Legs : inflight'[e][k] + landed'[e][k] <= 1
  BY <1>11 DEF IInv, EachLegOnce
<1>18. \A x \in Escrows \ {e} : journal'[x] = journal[x] /\ inflight'[x] = inflight[x]
                                /\ landed'[x] = landed[x]
  BY <1>6, <1>11 DEF IInv, TypeOK
<1>19. /\ journal[e].attempts["fund"] = "confirmed" => journal'[e].attempts["fund"] = "confirmed"
       /\ journal'[e].terms = journal[e].terms
  BY <1>5, <1>8, <1>9
<1>. QED
  BY CallerStep, <1>2, <1>7, <1>8, <1>11, <1>13, <1>16, <1>17, <1>18, <1>19

LEMMA UnconfirmedIInv ==
  ASSUME IInv, NEW c \in Calls, Unconfirmed(c)
  PROVE  IInv'
<1> PICK e \in Escrows, l \in Legs : e = call[c].e /\ l = call[c].leg
  BY ActiveCall DEF Unconfirmed, OnHold
<1> DEFINE esc == [call[c].esc EXCEPT !.attempts[l] = "unknown", !.state = "uncertain"]
<1>1. call[c] # Idle /\ call[c].pc = "wait" /\ UNCHANGED <<rail, acked, crashes>>
      /\ journal' = [journal EXCEPT ![e] = esc] /\ call' = [call EXCEPT ![c] = Idle]
  BY DEF Unconfirmed, OnHold
<1>2. /\ call[c] \in Call /\ CallInv(c)
      /\ journal[e] \in Record /\ call[c].esc = journal[e] /\ RecordInv(e) /\ Opened(e)
      /\ \A d \in Calls : d # c /\ call[d] # Idle => call[d].e # e
  BY <1>1, ActiveCall
<1>3. esc \in Record
  BY <1>2, RecordUpdate
<1>4. esc # Absent
  BY <1>3, SentinelAssumption
<1>5. TypeOK'
  BY <1>1, <1>3 DEF IInv, TypeOK, rail
<1>6. journal'[e] = esc /\ call'[c] = Idle /\ \A d \in Calls \ {c} : call'[d] = call[d]
  BY <1>1 DEF IInv, TypeOK
<1>7. /\ esc.state = "uncertain" /\ esc.terms = journal[e].terms /\ esc.op = journal[e].op
      /\ esc.plan = journal[e].plan
      /\ \A k \in Legs \ {l} : esc.attempts[k] = journal[e].attempts[k]
      /\ esc.attempts[l] = "unknown"
  BY <1>2 DEF Record
<1>8. /\ journal[e].attempts[l] = "attempting"
      /\ l # "fund" => l \in DOMAIN journal[e].plan
  BY <1>1, <1>2 DEF CallInv
<1>9. UNCHANGED <<inflight, landed>> /\ acked' = acked
  BY <1>1 DEF rail
<1>10. "fund" \in Legs /\ Parties \subseteq Legs /\ "fund" \notin Parties
  BY VibeAssumption DEF Legs
<1>11. Opened(e)' /\ RecordInv(e)'
  <2>1. Opened(e)'
    BY <1>4, <1>6 DEF Opened
  <2>2. \A k \in Legs : /\ esc.attempts[k] = "none" => inflight[e][k] = 0 /\ landed[e][k] = 0
                        /\ esc.attempts[k] = "confirmed" => landed[e][k] = 1
    BY <1>2, <1>7 DEF RecordInv
  <2>3. \A p \in Parties : esc.attempts[p] # "none" => p \in DOMAIN journal[e].plan
    BY <1>2, <1>7, <1>8, <1>10 DEF RecordInv
  <2>4. journal[e].attempts["fund"] = "confirmed" => esc.attempts["fund"] = "confirmed"
    BY <1>7, <1>8, <1>10
  <2> HIDE DEF esc
  <2>. QED
    BY <1>2, <1>6, <1>7, <1>9, <2>1, <2>2, <2>3, <2>4 DEF RecordInv
<1>12. \A k \in Legs : inflight'[e][k] + landed'[e][k] <= 1
  BY <1>9 DEF IInv, EachLegOnce
<1>13. \A x \in Escrows \ {e} : journal'[x] = journal[x] /\ inflight'[x] = inflight[x]
                                /\ landed'[x] = landed[x]
  BY <1>1, <1>9 DEF IInv, TypeOK
<1>14. /\ journal[e].attempts["fund"] = "confirmed" => journal'[e].attempts["fund"] = "confirmed"
       /\ journal'[e].terms = journal[e].terms
  BY <1>6, <1>7, <1>8, <1>10
<1> HIDE DEF esc
<1>. QED
  BY CallerStep, <1>2, <1>5, <1>6, <1>9, <1>11, <1>12, <1>13, <1>14

LEMMA CommitOpenIInv ==
  ASSUME IInv, NEW c \in Calls, CommitOpen(c)
  PROVE  IInv'
<1> PICK e \in Escrows : e = call[c].e
  BY ActiveCall DEF CommitOpen
<1> DEFINE esc == [call[c].esc EXCEPT !.state = "open"]
<1>1. /\ call[c] # Idle /\ call[c].pc = "commit" /\ call[c].leg = "fund"
      /\ UNCHANGED <<rail, crashes>> /\ acked' = acked \cup {<<e, call[c].esc.terms>>}
      /\ journal' = [journal EXCEPT ![e] = esc] /\ call' = [call EXCEPT ![c] = Idle]
  BY DEF CommitOpen
<1>2. /\ CallInv(c)
      /\ journal[e] \in Record /\ call[c].esc = journal[e] /\ RecordInv(e) /\ Opened(e)
      /\ \A d \in Calls : d # c /\ call[d] # Idle => call[d].e # e
  BY <1>1, ActiveCall
<1>3. esc \in Record /\ esc # Absent
  <2>1. esc \in Record
    BY <1>2 DEF Record
  <2>. QED BY <2>1, SentinelAssumption
<1>4. /\ esc.state = "open" /\ esc.terms = journal[e].terms /\ esc.op = journal[e].op
      /\ esc.plan = journal[e].plan /\ esc.attempts = journal[e].attempts
      /\ esc.terms \in Terms
  BY <1>2 DEF Record
<1>5. TypeOK'
  BY <1>1, <1>2, <1>3, <1>4 DEF IInv, TypeOK, rail
<1>6. journal'[e] = esc /\ call'[c] = Idle /\ \A d \in Calls \ {c} : call'[d] = call[d]
  BY <1>1 DEF IInv, TypeOK
<1>7. journal[e].state = "opening" /\ journal[e].attempts["fund"] = "confirmed"
  BY <1>1, <1>2 DEF CallInv
<1>8. UNCHANGED <<inflight, landed>>
  BY <1>1 DEF rail
<1> HIDE DEF esc
<1>9. Opened(e)' /\ RecordInv(e)'
  BY <1>2, <1>3, <1>4, <1>6, <1>7, <1>8 DEF Opened, RecordInv
<1>10. \A k \in Legs : inflight'[e][k] + landed'[e][k] <= 1
  BY <1>8 DEF IInv, EachLegOnce
<1>11. \A x \in Escrows \ {e} : journal'[x] = journal[x] /\ inflight'[x] = inflight[x]
                                /\ landed'[x] = landed[x]
  BY <1>1, <1>8 DEF IInv, TypeOK
<1>12. \A a \in acked' \ acked : a = <<e, journal'[e].terms>>
                                /\ journal'[e].attempts["fund"] = "confirmed"
  BY <1>1, <1>2, <1>4, <1>6, <1>7
<1>. QED
  BY CallerStep, <1>2, <1>4, <1>5, <1>6, <1>7, <1>9, <1>10, <1>11, <1>12

LEMMA CommitFinishIInv ==
  ASSUME IInv, NEW c \in Calls, CommitFinish(c)
  PROVE  IInv'
<1> PICK e \in Escrows : e = call[c].e
  BY ActiveCall DEF CommitFinish
<1> DEFINE closed == IF call[c].esc.op = "refund" THEN "refunded" ELSE "released"
           esc == [call[c].esc EXCEPT !.state = closed]
<1>1. /\ call[c] # Idle /\ call[c].pc = "commit" /\ call[c].leg # "fund"
      /\ UNCHANGED <<rail, acked, crashes>>
      /\ journal' = [journal EXCEPT ![e] = esc] /\ call' = [call EXCEPT ![c] = Idle]
  BY DEF CommitFinish
<1>2. /\ CallInv(c)
      /\ journal[e] \in Record /\ call[c].esc = journal[e] /\ RecordInv(e) /\ Opened(e)
      /\ \A d \in Calls : d # c /\ call[d] # Idle => call[d].e # e
  BY <1>1, ActiveCall
<1>3. esc \in Record /\ esc # Absent
  <2>1. closed \in {"released", "refunded"}
    OBVIOUS
  <2>2. esc \in Record
    <3> HIDE DEF closed
    <3>. QED BY <1>2, <2>1 DEF Record
  <2>. QED BY <2>2, SentinelAssumption
<1>4. /\ esc.state = closed /\ esc.terms = journal[e].terms /\ esc.op = journal[e].op
      /\ esc.plan = journal[e].plan /\ esc.attempts = journal[e].attempts
  BY <1>2 DEF Record
<1>5. TypeOK'
  BY <1>1, <1>2, <1>3 DEF IInv, TypeOK, rail
<1>6. journal'[e] = esc /\ call'[c] = Idle /\ \A d \in Calls \ {c} : call'[d] = call[d]
  BY <1>1 DEF IInv, TypeOK
<1>7. /\ journal[e].state = "transferring"
      /\ \A p \in DOMAIN journal[e].plan : journal[e].attempts[p] = "confirmed"
      /\ closed \in {"refunded", "released"} /\ (closed = "refunded" <=> journal[e].op = "refund")
  BY <1>1, <1>2 DEF CallInv
<1>8. UNCHANGED <<inflight, landed>> /\ acked' = acked
  BY <1>1 DEF rail
<1> HIDE DEF esc, closed
<1>9. Opened(e)' /\ RecordInv(e)'
  BY <1>2, <1>3, <1>4, <1>6, <1>7, <1>8 DEF Opened, RecordInv
<1>10. \A k \in Legs : inflight'[e][k] + landed'[e][k] <= 1
  BY <1>8 DEF IInv, EachLegOnce
<1>11. \A x \in Escrows \ {e} : journal'[x] = journal[x] /\ inflight'[x] = inflight[x]
                                /\ landed'[x] = landed[x]
  BY <1>1, <1>8 DEF IInv, TypeOK
<1>. QED
  BY CallerStep, <1>2, <1>4, <1>5, <1>6, <1>8, <1>9, <1>10, <1>11

\* A crash only forgets a call: the records keep their meaning.
LEMMA CrashIInv ==
  ASSUME IInv, NEW c \in Calls, Crash(c)
  PROVE  IInv'
<1>1. call' = [call EXCEPT ![c] = Idle] /\ UNCHANGED <<journal, inflight, landed, acked>>
  BY DEF Crash, rail
<1>2. TypeOK'
  BY DEF IInv, TypeOK, Crash, rail
<1>3. \A d \in Calls : call'[d] # Idle => call'[d] = call[d]
  BY <1>1 DEF IInv, TypeOK
<1>4. Exclusive' /\ \A d \in Calls : call'[d] # Idle => CallInv(d)'
  BY <1>1, <1>3 DEF IInv, Exclusive, CallInv, Opened
<1>5. EachLegOnce' /\ AckInv' /\ \A e \in Escrows : IF Opened(e)' THEN RecordInv(e)' ELSE UnopenedInv(e)'
  BY <1>1 DEF IInv, EachLegOnce, AckInv, Opened, RecordInv, UnopenedInv
<1>. QED
  BY <1>2, <1>4, <1>5 DEF IInv

\* A request in flight belongs to an attempt that was written down first.
LEMMA InFlightAttempted ==
  ASSUME IInv, NEW e \in Escrows, NEW l \in Legs, inflight[e][l] > 0
  PROVE  /\ Opened(e) /\ journal[e] \in Record
         /\ inflight[e][l] = 1 /\ landed[e][l] = 0
         /\ journal[e].attempts[l] \notin {"none", "confirmed"}
         /\ AmountOf(journal[e], l) \in Nat
<1>1. inflight[e][l] \in Nat /\ landed[e][l] \in Nat /\ inflight[e][l] + landed[e][l] <= 1
  BY DEF IInv, TypeOK, EachLegOnce
<1>2. inflight[e][l] = 1 /\ landed[e][l] = 0
  BY <1>1
<1>3. Opened(e) /\ RecordInv(e) /\ journal[e] \in Record
  BY <1>2 DEF IInv, UnopenedInv, TypeOK, Opened
<1>4. journal[e].attempts[l] \in {"attempting", "unknown"}
  BY <1>2, <1>3 DEF RecordInv, Record
<1>5. AmountOf(journal[e], l) \in Nat
  <2>1. CASE l = "fund"
    BY <1>3, <2>1, VibeAssumption DEF AmountOf, Record
  <2>2. CASE l # "fund"
    <3>1. l \in DOMAIN journal[e].plan
      BY <1>3, <1>4, <2>2 DEF RecordInv, Legs
    <3>2. journal[e].plan \in Plans
      BY <1>3, <3>1 DEF Record, NoPlan
    <3>3. PICK S \in SUBSET Parties : journal[e].plan \in [S -> Amounts]
      BY <3>2 DEF Plans
    <3>4. journal[e].plan[l] \in Nat
      BY <3>1, <3>3, VibeAssumption
    <3>. QED BY <2>2, <3>4 DEF AmountOf
  <2>. QED BY <2>1, <2>2
<1>. QED
  BY <1>2, <1>3, <1>4, <1>5

LEMMA RailIInv ==
  ASSUME IInv, NEW e \in Escrows, NEW l \in Legs, Land(e, l) \/ Refuse(e, l)
  PROVE  IInv'
<1>1. inflight[e][l] > 0 /\ UNCHANGED <<journal, call, acked, crashes>>
  BY DEF Land, Refuse
<1>2. /\ Opened(e) /\ journal[e] \in Record /\ inflight[e][l] = 1 /\ landed[e][l] = 0
      /\ journal[e].attempts[l] \notin {"none", "confirmed"}
      /\ AmountOf(journal[e], l) \in Nat
  BY <1>1, InFlightAttempted
<1>3. /\ inflight' = [inflight EXCEPT ![e][l] = 0]
      /\ landed' = landed \/ landed' = [landed EXCEPT ![e][l] = 1]
  BY <1>2 DEF Land, Refuse
<1> inflight \in [Escrows -> [Legs -> Nat]] /\ landed \in [Escrows -> [Legs -> Nat]]
  BY DEF IInv, TypeOK
<1>4. /\ inflight' \in [Escrows -> [Legs -> Nat]] /\ landed' \in [Escrows -> [Legs -> Nat]]
      /\ \A x \in Escrows, k \in Legs : x # e \/ k # l =>
           inflight'[x][k] = inflight[x][k] /\ landed'[x][k] = landed[x][k]
      /\ inflight'[e][l] = 0 /\ landed'[e][l] \in {0, 1}
  <2>1. inflight' \in [Escrows -> [Legs -> Nat]] /\ landed' \in [Escrows -> [Legs -> Nat]]
    BY <1>3
  <2>2. inflight'[e][l] = 0 /\ landed'[e][l] \in {0, 1}
    BY <1>2, <1>3
  <2>3. ASSUME NEW x \in Escrows, NEW k \in Legs, x # e \/ k # l
        PROVE  inflight'[x][k] = inflight[x][k] /\ landed'[x][k] = landed[x][k]
    BY <1>3, <2>3
  <2>. QED BY <2>1, <2>2, <2>3
<1>5. balance' \in [Parties -> Nat] /\ custody' \in Nat
  <2>1. CASE Refuse(e, l)
    BY <2>1 DEF Refuse, IInv, TypeOK
  <2>2. CASE Land(e, l) /\ l = "fund"
    <3>1. journal[e].terms.payer \in Parties
      BY <1>2, VibeAssumption DEF Record
    <3>2. balance[journal[e].terms.payer] \in Nat /\ custody \in Nat
      BY <3>1 DEF IInv, TypeOK
    <3>. QED BY <1>2, <2>2, <3>1, <3>2 DEF Land, IInv, TypeOK
  <2>3. CASE Land(e, l) /\ l # "fund"
    <3>1. l \in Parties
      BY <2>3 DEF Legs
    <3>2. balance[l] \in Nat /\ custody \in Nat
      BY <3>1 DEF IInv, TypeOK
    <3>. QED BY <1>2, <2>3, <3>1, <3>2 DEF Land, IInv, TypeOK
  <2>. QED BY <2>1, <2>2, <2>3
<1>6. TypeOK'
  BY <1>1, <1>4, <1>5 DEF IInv, TypeOK
<1>7. EachLegOnce'
  <2> SUFFICES ASSUME NEW x \in Escrows, NEW k \in Legs
               PROVE  inflight'[x][k] + landed'[x][k] <= 1
    BY DEF EachLegOnce
  <2>1. CASE x = e /\ k = l
    BY <1>4, <2>1
  <2>2. CASE x # e \/ k # l
    BY <1>4, <2>2 DEF IInv, EachLegOnce
  <2>. QED BY <2>1, <2>2
<1>8. AckInv' /\ Exclusive'
  BY <1>1 DEF IInv, AckInv, Exclusive, Opened
<1>9. ASSUME NEW x \in Escrows PROVE IF Opened(x)' THEN RecordInv(x)' ELSE UnopenedInv(x)'
  <2>1. CASE x = e
    <3>1. RecordInv(e)
      BY <1>2 DEF IInv
    <3>2. \A k \in Legs : /\ journal[e].attempts[k] = "none" => inflight'[e][k] = 0 /\ landed'[e][k] = 0
                          /\ journal[e].attempts[k] = "confirmed" => landed'[e][k] = 1
      BY <1>2, <1>4, <3>1 DEF RecordInv
    <3>. QED BY <1>1, <1>2, <2>1, <3>1, <3>2 DEF RecordInv, Opened
  <2>2. CASE x # e
    <3>1. \A k \in Legs : inflight'[x][k] = inflight[x][k] /\ landed'[x][k] = landed[x][k]
      BY <1>4, <2>2
    <3>2. CASE Opened(x)
      <4>1. RecordInv(x)
        BY <3>2 DEF IInv
      <4>. QED BY <1>1, <3>1, <3>2, <4>1 DEF RecordInv, Opened
    <3>3. CASE ~Opened(x)
      <4>1. UnopenedInv(x)
        BY <3>3 DEF IInv
      <4>. QED BY <1>1, <3>1, <3>3, <4>1 DEF UnopenedInv, Opened
    <3>. QED BY <3>2, <3>3
  <2>. QED BY <2>1, <2>2
<1>10. ASSUME NEW d \in Calls, call'[d] # Idle PROVE CallInv(d)'
  <2>1. CallInv(d) /\ call[d] \in Call /\ call[d].e \in Escrows /\ call[d].leg \in Legs
    BY <1>1, <1>10 DEF IInv, TypeOK, Call
  <2>2. call[d].pc = "send" => call[d].e # e \/ call[d].leg # l
    BY <1>2, <2>1 DEF CallInv
  <2>. QED BY <1>1, <1>4, <2>1, <2>2 DEF CallInv, Opened
<1>. QED
  BY <1>6, <1>7, <1>8, <1>9, <1>10 DEF IInv

-----------------------------------------------------------------------------
\* Every step of the backend, its callers and the rail preserves the invariant.
LEMMA NextIInv == IInv /\ [Next]_vars => IInv'
<1> SUFFICES ASSUME IInv, [Next]_vars PROVE IInv'
  OBVIOUS
<1>1. CASE UNCHANGED vars
  BY <1>1 DEF vars, rail, IInv, TypeOK, EachLegOnce, Exclusive, AckInv, Opened, RecordInv,
              UnopenedInv, CallInv
<1>2. ASSUME NEW c \in Calls, CallStep(c) \/ Crash(c) PROVE IInv'
  BY <1>2, WriteAttemptIInv, SendIInv, ConfirmedIInv, UnconfirmedIInv, CommitOpenIInv,
     CommitFinishIInv, CrashIInv DEF CallStep
<1>3. ASSUME NEW c \in Calls, NEW e \in Escrows, NEW t \in Terms,
             OpenEscrow(c, e, t) \/ ReopenEscrow(c, e, t)
      PROVE  IInv'
  BY <1>3, OpenEscrowIInv, ReopenEscrowIInv
<1>4. ASSUME NEW c \in Calls, NEW e \in Escrows, NEW plan \in Plans,
             NEW op \in {"release", "refund", "split"}, BeginFinish(c, e, op, plan)
      PROVE  IInv'
  BY <1>4, BeginFinishIInv
<1>5. ASSUME NEW e \in Escrows, NEW l \in Legs, Land(e, l) \/ Refuse(e, l) PROVE IInv'
  BY <1>5, RailIInv
<1>. QED
  BY <1>1, <1>2, <1>3, <1>4, <1>5 DEF Next

\* The inductive invariant holds of every behaviour.
THEOREM Invariance == Spec => []IInv
<1>. QED
  BY InitIInv, NextIInv, PTL DEF Spec

-----------------------------------------------------------------------------
\* What the invariant says in the words of the properties.
LEMMA IInvImplies == IInv => EachLegOnce /\ CopyIsCurrent /\ ClosedIsPaid /\ AckIsHeld
<1> SUFFICES ASSUME IInv PROVE EachLegOnce /\ CopyIsCurrent /\ ClosedIsPaid /\ AckIsHeld
  OBVIOUS
<1>1. EachLegOnce
  BY DEF IInv
<1>2. CopyIsCurrent
  BY DEF IInv, CopyIsCurrent, CallInv, Exclusive
<1>3. ClosedIsPaid
  <2> SUFFICES ASSUME NEW e \in Escrows, StateOf(e) \in {"released", "refunded"}
               PROVE  /\ landed[e]["fund"] = 1
                      /\ Paid(e) = DOMAIN journal[e].plan
                      /\ StateOf(e) = "refunded" => Paid(e) = {journal[e].terms.payer}
    BY DEF ClosedIsPaid
  <2>1. Opened(e) /\ RecordInv(e) /\ journal[e] \in Record /\ StateOf(e) = journal[e].state
    BY DEF StateOf, IInv, TypeOK, Opened
  <2>2. "fund" \in Legs /\ Parties \subseteq Legs
    BY DEF Legs
  <2>3. DOMAIN journal[e].plan \subseteq Parties
    BY <2>1 DEF Record, Plans, NoPlan
  <2>4. landed[e]["fund"] = 1
    BY <2>1, <2>2 DEF RecordInv
  <2>5. \A p \in DOMAIN journal[e].plan : landed[e][p] = 1
    BY <2>1, <2>2, <2>3 DEF RecordInv
  <2>6. \A p \in Parties : p \notin DOMAIN journal[e].plan => landed[e][p] = 0
    BY <2>1, <2>2 DEF RecordInv
  <2>7. Paid(e) = DOMAIN journal[e].plan
    BY <2>3, <2>5, <2>6 DEF Paid
  <2>. QED BY <2>1, <2>4, <2>7 DEF RecordInv
<1>4. AckIsHeld
  <2> SUFFICES ASSUME NEW a \in acked
               PROVE  Opened(a[1]) /\ journal[a[1]].terms = a[2] /\ landed[a[1]]["fund"] = 1
    BY DEF AckIsHeld
  <2>1. Opened(a[1]) /\ journal[a[1]].terms = a[2] /\ journal[a[1]].attempts["fund"] = "confirmed"
    BY DEF IInv, AckInv
  <2>2. a[1] \in Escrows /\ "fund" \in Legs
    BY DEF IInv, TypeOK, Legs
  <2>. QED BY <2>1, <2>2 DEF IInv, RecordInv
<1>. QED
  BY <1>1, <1>2, <1>3, <1>4

\* Every behaviour keeps the types of the journal, the calls and the rail.
THEOREM TypeCorrect == Spec => []TypeOK
<1>1. IInv => TypeOK
  BY DEF IInv
<1>. QED
  BY <1>1, Invariance, PTL

\* No leg of any escrow is transferred twice: neither by a second call, nor
\* after a timeout whose transfer lands late, nor after a crash.
THEOREM NoDoubleTransfer == Spec => []EachLegOnce
  BY IInvImplies, Invariance, PTL

\* The copies coroutines save are never stale.
THEOREM NoLostUpdate == Spec => []CopyIsCurrent
  BY IInvImplies, Invariance, PTL

\* A released or refunded record tells the truth about the money.
THEOREM ClosedBooks == Spec => []ClosedIsPaid
  BY IInvImplies, Invariance, PTL

\* True from open_escrow means the deposit arrived, under the caller's terms.
THEOREM AckSafe == Spec => []AckIsHeld
  BY IInvImplies, Invariance, PTL

-----------------------------------------------------------------------------
\* The claim of an escrow by one operation, as a fact about one step.
Irrevocable(e) ==
  Opened(e) =>
    /\ Opened(e)' /\ journal'[e].terms = journal[e].terms
    /\ journal[e].op # "none" =>
         journal'[e].op = journal[e].op /\ journal'[e].plan = journal[e].plan
    /\ journal[e].state \in {"released", "refunded", "uncertain"} => journal'[e] = journal[e]

\* What is decided of an escrow stays decided, and closed records stay as they are.
Keeps(e) ==
  /\ Opened(e)' <=> Opened(e)
  /\ Opened(e) =>
       /\ journal'[e].terms = journal[e].terms
       /\ journal'[e].op = journal[e].op /\ journal'[e].plan = journal[e].plan
       /\ journal[e].state \in {"released", "refunded", "uncertain"} => journal'[e] = journal[e]

\* A call in progress works on a record that is not closed, and changes
\* neither its terms nor its operation and plan.
LEMMA SaveKeeps ==
  ASSUME IInv, NEW c \in Calls, call[c] # Idle, NEW rec,
         journal' = [journal EXCEPT ![call[c].e] = rec], rec # Absent,
         rec.terms = call[c].esc.terms, rec.op = call[c].esc.op, rec.plan = call[c].esc.plan,
         NEW x \in Escrows
  PROVE  Keeps(x)
<1>1. /\ call[c].e \in Escrows /\ call[c].esc = journal[call[c].e] /\ Opened(call[c].e)
      /\ journal[call[c].e].state \in {"opening", "transferring"}
  BY ActiveCall DEF CallInv
<1>2. CASE x = call[c].e
  <2>1. journal'[x] = rec
    BY <1>1, <1>2 DEF IInv, TypeOK
  <2>. QED BY <1>1, <1>2, <2>1 DEF Keeps, Opened
<1>3. CASE x # call[c].e
  BY <1>3 DEF Keeps, Opened, IInv, TypeOK
<1>. QED
  BY <1>2, <1>3

LEMMA CallStepKeeps ==
  ASSUME IInv, NEW c \in Calls, CallStep(c), NEW x \in Escrows
  PROVE  Keeps(x)
<1>1. call[c] # Idle
  BY DEF CallStep, WriteAttempt, Send, Confirmed, Unconfirmed, CommitOpen, CommitFinish
<1>2. /\ call[c] \in Call /\ call[c].leg \in Legs /\ call[c].e \in Escrows
      /\ journal[call[c].e] \in Record /\ call[c].esc = journal[call[c].e]
  BY <1>1, ActiveCall
<1>3. \A rec \in Record : rec # Absent
  BY SentinelAssumption
<1> DEFINE l == call[c].leg
<1>4. CASE WriteAttempt(c)
  <2> DEFINE new == [call[c] EXCEPT !.pc = "send", !.esc.attempts[l] = "attempting"]
             rec == [call[c].esc EXCEPT !.attempts[l] = "attempting"]
  <2>1. new.esc = rec /\ rec \in Record
    BY <1>2, RecordUpdate DEF Call
  <2>2. journal' = [journal EXCEPT ![call[c].e] = rec]
    BY <1>4, <2>1 DEF WriteAttempt, SaveAnd
  <2>3. rec.terms = call[c].esc.terms /\ rec.op = call[c].esc.op /\ rec.plan = call[c].esc.plan
    BY <1>2 DEF Record
  <2> HIDE DEF rec
  <2>. QED BY <1>1, <1>3, <2>1, <2>2, <2>3, SaveKeeps
<1>5. CASE Send(c)
  BY <1>5 DEF Send, Keeps, Opened
<1>6. CASE Confirmed(c)
  <2> DEFINE rec == [call[c].esc EXCEPT !.attempts[l] = "confirmed"]
  <2>1. rec \in Record
    BY <1>2, RecordUpdate
  <2>2. journal' = [journal EXCEPT ![call[c].e] = rec]
    <3>1. \A k : /\ [call[c] EXCEPT !.pc = "commit", !.esc = rec].esc = rec
                 /\ [call[c] EXCEPT !.pc = "attempt", !.esc = rec, !.leg = k].esc = rec
      BY <1>2 DEF Call
    <3>. QED BY <1>6, <3>1 DEF Confirmed, LegsLeft, SaveAnd
  <2>3. rec.terms = call[c].esc.terms /\ rec.op = call[c].esc.op /\ rec.plan = call[c].esc.plan
    BY <1>2 DEF Record
  <2> HIDE DEF rec
  <2>. QED BY <1>1, <1>3, <2>1, <2>2, <2>3, SaveKeeps
<1>7. CASE Unconfirmed(c)
  <2> DEFINE rec == [call[c].esc EXCEPT !.attempts[l] = "unknown", !.state = "uncertain"]
  <2>1. rec \in Record
    BY <1>2, RecordUpdate
  <2>2. journal' = [journal EXCEPT ![call[c].e] = rec]
    BY <1>7 DEF Unconfirmed, OnHold
  <2>3. rec.terms = call[c].esc.terms /\ rec.op = call[c].esc.op /\ rec.plan = call[c].esc.plan
    BY <1>2 DEF Record
  <2> HIDE DEF rec
  <2>. QED BY <1>1, <1>3, <2>1, <2>2, <2>3, SaveKeeps
<1>8. CASE CommitOpen(c)
  <2> DEFINE rec == [call[c].esc EXCEPT !.state = "open"]
  <2>1. rec \in Record
    BY <1>2 DEF Record
  <2>2. journal' = [journal EXCEPT ![call[c].e] = rec]
    BY <1>8 DEF CommitOpen
  <2>3. rec.terms = call[c].esc.terms /\ rec.op = call[c].esc.op /\ rec.plan = call[c].esc.plan
    BY <1>2 DEF Record
  <2> HIDE DEF rec
  <2>. QED BY <1>1, <1>3, <2>1, <2>2, <2>3, SaveKeeps
<1>9. CASE CommitFinish(c)
  <2>1. PICK s \in {"released", "refunded"} :
          journal' = [journal EXCEPT ![call[c].e] = [call[c].esc EXCEPT !.state = s]]
    BY <1>9 DEF CommitFinish
  <2> DEFINE rec == [call[c].esc EXCEPT !.state = s]
  <2>2. rec \in Record
    BY <1>2 DEF Record
  <2>3. rec.terms = call[c].esc.terms /\ rec.op = call[c].esc.op /\ rec.plan = call[c].esc.plan
    BY <1>2 DEF Record
  <2>4. journal' = [journal EXCEPT ![call[c].e] = rec]
    BY <2>1
  <2> HIDE DEF rec
  <2>. QED BY <1>1, <1>3, <2>2, <2>3, <2>4, SaveKeeps
<1>. QED
  BY <1>4, <1>5, <1>6, <1>7, <1>8, <1>9 DEF CallStep

LEMMA NextIrrevocable ==
  ASSUME IInv, [Next]_vars, NEW x \in Escrows
  PROVE  Irrevocable(x)
<1>1. CASE UNCHANGED journal
  BY <1>1 DEF Irrevocable, Opened
<1>2. ASSUME NEW c \in Calls, CallStep(c) PROVE Irrevocable(x)
  BY <1>2, CallStepKeeps DEF Irrevocable, Keeps
<1>3. ASSUME NEW c \in Calls, NEW e \in Escrows, NEW t \in Terms, OpenEscrow(c, e, t)
      PROVE  Irrevocable(x)
  BY <1>3 DEF OpenEscrow, Irrevocable, Opened, IInv, TypeOK
<1>4. ASSUME NEW c \in Calls, NEW e \in Escrows, NEW plan \in Plans,
             NEW op \in {"release", "refund", "split"}, BeginFinish(c, e, op, plan)
      PROVE  Irrevocable(x)
  <2> DEFINE rec == [journal[e] EXCEPT !.state = "transferring", !.op = op, !.plan = plan]
  <2>1. journal' = [journal EXCEPT ![e] = rec]
    BY <1>4 DEF BeginFinish, Finishable
  <2>2. journal[e] \in Record /\ journal[e].state = "open" /\ RecordInv(e)
    BY <1>4 DEF BeginFinish, Finishable, IInv, TypeOK, Opened
  <2>3. journal[e].op = "none" /\ rec.terms = journal[e].terms /\ rec \in Record
    BY <2>2 DEF Record, RecordInv
  <2>4. rec # Absent
    BY <2>3, SentinelAssumption
  <2>5. journal'[e] = rec /\ \A y \in Escrows \ {e} : journal'[y] = journal[y]
    BY <2>1 DEF IInv, TypeOK
  <2> HIDE DEF rec
  <2>6. CASE x = e
    BY <2>2, <2>3, <2>4, <2>5, <2>6 DEF Irrevocable, Opened
  <2>7. CASE x # e
    BY <2>5, <2>7 DEF Irrevocable, Opened
  <2>. QED BY <2>6, <2>7
<1>. QED
  BY <1>1, <1>2, <1>3, <1>4 DEF Next, vars, Crash, ReopenEscrow, Land, Refuse

\* Once claimed, an escrow keeps its operation and plan; closed and uncertain
\* escrows are never touched again.
THEOREM Irrevocability == Spec => PlanIsIrrevocable
<1>1. IInv /\ [Next]_vars => [\A e \in Escrows : Irrevocable(e)]_journal
  BY NextIrrevocable
<1>2. [\A e \in Escrows : Irrevocable(e)]_journal =>
      [\A e \in Escrows : Opened(e) =>
         /\ Opened(e)' /\ journal'[e].terms = journal[e].terms
         /\ journal[e].op # "none" =>
              journal'[e].op = journal[e].op /\ journal'[e].plan = journal[e].plan
         /\ journal[e].state \in {"released", "refunded", "uncertain"} => journal'[e] = journal[e]]_journal
  BY DEF Irrevocable
<1>. QED
  BY <1>1, <1>2, Invariance, PTL DEF Spec, PlanIsIrrevocable

(***************************************************************************)
(* The custody account.  It owns exactly what the escrows have in it: of   *)
(* an escrow whose deposit arrived, what was not paid out of its plan.     *)
(***************************************************************************)
Rows == {e \in Escrows : Opened(e)}
Unpaid(e) == [p \in DOMAIN journal[e].plan \ Paid(e) |-> journal[e].plan[p]]

Kept(e) ==
  IF landed[e]["fund"] = 0 THEN 0
  ELSE IF journal[e].op = "none" THEN journal[e].terms.amount ELSE PlanTotal(Unpaid(e))

\* A plan pays out exactly what was deposited.
PlanFits(e) == journal[e].op # "none" => PlanTotal(journal[e].plan) = journal[e].terms.amount

Books ==
  /\ IsFiniteSet(Rows) /\ \A e \in Rows : PlanFits(e)
  /\ custody = SumFunction([e \in Rows |-> Kept(e)])

\* Plans are finite, and name positive amounts.
LEMMA PlanType ==
  ASSUME IInv, NEW e \in Rows
  PROVE  /\ journal[e] \in Record /\ RecordInv(e) /\ journal[e].terms.amount \in Nat
         /\ DOMAIN journal[e].plan \subseteq Parties /\ IsFiniteSet(DOMAIN journal[e].plan)
         /\ \A p \in DOMAIN journal[e].plan : journal[e].plan[p] \in Nat
<1>1. journal[e] \in Record /\ RecordInv(e)
  BY DEF Rows, IInv, TypeOK, Opened
<1>2. journal[e].terms.amount \in Nat
  BY <1>1, VibeAssumption DEF Record
<1>3. CASE journal[e].plan = NoPlan
  BY <1>1, <1>2, <1>3, FS_EmptySet DEF NoPlan
<1>4. CASE journal[e].plan \in Plans
  <2>1. PICK S \in SUBSET Parties : IsFiniteSet(S) /\ journal[e].plan \in [S -> Amounts]
    BY <1>4 DEF Plans
  <2>2. \A p \in S : journal[e].plan[p] \in Nat
    BY <2>1, VibeAssumption
  <2>3. QED
    BY <1>1, <1>2, <2>1, <2>2
<1>5. QED
  BY <1>1, <1>3, <1>4 DEF Record

\* The money of an escrow in custody is an amount.
LEMMA KeptType ==
  ASSUME IInv, NEW e \in Rows
  PROVE  Kept(e) \in Nat
<1>1. PlanTotal(Unpaid(e)) \in Nat
  <2>1. /\ DOMAIN Unpaid(e) = DOMAIN journal[e].plan \ Paid(e)
        /\ \A p \in DOMAIN Unpaid(e) : Unpaid(e)[p] = journal[e].plan[p]
    BY DEF Unpaid
  <2>2. IsFiniteSet(DOMAIN Unpaid(e)) /\ \A p \in DOMAIN Unpaid(e) : Unpaid(e)[p] \in Nat
    BY <2>1, PlanType, FS_Subset
  <2>3. QED
    BY <2>2, SumFunctionNat DEF PlanTotal
<1>2. QED
  BY <1>1, PlanType DEF Kept

LEMMA KeptTypeNext == IInv' => (\A e \in Rows : Kept(e) \in Nat)'
<1>1. IInv => \A e \in Rows : Kept(e) \in Nat
  BY KeptType
<1>2. QED
  BY <1>1, PTL

\* It depends on what is decided of the escrow, and on the rail.
LEMMA KeptSame ==
  ASSUME NEW e, landed'[e] = landed[e],
         journal'[e].terms = journal[e].terms, journal'[e].op = journal[e].op,
         journal'[e].plan = journal[e].plan
  PROVE  Kept(e)' = Kept(e) /\ PlanFits(e)' = PlanFits(e)
<1>1. Paid(e)' = Paid(e)
  BY DEF Paid
<1>2. Unpaid(e)' = Unpaid(e)
  BY <1>1 DEF Unpaid
<1>3. PlanTotal(Unpaid(e))' = PlanTotal(Unpaid(e)) /\ PlanTotal(journal[e].plan)' = PlanTotal(journal[e].plan)
  BY <1>2 DEF PlanTotal
<1>4. QED
  BY <1>3 DEF Kept, PlanFits

\* A step that decides nothing and moves nothing leaves the books alone.
LEMMA SameBooks ==
  ASSUME IInv, Books, \A e \in Escrows : Keeps(e), UNCHANGED <<landed, custody>>
  PROVE  Books'
<1>1. Rows' = Rows
  BY DEF Rows, Keeps
<1>2. \A e \in Rows : Kept(e)' = Kept(e) /\ PlanFits(e)' = PlanFits(e)
  <2> SUFFICES ASSUME NEW e \in Rows PROVE Kept(e)' = Kept(e) /\ PlanFits(e)' = PlanFits(e)
    OBVIOUS
  <2>1. /\ journal'[e].terms = journal[e].terms /\ journal'[e].op = journal[e].op
        /\ journal'[e].plan = journal[e].plan
    BY DEF Keeps, Rows
  <2>2. QED
    BY <2>1, KeptSame
<1>3. [e \in Rows |-> Kept(e)]' = [e \in Rows |-> Kept(e)]
  BY <1>1, <1>2
<1>4. SumFunction([e \in Rows |-> Kept(e)])' = SumFunction([e \in Rows |-> Kept(e)])
  BY <1>3
<1>5. QED
  BY <1>1, <1>2, <1>4 DEF Books

\* A step on one row changes the sum by the change of that row.
LEMMA OneRow ==
  ASSUME IInv, IInv', Books, Rows' = Rows, NEW e \in Rows, PlanFits(e)',
         \A x \in Rows \ {e} : journal'[x] = journal[x] /\ landed'[x] = landed[x],
         custody' = custody + Kept(e)' - Kept(e)
  PROVE  Books'
<1> DEFINE f == [x \in Rows |-> Kept(x)]
           g == [x \in Rows |-> Kept(x)']
<1>1. \A x \in Rows : Kept(x) \in Nat
  BY KeptType
<1>2. \A x \in Rows' : Kept(x)' \in Nat
  BY KeptTypeNext
<1>3. \A x \in Rows \ {e} : Kept(x)' = Kept(x) /\ PlanFits(x)' = PlanFits(x)
  BY KeptSame
<1>4. DOMAIN f = Rows /\ DOMAIN g = Rows /\ f[e] = Kept(e) /\ g[e] = Kept(e)'
  OBVIOUS
<1>5. \A x \in Rows : f[x] \in Int /\ g[x] \in Int
  BY <1>1, <1>2
<1>6. \A x \in Rows \ {e} : g[x] = f[x]
  BY <1>3
<1>7. IsFiniteSet(DOMAIN f) /\ custody = SumFunction(f)
  BY <1>4 DEF Books
<1>8. (custody = SumFunction([x \in Rows |-> Kept(x)]))' <=> custody' = SumFunction(g)
  OBVIOUS
<1> HIDE DEF f, g
<1>9. SumFunction(g) = SumFunction(f) + g[e] - f[e]
  BY <1>4, <1>5, <1>6, <1>7, SumFunctionChange
<1>10. custody' = SumFunction(g)
  BY <1>4, <1>7, <1>9
<1>11. QED
  BY <1>3, <1>8, <1>10 DEF Books

LEMMA InitBooks == Init => Books
<1> SUFFICES ASSUME Init PROVE Books
  OBVIOUS
<1>1. Rows = {}
  BY DEF Init, Rows, Opened
<1>2. SumFunction([e \in Rows |-> Kept(e)]) = 0
  <2> DEFINE f == [e \in Rows |-> Kept(e)]
  <2>1. DOMAIN f = {}
    BY <1>1
  <2> HIDE DEF f
  <2>2. SumFunction(f) = 0
    BY <2>1, SumDomain, SumEmpty
  <2>3. QED
    BY <2>2 DEF f
<1>3. QED
  BY <1>1, <1>2, FS_EmptySet DEF Books, Init

LEMMA OpenEscrowBooks ==
  ASSUME IInv, IInv', Books, NEW c \in Calls, NEW e \in Escrows, NEW t \in Terms, OpenEscrow(c, e, t)
  PROVE  Books'
<1> DEFINE f == [x \in Rows |-> Kept(x)]
           g == [x \in Rows \cup {e} |-> Kept(x)']
<1>1. /\ e \notin Rows /\ journal'[e].op = "none" /\ journal'[e] # Absent
      /\ \A x \in Escrows \ {e} : journal'[x] = journal[x]
      /\ UNCHANGED <<landed, custody>>
  <2> DEFINE esc == [state |-> "opening", terms |-> t, op |-> "none", plan |-> NoPlan,
                     attempts |-> [l \in Legs |-> "none"]]
  <2>1. esc \in Record
    BY DEF Record
  <2>2. journal' = [journal EXCEPT ![e] = esc] /\ ~Opened(e)
    BY DEF OpenEscrow, Opened
  <2>3. journal'[e] = esc /\ esc.op = "none"
    BY <2>2 DEF IInv, TypeOK
  <2> HIDE DEF esc
  <2>4. QED
    BY <2>1, <2>2, <2>3, SentinelAssumption DEF OpenEscrow, rail, IInv, TypeOK, Rows
<1>2. Rows' = Rows \cup {e}
  BY <1>1 DEF Rows, Opened
<1>3. landed[e]["fund"] = 0
  <2>1. UnopenedInv(e)
    BY <1>1 DEF IInv, Rows
  <2>2. QED
    BY <2>1 DEF UnopenedInv, Legs
<1>4. Kept(e)' = 0 /\ PlanFits(e)'
  BY <1>1, <1>3 DEF Kept, PlanFits
<1>5. \A x \in Rows : Kept(x) \in Nat /\ Kept(x)' = Kept(x) /\ PlanFits(x)' = PlanFits(x)
  BY <1>1, KeptSame, KeptType DEF Rows
<1>6. /\ DOMAIN f = Rows /\ DOMAIN g = Rows \cup {e} /\ g[e] = 0 /\ e \notin DOMAIN f
      /\ \A x \in Rows : g[x] = f[x] /\ f[x] \in Int
  BY <1>1, <1>4, <1>5
<1>7. IsFiniteSet(DOMAIN f) /\ custody = SumFunction(f)
  BY <1>6 DEF Books
<1>8. (custody = SumFunction([x \in Rows |-> Kept(x)]))' <=> custody' = SumFunction(g)
  BY <1>2
<1> HIDE DEF f, g
<1>9. SumFunction(g) = SumFunction(f) + g[e]
  BY <1>6, <1>7, SumFunctionGrows
<1>10. custody' = SumFunction(g)
  <2>1. custody \in Nat
    BY DEF IInv, TypeOK
  <2>2. QED
    BY <1>1, <1>6, <1>7, <1>9, <2>1
<1>11. IsFiniteSet(Rows')
  BY <1>2, <1>6, <1>7, FS_AddElement
<1>12. \A x \in Rows' : PlanFits(x)'
  BY <1>2, <1>4, <1>5 DEF Books
<1>13. QED
  BY <1>8, <1>10, <1>11, <1>12 DEF Books

\* The claim of an escrow only says how the whole deposit will leave.
LEMMA BeginFinishBooks ==
  ASSUME IInv, IInv', Books, NEW c \in Calls, NEW e \in Escrows, NEW plan \in Plans,
         NEW op \in {"release", "refund", "split"}, BeginFinish(c, e, op, plan)
  PROVE  Books'
<1>1. /\ journal[e] \in Record /\ RecordInv(e) /\ e \in Rows /\ journal[e].state = "open"
      /\ PlanTotal(plan) = journal[e].terms.amount
  BY DEF BeginFinish, Finishable, ValidPlan, IInv, TypeOK, Opened, Rows
<1>2. /\ journal'[e].terms = journal[e].terms /\ journal'[e].op = op /\ journal'[e].plan = plan
      /\ \A x \in Escrows \ {e} : journal'[x] = journal[x]
      /\ journal'[e] # Absent /\ UNCHANGED <<landed, custody>>
  <2> DEFINE esc == [journal[e] EXCEPT !.state = "transferring", !.op = op, !.plan = plan]
  <2>1. esc \in Record /\ esc.terms = journal[e].terms /\ esc.op = op /\ esc.plan = plan
    BY <1>1 DEF Record
  <2>2. journal' = [journal EXCEPT ![e] = esc] /\ UNCHANGED <<landed, custody>>
    BY DEF BeginFinish, Finishable, rail
  <2>3. journal'[e] = esc
    BY <2>2 DEF IInv, TypeOK
  <2> HIDE DEF esc
  <2>4. QED
    BY <2>1, <2>2, <2>3, SentinelAssumption DEF IInv, TypeOK
<1>3. Rows' = Rows
  BY <1>1, <1>2 DEF Rows, Opened
<1>4. landed[e]["fund"] = 1 /\ Paid(e) = {} /\ journal[e].op = "none"
  <2>1. journal[e].op = "none" /\ journal[e].plan = NoPlan /\ journal[e].attempts["fund"] = "confirmed"
    BY <1>1 DEF RecordInv
  <2>2. landed[e]["fund"] = 1
    BY <1>1, <2>1 DEF RecordInv, Legs
  <2>3. \A p \in Parties : journal[e].attempts[p] = "none"
    BY <1>1, <2>1 DEF RecordInv, NoPlan
  <2>4. \A p \in Parties : landed[e][p] = 0
    BY <1>1, <2>3 DEF RecordInv, Legs
  <2>5. QED
    BY <2>1, <2>2, <2>4 DEF Paid
<1>5. Kept(e) = journal[e].terms.amount
  BY <1>4 DEF Kept
<1>6. Kept(e)' = PlanTotal(plan)
  <2>1. Paid(e)' = {}
    BY <1>2, <1>4 DEF Paid
  <2>2. Unpaid(e)' = plan
    BY <1>2, <2>1 DEF Unpaid, Plans
  <2>3. PlanTotal(Unpaid(e))' = PlanTotal(plan)
    BY <2>2 DEF PlanTotal
  <2>4. QED
    BY <1>2, <1>4, <2>3 DEF Kept
<1>7. PlanFits(e)'
  <2>1. PlanTotal(journal[e].plan)' = PlanTotal(plan)
    BY <1>2 DEF PlanTotal
  <2>2. QED
    BY <1>1, <1>2, <2>1 DEF PlanFits
<1>8. \A x \in Rows \ {e} : journal'[x] = journal[x] /\ landed'[x] = landed[x]
  BY <1>2 DEF Rows
<1>9. custody' = custody + Kept(e)' - Kept(e)
  BY <1>1, <1>2, <1>5, <1>6, PlanType DEF IInv, TypeOK
<1>10. QED
  BY <1>1, <1>3, <1>7, <1>8, <1>9, OneRow

\* A deposit adds what the terms say, a payout takes its part of the plan.
LEMMA LandBooks ==
  ASSUME IInv, IInv', Books, NEW e \in Escrows, NEW leg \in Legs, Land(e, leg)
  PROVE  Books'
<1>1. e \in Rows /\ RecordInv(e) /\ journal[e] \in Record /\ inflight[e][leg] > 0
  BY DEF Land, Rows, IInv, TypeOK, Opened, UnopenedInv
<1>2. landed[e][leg] = 0 /\ journal[e].attempts[leg] # "none" /\ journal[e].attempts[leg] # "confirmed"
  <2>1. inflight[e][leg] + landed[e][leg] <= 1 /\ inflight[e][leg] \in Nat /\ landed[e][leg] \in Nat
    BY DEF IInv, EachLegOnce, TypeOK
  <2>2. QED
    BY <1>1, <2>1 DEF RecordInv
<1>3. /\ UNCHANGED journal /\ landed'[e][leg] = 1
      /\ \A l \in Legs \ {leg} : landed'[e][l] = landed[e][l]
      /\ \A x \in Escrows \ {e} : landed'[x] = landed[x]
  BY <1>2 DEF Land, IInv, TypeOK
<1>4. Rows' = Rows
  BY <1>3 DEF Rows, Opened
<1>5. PlanFits(e)' /\ \A x \in Rows \ {e} : journal'[x] = journal[x] /\ landed'[x] = landed[x]
  <2>1. PlanTotal(journal[e].plan)' = PlanTotal(journal[e].plan)
    BY <1>3 DEF PlanTotal
  <2>2. QED
    BY <1>1, <1>3, <2>1 DEF Books, PlanFits, Rows
<1>6. CASE leg = "fund"
  <2>1. journal[e].op = "none"
    BY <1>1, <1>2, <1>6 DEF RecordInv
  <2>2. Kept(e) = 0 /\ Kept(e)' = journal[e].terms.amount
    BY <1>2, <1>3, <1>6, <2>1 DEF Kept
  <2>3. custody' = custody + journal[e].terms.amount
    BY <1>6 DEF Land, AmountOf
  <2>4. custody' = custody + Kept(e)' - Kept(e)
    BY <1>1, <2>2, <2>3, PlanType DEF IInv, TypeOK
  <2>5. QED
    BY <1>1, <1>4, <1>5, <2>4, OneRow
<1>7. CASE leg # "fund"
  <2> DEFINE f == Unpaid(e)
             g == [p \in DOMAIN f \ {leg} |-> f[p]]
             plan == journal[e].plan
  <2>1. leg \in Parties /\ leg \in DOMAIN plan
    BY <1>1, <1>2, <1>7 DEF RecordInv, Legs
  <2>2. journal[e].op # "none" /\ landed[e]["fund"] = 1 /\ landed'[e]["fund"] = 1
    <3>1. journal[e].op # "none"
      BY <1>1, <2>1 DEF RecordInv, NoPlan
    <3>2. landed[e]["fund"] = 1
      BY <1>1, <3>1 DEF RecordInv, Legs
    <3>3. QED
      BY <1>3, <1>7, <3>1, <3>2 DEF Legs
  <2>3. Paid(e)' = Paid(e) \cup {leg} /\ leg \notin Paid(e)
    <3>1. leg \notin Paid(e) /\ leg \in Paid(e)'
      BY <1>2, <1>3, <2>1 DEF Paid
    <3>2. \A p \in Parties \ {leg} : landed'[e][p] = landed[e][p]
      BY <1>3 DEF Legs
    <3>3. QED
      BY <2>1, <3>1, <3>2 DEF Paid
  <2>4. DOMAIN f = DOMAIN plan \ Paid(e) /\ leg \in DOMAIN f /\ f[leg] = plan[leg]
    BY <2>1, <2>3 DEF Unpaid
  <2>5. Unpaid(e)' = g
    BY <1>3, <2>3, <2>4 DEF Unpaid
  <2>6. IsFiniteSet(DOMAIN f) /\ \A p \in DOMAIN f : f[p] \in Nat
    BY <1>1, <2>4, PlanType, FS_Subset DEF Unpaid
  <2>7. /\ leg \notin DOMAIN g /\ DOMAIN f = DOMAIN g \cup {leg}
        /\ IsFiniteSet(DOMAIN g)
        /\ \A p \in DOMAIN g : f[p] = g[p] /\ g[p] \in Int
    BY <2>4, <2>6, FS_Subset
  <2>8. PlanTotal(Unpaid(e)') = PlanTotal(g) /\ Kept(e) = PlanTotal(f)
    BY <2>2, <2>5 DEF Kept
  <2>9. Kept(e)' = PlanTotal(g)
    BY <1>3, <2>2, <2>5 DEF Kept, PlanTotal
  <2>10. custody' = custody - plan[leg] /\ custody \in Nat /\ plan[leg] \in Nat
    BY <1>1, <1>7, <2>1, PlanType DEF Land, AmountOf, IInv, TypeOK
  <2> HIDE DEF f, g
  <2>11. PlanTotal(f) = PlanTotal(g) + f[leg] /\ PlanTotal(g) \in Int
    <3>1. SumFunction(f) = SumFunction(g) + f[leg]
      BY <2>4, <2>6, <2>7, SumFunctionGrows
    <3>2. SumFunction(g) \in Nat
      BY <2>6, <2>7, SumFunctionNat
    <3>3. QED
      BY <3>1, <3>2 DEF PlanTotal
  <2>12. custody' = custody + Kept(e)' - Kept(e)
    BY <2>4, <2>8, <2>9, <2>10, <2>11
  <2>13. QED
    BY <1>1, <1>4, <1>5, <2>12, OneRow
<1>8. QED
  BY <1>6, <1>7

\* No step cooks the books.
LEMMA NextBooks == IInv /\ IInv' /\ Books /\ [Next]_vars => Books'
<1> SUFFICES ASSUME IInv, IInv', Books, [Next]_vars PROVE Books'
  OBVIOUS
<1>1. ASSUME NEW c \in Calls, CallStep(c) PROVE Books'
  <2>1. UNCHANGED <<landed, custody>>
    BY <1>1 DEF CallStep, WriteAttempt, Send, Confirmed, Unconfirmed, CommitOpen, CommitFinish, rail
  <2>2. QED
    BY <1>1, <2>1, CallStepKeeps, SameBooks
<1>2. ASSUME NEW c \in Calls, NEW e \in Escrows, NEW t \in Terms, OpenEscrow(c, e, t) PROVE Books'
  BY <1>2, OpenEscrowBooks
<1>3. ASSUME NEW c \in Calls, NEW e \in Escrows, NEW plan \in Plans,
             NEW op \in {"release", "refund", "split"}, BeginFinish(c, e, op, plan) PROVE Books'
  BY <1>3, BeginFinishBooks
<1>4. ASSUME NEW e \in Escrows, NEW leg \in Legs, Land(e, leg) PROVE Books'
  BY <1>4, LandBooks
<1>5. CASE UNCHANGED <<journal, landed, custody>>
  <2>1. \A e \in Escrows : Keeps(e)
    BY <1>5 DEF Keeps, Opened
  <2>2. QED
    BY <1>5, <2>1, SameBooks
<1>6. QED
  BY <1>1, <1>2, <1>3, <1>4, <1>5 DEF Next, vars, rail, Crash, ReopenEscrow, Refuse

\* What an escrow is owed is in custody in its name, so the pooled account
\* covers all of them: no escrow is paid with the money of another.
THEOREM CustodyCovers == Spec => []CustodyCoversHolds
<1>1. IInv /\ Books => CustodyCoversHolds
  <2> SUFFICES ASSUME IInv, Books PROVE CustodyCoversHolds
    OBVIOUS
  <2> DEFINE f == [e \in Rows |-> Owed(e)]
             g == [e \in Rows |-> Kept(e)]
  <2>1. ASSUME NEW e \in Rows PROVE Owed(e) \in Nat /\ Owed(e) <= Kept(e)
    <3>1. RecordInv(e) /\ Kept(e) \in Nat /\ StateOf(e) = journal[e].state
      BY PlanType, KeptType DEF StateOf, Rows
    <3>2. CASE StateOf(e) = "open"
      <4>1. journal[e].op = "none" /\ landed[e]["fund"] = 1
        BY <3>1, <3>2 DEF RecordInv, Legs
      <4>2. QED
        BY <3>1, <3>2, <4>1 DEF Owed, Kept
    <3>3. CASE StateOf(e) = "transferring"
      <4>1. journal[e].op # "none" /\ landed[e]["fund"] = 1
        BY <3>1, <3>3 DEF RecordInv, Legs
      <4>2. Kept(e) = PlanTotal(Unpaid(e))
        BY <4>1 DEF Kept
      <4>3. QED
        BY <3>1, <3>3, <4>2 DEF Owed, Unpaid
    <3>4. CASE StateOf(e) \notin {"open", "transferring"}
      BY <3>1, <3>4 DEF Owed
    <3>5. QED
      BY <3>2, <3>3, <3>4
  <2>2. /\ DOMAIN f = Rows /\ DOMAIN g = Rows /\ IsFiniteSet(Rows) /\ custody = SumFunction(g)
        /\ \A e \in Rows : f[e] \in Int /\ g[e] \in Int /\ f[e] <= g[e]
    BY <2>1, KeptType DEF Books
  <2>3. CustodyCoversHolds <=> custody >= SumFunction(f)
    BY DEF CustodyCoversHolds, Rows
  <2> HIDE DEF f, g
  <2>4. SumFunctionOnSet(f, Rows) <= SumFunctionOnSet(g, Rows)
    BY <2>2, SumMonotone
  <2>5. SumFunctionOnSet(f, Rows) \in Int /\ SumFunctionOnSet(g, Rows) \in Int
    BY <2>2, SumType
  <2>6. QED
    BY <2>2, <2>3, <2>4, <2>5, SumDomain
<1>2. Spec => []Books
  <2>1. IInv /\ Books /\ [Next]_vars => Books'
    BY NextIInv, NextBooks
  <2>2. QED
    BY <2>1, InitBooks, Invariance, PTL DEF Spec
<1>3. QED
  BY <1>1, <1>2, Invariance, PTL

(***************************************************************************)
(* VibeEscrow implements EscrowPromise: every step of the journal and of   *)
(* the rail is one step of the promise, or leaves it unchanged.            *)
(***************************************************************************)
\* The abstract state of one escrow.
OpOf(e) == IF Opened(e) THEN journal[e].op ELSE "none"
PlanOf(e) == IF Opened(e) THEN DOMAIN journal[e].plan ELSE {}
Funded(e) == landed[e]["fund"] > 0
Same(e) ==
  /\ StateOf(e)' = StateOf(e) /\ OpOf(e)' = OpOf(e) /\ PlanOf(e)' = PlanOf(e)
  /\ Funded(e)' = Funded(e) /\ Paid(e)' = Paid(e)

LEMMA SameAll ==
  ASSUME \A e \in Escrows : Same(e)
  PROVE  UNCHANGED Promise!vars
  BY DEF Promise!vars, Same, OpOf, PlanOf, Funded

\* A step that keeps record and landings of an escrow keeps its abstract state.
LEMMA SameKept ==
  ASSUME NEW e, journal'[e] = journal[e], landed'[e] = landed[e]
  PROVE  Same(e)
  BY DEF Same, StateOf, OpOf, PlanOf, Funded, Paid, Opened

LEMMA InitRefines == Init => Promise!Init
<1> SUFFICES ASSUME Init PROVE Promise!Init
  OBVIOUS
<1>1. \A e \in Escrows : /\ StateOf(e) = "none" /\ ~Opened(e) /\ Paid(e) = {}
                         /\ ~(landed[e]["fund"] > 0)
  BY DEF Init, StateOf, Opened, Paid, Legs
<1>2. \A e \in Escrows : (landed[e]["fund"] > 0) = FALSE
  BY <1>1
<1>3. [e \in Escrows |-> landed[e]["fund"] > 0] = [e \in Escrows |-> FALSE]
  BY <1>2
<1>. QED
  BY <1>1, <1>3 DEF Promise!Init

\* The abstract state of all escrows.
aPhase == [e \in Escrows |-> StateOf(e)]
aFunded == [e \in Escrows |-> landed[e]["fund"] > 0]
aOp == [e \in Escrows |-> IF Opened(e) THEN journal[e].op ELSE "none"]
aPlan == [e \in Escrows |-> IF Opened(e) THEN DOMAIN journal[e].plan ELSE {}]
aPaid == [e \in Escrows |-> Paid(e)]

LEMMA MapOne ==
  ASSUME NEW e \in Escrows, \A x \in Escrows \ {e} : Same(x)
  PROVE  /\ aPhase' = [aPhase EXCEPT ![e] = StateOf(e)'] /\ aPhase[e] = StateOf(e)
         /\ aFunded' = [aFunded EXCEPT ![e] = Funded(e)'] /\ aFunded[e] = Funded(e)
         /\ aOp' = [aOp EXCEPT ![e] = OpOf(e)'] /\ aOp[e] = OpOf(e)
         /\ aPlan' = [aPlan EXCEPT ![e] = PlanOf(e)'] /\ aPlan[e] = PlanOf(e)
         /\ aPaid' = [aPaid EXCEPT ![e] = Paid(e)'] /\ aPaid[e] = Paid(e)
         /\ StateOf(e)' = StateOf(e) => aPhase' = aPhase
         /\ Funded(e)' = Funded(e) => aFunded' = aFunded
         /\ OpOf(e)' = OpOf(e) => aOp' = aOp
         /\ PlanOf(e)' = PlanOf(e) => aPlan' = aPlan
         /\ Paid(e)' = Paid(e) => aPaid' = aPaid
  BY DEF Same, Funded, OpOf, PlanOf, aPhase, aFunded, aOp, aPlan, aPaid

\* One lemma per action of the promise: what has to be shown at the escrow.
LEMMA ToReserve ==
  ASSUME NEW e \in Escrows, \A x \in Escrows \ {e} : Same(x),
         StateOf(e) = "none", StateOf(e)' = "opening",
         UNCHANGED <<OpOf(e), PlanOf(e), Funded(e), Paid(e)>>
  PROVE  Promise!Next
<1>1. /\ aPhase[e] = "none" /\ aPhase' = [aPhase EXCEPT ![e] = "opening"]
      /\ UNCHANGED <<aFunded, aOp, aPlan, aPaid>>
  BY MapOne
<1>2. Promise!Reserve(e)
  BY <1>1 DEF Promise!Reserve, aPhase, aFunded, aOp, aPlan, aPaid
<1>. QED BY <1>2 DEF Promise!Next

LEMMA ToDeposit ==
  ASSUME NEW e \in Escrows, \A x \in Escrows \ {e} : Same(x),
         StateOf(e) \in {"opening", "uncertain"}, ~Funded(e), Funded(e)',
         UNCHANGED <<StateOf(e), OpOf(e), PlanOf(e), Paid(e)>>
  PROVE  Promise!Next
<1>1. /\ aPhase[e] \in {"opening", "uncertain"} /\ ~aFunded[e]
      /\ aFunded' = [aFunded EXCEPT ![e] = TRUE]
      /\ UNCHANGED <<aPhase, aOp, aPlan, aPaid>>
  <2>1. Funded(e)' = TRUE
    BY DEF Funded
  <2>. QED BY <2>1, MapOne
<1>2. Promise!Deposit(e)
  BY <1>1 DEF Promise!Deposit, aPhase, aFunded, aOp, aPlan, aPaid
<1>. QED BY <1>2 DEF Promise!Next

LEMMA ToHold ==
  ASSUME NEW e \in Escrows, \A x \in Escrows \ {e} : Same(x),
         StateOf(e) = "opening", Funded(e), StateOf(e)' = "open",
         UNCHANGED <<OpOf(e), PlanOf(e), Funded(e), Paid(e)>>
  PROVE  Promise!Next
<1>1. /\ aPhase[e] = "opening" /\ aFunded[e] /\ aPhase' = [aPhase EXCEPT ![e] = "open"]
      /\ UNCHANGED <<aFunded, aOp, aPlan, aPaid>>
  BY MapOne
<1>2. Promise!Hold(e)
  BY <1>1 DEF Promise!Hold, aPhase, aFunded, aOp, aPlan, aPaid
<1>. QED BY <1>2 DEF Promise!Next

LEMMA ToCommit ==
  ASSUME NEW e \in Escrows, \A x \in Escrows \ {e} : Same(x),
         StateOf(e) = "open", StateOf(e)' = "transferring",
         OpOf(e)' \in {"release", "refund", "split"}, PlanOf(e)' \in (SUBSET Parties) \ {{}},
         UNCHANGED <<Funded(e), Paid(e)>>
  PROVE  Promise!Next
<1>1. PICK o \in {"release", "refund", "split"}, S \in (SUBSET Parties) \ {{}} :
        OpOf(e)' = o /\ PlanOf(e)' = S
  OBVIOUS
<1>2. /\ aPhase[e] = "open" /\ aPhase' = [aPhase EXCEPT ![e] = "transferring"]
      /\ aOp' = [aOp EXCEPT ![e] = o] /\ aPlan' = [aPlan EXCEPT ![e] = S]
      /\ UNCHANGED <<aFunded, aPaid>>
  BY <1>1, MapOne
<1>3. Promise!Commit(e, o, S)
  BY <1>2 DEF Promise!Commit, Promise!Ops, aPhase, aFunded, aOp, aPlan, aPaid
<1>. QED BY <1>3 DEF Promise!Next, Promise!Ops

LEMMA ToPay ==
  ASSUME NEW e \in Escrows, \A x \in Escrows \ {e} : Same(x),
         StateOf(e) \in {"transferring", "uncertain"},
         NEW p \in Parties, p \in PlanOf(e) \ Paid(e), Paid(e)' = Paid(e) \cup {p},
         UNCHANGED <<StateOf(e), OpOf(e), PlanOf(e), Funded(e)>>
  PROVE  Promise!Next
<1>1. /\ aPhase[e] \in {"transferring", "uncertain"} /\ p \in aPlan[e] \ aPaid[e]
      /\ aPaid' = [aPaid EXCEPT ![e] = aPaid[e] \cup {p}]
      /\ UNCHANGED <<aPhase, aFunded, aOp, aPlan>>
  BY MapOne
<1>2. Promise!Pay(e, p)
  BY <1>1 DEF Promise!Pay, aPhase, aFunded, aOp, aPlan, aPaid
<1>. QED BY <1>2 DEF Promise!Next

LEMMA ToClose ==
  ASSUME NEW e \in Escrows, \A x \in Escrows \ {e} : Same(x),
         StateOf(e) = "transferring", Paid(e) = PlanOf(e),
         StateOf(e)' = IF OpOf(e) = "refund" THEN "refunded" ELSE "released",
         UNCHANGED <<OpOf(e), PlanOf(e), Funded(e), Paid(e)>>
  PROVE  Promise!Next
<1>1. /\ aPhase[e] = "transferring" /\ aPaid[e] = aPlan[e]
      /\ aPhase' = [aPhase EXCEPT ![e] = IF aOp[e] = "refund" THEN "refunded" ELSE "released"]
      /\ UNCHANGED <<aFunded, aOp, aPlan, aPaid>>
  BY MapOne
<1>2. Promise!Close(e)
  BY <1>1 DEF Promise!Close, aPhase, aFunded, aOp, aPlan, aPaid
<1>. QED BY <1>2 DEF Promise!Next

LEMMA ToDoubt ==
  ASSUME NEW e \in Escrows, \A x \in Escrows \ {e} : Same(x),
         StateOf(e) \in {"opening", "transferring"}, StateOf(e)' = "uncertain",
         UNCHANGED <<OpOf(e), PlanOf(e), Funded(e), Paid(e)>>
  PROVE  Promise!Next
<1>1. /\ aPhase[e] \in {"opening", "transferring"} /\ aPhase' = [aPhase EXCEPT ![e] = "uncertain"]
      /\ UNCHANGED <<aFunded, aOp, aPlan, aPaid>>
  BY MapOne
<1>2. Promise!Doubt(e)
  BY <1>1 DEF Promise!Doubt, aPhase, aFunded, aOp, aPlan, aPaid
<1>. QED BY <1>2 DEF Promise!Next

-----------------------------------------------------------------------------
\* Opened escrows: the abstract state read off the record.
LEMMA ReadOff ==
  ASSUME IInv, NEW e \in Escrows, Opened(e)
  PROVE  /\ journal[e] \in Record /\ RecordInv(e)
         /\ StateOf(e) = journal[e].state /\ OpOf(e) = journal[e].op
         /\ PlanOf(e) = DOMAIN journal[e].plan /\ PlanOf(e) \subseteq Parties
         /\ journal[e].op = "none" => PlanOf(e) = {}
<1>1. journal[e] \in Record /\ RecordInv(e)
  BY DEF IInv, TypeOK, Opened
<1>2. DOMAIN journal[e].plan \subseteq Parties
  BY <1>1 DEF Record, Plans, NoPlan
<1>. QED
  BY <1>1, <1>2 DEF StateOf, OpOf, PlanOf, RecordInv, NoPlan

\* A save that changes only the attempts and the state of a record.
LEMMA SaveMaps ==
  ASSUME IInv, NEW e \in Escrows, Opened(e), NEW rec \in Record,
         journal' = [journal EXCEPT ![e] = rec], landed' = landed,
         rec.op = journal[e].op, rec.plan = journal[e].plan
  PROVE  /\ \A x \in Escrows \ {e} : Same(x)
         /\ StateOf(e) = journal[e].state /\ StateOf(e)' = rec.state
         /\ UNCHANGED <<OpOf(e), PlanOf(e), Funded(e), Paid(e)>>
<1>1. journal'[e] = rec /\ \A x \in Escrows \ {e} : journal'[x] = journal[x]
  BY DEF IInv, TypeOK
<1>2. rec # Absent
  BY SentinelAssumption
<1>3. \A x \in Escrows \ {e} : Same(x)
  BY <1>1, SameKept
<1>. QED
  BY <1>1, <1>2, <1>3 DEF StateOf, OpOf, PlanOf, Funded, Paid, Opened

LEMMA SaveSame ==
  ASSUME IInv, NEW e \in Escrows, Opened(e), NEW rec \in Record,
         journal' = [journal EXCEPT ![e] = rec], landed' = landed,
         rec.op = journal[e].op, rec.plan = journal[e].plan, rec.state = journal[e].state
  PROVE  UNCHANGED Promise!vars
<1>1. \A x \in Escrows : Same(x)
  BY SaveMaps DEF Same
<1>. QED
  BY <1>1, SameAll

LEMMA CallStepRefines ==
  ASSUME IInv, NEW c \in Calls, CallStep(c)
  PROVE  [Promise!Next]_(Promise!vars)
<1>1. call[c] # Idle
  BY DEF CallStep, WriteAttempt, Send, Confirmed, Unconfirmed, CommitOpen, CommitFinish
<1> PICK e \in Escrows, l \in Legs : e = call[c].e /\ l = call[c].leg
  BY <1>1, ActiveCall
<1>2. /\ call[c] \in Call /\ CallInv(c) /\ Opened(e) /\ RecordInv(e)
      /\ journal[e] \in Record /\ call[c].esc = journal[e]
  BY <1>1, ActiveCall
<1>3. CASE WriteAttempt(c)
  <2> DEFINE rec == [journal[e] EXCEPT !.attempts[l] = "attempting"]
  <2>1. rec \in Record
    BY <1>2, RecordUpdate
  <2>2. [call[c] EXCEPT !.pc = "send", !.esc.attempts[l] = "attempting"].esc = rec
    BY <1>2 DEF Call
  <2>3. journal' = [journal EXCEPT ![e] = rec] /\ landed' = landed
    BY <1>3, <2>2 DEF WriteAttempt, SaveAnd, rail
  <2>4. rec.op = journal[e].op /\ rec.plan = journal[e].plan /\ rec.state = journal[e].state
    BY <1>2 DEF Record
  <2> HIDE DEF rec
  <2>. QED BY <1>2, <2>1, <2>3, <2>4, SaveSame
<1>4. CASE Send(c)
  <2>1. \A x \in Escrows : Same(x)
    BY <1>4, SameKept DEF Send
  <2>. QED BY <2>1, SameAll
<1>5. CASE Confirmed(c)
  <2> DEFINE rec == [journal[e] EXCEPT !.attempts[l] = "confirmed"]
  <2>1. rec \in Record
    BY <1>2, RecordUpdate
  <2> DEFINE esc == [call[c].esc EXCEPT !.attempts[call[c].leg] = "confirmed"]
  <2>2. esc = rec
    BY <1>2
  <2>3. journal' = [journal EXCEPT ![e] = rec] /\ landed' = landed
    <3>1. \A k : /\ [call[c] EXCEPT !.pc = "commit", !.esc = esc].esc = esc
                 /\ [call[c] EXCEPT !.pc = "attempt", !.esc = esc, !.leg = k].esc = esc
      BY <1>2 DEF Call
    <3>2. journal' = [journal EXCEPT ![call[c].e] = esc]
      BY <1>5, <3>1 DEF Confirmed, LegsLeft, SaveAnd
    <3> HIDE DEF esc, rec
    <3>. QED BY <1>5, <2>2, <3>2 DEF Confirmed, LegsLeft, rail
  <2>4. rec.op = journal[e].op /\ rec.plan = journal[e].plan /\ rec.state = journal[e].state
    BY <1>2 DEF Record
  <2> HIDE DEF rec
  <2>. QED BY <1>2, <2>1, <2>3, <2>4, SaveSame
<1>6. CASE Unconfirmed(c)
  <2> DEFINE rec == [journal[e] EXCEPT !.attempts[l] = "unknown", !.state = "uncertain"]
  <2>1. rec \in Record
    BY <1>2, RecordUpdate
  <2>2. journal' = [journal EXCEPT ![e] = rec] /\ landed' = landed
    BY <1>2, <1>6 DEF Unconfirmed, OnHold, rail
  <2>3. rec.op = journal[e].op /\ rec.plan = journal[e].plan /\ rec.state = "uncertain"
    BY <1>2 DEF Record
  <2>4. journal[e].state \in {"opening", "transferring"}
    BY <1>2 DEF CallInv
  <2> HIDE DEF rec
  <2>5. /\ \A x \in Escrows \ {e} : Same(x)
        /\ StateOf(e) \in {"opening", "transferring"} /\ StateOf(e)' = "uncertain"
        /\ UNCHANGED <<OpOf(e), PlanOf(e), Funded(e), Paid(e)>>
    BY <1>2, <2>1, <2>2, <2>3, <2>4, SaveMaps
  <2>. QED BY <2>5, ToDoubt
<1>7. CASE CommitOpen(c)
  <2> DEFINE rec == [journal[e] EXCEPT !.state = "open"]
  <2>1. rec \in Record
    BY <1>2 DEF Record
  <2>2. journal' = [journal EXCEPT ![e] = rec] /\ landed' = landed
    BY <1>2, <1>7 DEF CommitOpen, rail
  <2>3. rec.op = journal[e].op /\ rec.plan = journal[e].plan /\ rec.state = "open"
    BY <1>2 DEF Record
  <2>4. journal[e].state = "opening" /\ journal[e].attempts["fund"] = "confirmed" /\ "fund" \in Legs
    BY <1>2, <1>7 DEF CallInv, CommitOpen, Legs
  <2>5. Funded(e)
    BY <1>2, <2>4 DEF RecordInv, Funded
  <2> HIDE DEF rec
  <2>6. /\ \A x \in Escrows \ {e} : Same(x)
        /\ StateOf(e) = "opening" /\ StateOf(e)' = "open"
        /\ UNCHANGED <<OpOf(e), PlanOf(e), Funded(e), Paid(e)>>
    BY <1>2, <2>1, <2>2, <2>3, <2>4, SaveMaps
  <2>. QED BY <2>5, <2>6, ToHold
<1>8. CASE CommitFinish(c)
  <2> DEFINE s == IF journal[e].op = "refund" THEN "refunded" ELSE "released"
             rec == [journal[e] EXCEPT !.state = s]
  <2>1. rec \in Record
    <3>1. s \in {"released", "refunded"}
      OBVIOUS
    <3> HIDE DEF s
    <3>. QED BY <1>2, <3>1 DEF Record
  <2>2. journal' = [journal EXCEPT ![e] = rec] /\ landed' = landed
    BY <1>2, <1>8 DEF CommitFinish, rail
  <2>3. rec.op = journal[e].op /\ rec.plan = journal[e].plan /\ rec.state = s
    BY <1>2 DEF Record
  <2>4. /\ journal[e].state = "transferring"
        /\ \A p \in DOMAIN journal[e].plan : journal[e].attempts[p] = "confirmed"
    BY <1>2, <1>8 DEF CallInv, CommitFinish
  <2>5. OpOf(e) = journal[e].op /\ PlanOf(e) = DOMAIN journal[e].plan /\ PlanOf(e) \subseteq Parties
    BY <1>2, ReadOff
  <2>6. Paid(e) = PlanOf(e)
    <3>1. \A p \in PlanOf(e) : landed[e][p] = 1
      BY <1>2, <2>4, <2>5 DEF RecordInv, Legs
    <3>2. \A p \in Parties \ PlanOf(e) : landed[e][p] = 0
      BY <1>2, <2>5 DEF RecordInv, Legs
    <3>. QED BY <2>5, <3>1, <3>2 DEF Paid
  <2> HIDE DEF rec
  <2>7. /\ \A x \in Escrows \ {e} : Same(x)
        /\ StateOf(e) = "transferring" /\ StateOf(e)' = s
        /\ UNCHANGED <<OpOf(e), PlanOf(e), Funded(e), Paid(e)>>
    BY <1>2, <2>1, <2>2, <2>3, <2>4, SaveMaps
  <2>8. StateOf(e)' = IF OpOf(e) = "refund" THEN "refunded" ELSE "released"
    BY <2>5, <2>7
  <2>. QED BY <2>6, <2>7, <2>8, ToClose
<1>. QED
  BY <1>3, <1>4, <1>5, <1>6, <1>7, <1>8 DEF CallStep

LEMMA OpenRefines ==
  ASSUME IInv, NEW c \in Calls, NEW e \in Escrows, NEW t \in Terms, OpenEscrow(c, e, t)
  PROVE  Promise!Next
<1> DEFINE rec == [state |-> "opening", terms |-> t, op |-> "none", plan |-> NoPlan,
                   attempts |-> [l \in Legs |-> "none"]]
<1>1. journal' = [journal EXCEPT ![e] = rec] /\ landed' = landed /\ ~Opened(e)
  BY DEF OpenEscrow, rail, Opened
<1>2. rec \in Record
  BY DEF Record
<1>3. rec # Absent
  BY <1>2, SentinelAssumption
<1>4. journal'[e] = rec /\ \A x \in Escrows \ {e} : journal'[x] = journal[x]
  BY <1>1 DEF IInv, TypeOK
<1>5. \A x \in Escrows \ {e} : Same(x)
  BY <1>1, <1>4, SameKept
<1>6. rec.state = "opening" /\ rec.op = "none" /\ DOMAIN rec.plan = {}
  BY DEF NoPlan
<1> HIDE DEF rec
<1>7. /\ StateOf(e) = "none" /\ StateOf(e)' = "opening"
      /\ UNCHANGED <<OpOf(e), PlanOf(e), Funded(e), Paid(e)>>
  BY <1>1, <1>3, <1>4, <1>6 DEF StateOf, OpOf, PlanOf, Funded, Paid, Opened
<1>. QED
  BY <1>5, <1>7, ToReserve

LEMMA FinishRefines ==
  ASSUME IInv, NEW c \in Calls, NEW e \in Escrows, NEW plan \in Plans,
         NEW op \in {"release", "refund", "split"}, BeginFinish(c, e, op, plan)
  PROVE  Promise!Next
<1> DEFINE rec == [journal[e] EXCEPT !.state = "transferring", !.op = op, !.plan = plan]
<1>1. /\ journal' = [journal EXCEPT ![e] = rec] /\ landed' = landed
      /\ Opened(e) /\ journal[e].state = "open"
  BY DEF BeginFinish, Finishable, rail, Opened
<1>2. journal[e] \in Record /\ StateOf(e) = "open"
  BY <1>1, ReadOff
<1>3. rec \in Record /\ rec.state = "transferring" /\ rec.op = op /\ rec.plan = plan
  BY <1>2 DEF Record
<1>4. rec # Absent
  BY <1>3, SentinelAssumption
<1>5. journal'[e] = rec /\ \A x \in Escrows \ {e} : journal'[x] = journal[x]
  BY <1>1 DEF IInv, TypeOK
<1>6. \A x \in Escrows \ {e} : Same(x)
  BY <1>1, <1>5, SameKept
<1>7. DOMAIN plan \in (SUBSET Parties) \ {{}}
  BY DEF Plans
<1> HIDE DEF rec
<1>8. /\ StateOf(e)' = "transferring" /\ OpOf(e)' = op /\ PlanOf(e)' = DOMAIN plan
      /\ UNCHANGED <<Funded(e), Paid(e)>>
  BY <1>1, <1>3, <1>4, <1>5 DEF StateOf, OpOf, PlanOf, Funded, Paid, Opened
<1>. QED
  BY <1>2, <1>6, <1>7, <1>8, ToCommit

LEMMA LandRefines ==
  ASSUME IInv, NEW e \in Escrows, NEW l \in Legs, Land(e, l)
  PROVE  Promise!Next
<1>1. inflight[e][l] > 0 /\ journal' = journal /\ landed' = [landed EXCEPT ![e][l] = @ + 1]
  BY DEF Land
<1>2. /\ Opened(e) /\ journal[e] \in Record /\ landed[e][l] = 0
      /\ journal[e].attempts[l] \notin {"none", "confirmed"}
  BY <1>1, InFlightAttempted
<1>3. /\ RecordInv(e) /\ StateOf(e) = journal[e].state /\ OpOf(e) = journal[e].op
      /\ PlanOf(e) = DOMAIN journal[e].plan /\ PlanOf(e) \subseteq Parties
      /\ journal[e].op = "none" => PlanOf(e) = {}
  BY <1>2, ReadOff
<1>4. landed'[e][l] = 1 /\ \A k \in Legs \ {l} : landed'[e][k] = landed[e][k]
  BY <1>1, <1>2 DEF IInv, TypeOK
<1>5. \A x \in Escrows \ {e} : landed'[x] = landed[x]
  BY <1>1 DEF IInv, TypeOK
<1>6. \A x \in Escrows \ {e} : Same(x)
  BY <1>1, <1>5, SameKept
<1>7. UNCHANGED <<StateOf(e), OpOf(e), PlanOf(e)>>
  BY <1>1 DEF StateOf, OpOf, PlanOf, Opened
<1>8. "fund" \in Legs /\ Parties \subseteq Legs /\ "fund" \notin Parties
  BY VibeAssumption DEF Legs
<1>9. CASE l = "fund"
  <2>1. ~Funded(e) /\ Funded(e)'
    BY <1>2, <1>4, <1>9 DEF Funded
  <2>2. Paid(e)' = Paid(e)
    BY <1>4, <1>8, <1>9 DEF Paid
  <2>3. StateOf(e) \in {"opening", "uncertain"}
    BY <1>2, <1>3, <1>9 DEF RecordInv, Record
  <2>. QED BY <1>6, <1>7, <2>1, <2>2, <2>3, ToDeposit
<1>10. CASE l # "fund"
  <2>1. l \in Parties /\ l \in PlanOf(e)
    BY <1>2, <1>3, <1>10 DEF Legs, RecordInv
  <2>2. l \notin Paid(e) /\ Paid(e)' = Paid(e) \cup {l}
    BY <1>2, <1>4, <1>8, <2>1 DEF Paid
  <2>3. UNCHANGED Funded(e)
    BY <1>4, <1>8, <1>10 DEF Funded
  <2>4. StateOf(e) \in {"transferring", "uncertain"}
    BY <1>2, <1>3, <2>1 DEF RecordInv, Record
  <2>. QED BY <1>6, <1>7, <2>1, <2>2, <2>3, <2>4, ToPay
<1>. QED
  BY <1>9, <1>10

LEMMA NextRefines ==
  ASSUME IInv, [Next]_vars
  PROVE  [Promise!Next]_(Promise!vars)
<1>1. CASE journal' = journal /\ landed' = landed
  <2>1. \A x \in Escrows : Same(x)
    BY <1>1, SameKept
  <2>. QED BY <2>1, SameAll
<1>. QED
  BY <1>1, CallStepRefines, OpenRefines, FinishRefines, LandRefines
     DEF Next, vars, rail, Crash, ReopenEscrow, Refuse

\* The write-ahead journal keeps the promise of an escrow: money is held
\* before it is paid out, by one irrevocable plan, to each party once.
THEOREM Refinement == Spec => ImplementsPromise
<1>. QED
  BY InitRefines, NextRefines, Invariance, PTL DEF Spec, ImplementsPromise, Promise!Spec

=============================================================================
