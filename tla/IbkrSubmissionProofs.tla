------------------------ MODULE IbkrSubmissionProofs ------------------------
(***************************************************************************)
(* Proofs about IbkrSubmission for every number of callers, attempts,      *)
(* contracts and crashes.                                                  *)
(***************************************************************************)
EXTENDS IbkrSubmission, FiniteSetTheorems, SequenceTheorems, TLAPS

-----------------------------------------------------------------------------
(* Operators.                                                              *)

\* A call that holds no Trade yet is a call.
LEMMA AttemptIsCall ==
  ASSUME NEW at \in {"idle", "connect", "repair"}, NEW id \in Ids \cup {None},
         NEW fallback \in BOOLEAN, NEW tries \in 0..Retries
  PROVE  Attempt(at, id, fallback, tries) \in Call
BY DEF Attempt, Call, Status, Done

\* An idle caller is a call, too.
LEMMA NoCallIsCall == NoCall \in Call
BY ConstantsAssumption DEF NoCall, Attempt, Call, Status, Done

\* A failed call ends or goes into the handler with one attempt less.
LEMMA FailedIsCall ==
  ASSUME NEW k \in Call, k.id \in Ids, k.tries > 0
  PROVE  /\ Failed(k) \in Call
         /\ Failed(k).order = 0
         /\ \/ Failed(k) = NoCall
            \/ Failed(k).at = "repair" /\ Failed(k).id = k.id
<1>1. k.tries - 1 \in 0..Retries
  BY ConstantsAssumption DEF Call
<1>2. Attempt("repair", k.id, TRUE, k.tries - 1) \in Call
  BY <1>1, AttemptIsCall
<1>. QED
  BY <1>2, NoCallIsCall DEF Failed, Attempt, NoCall

\* A broken connection loses or delivers, and changes nothing else.
LEMMA SeveredLemma ==
  ASSUME orders \in Seq(Order), NEW os \in Severed
  PROVE  /\ os \in Seq(Order)
         /\ Len(os) = Len(orders)
         /\ DOMAIN os = DOMAIN orders
         /\ \A n \in DOMAIN orders :
              /\ os[n].ref = orders[n].ref
              /\ os[n].status # "Lost" => orders[n].status # "Lost"
              /\ orders[n].status # "PendingSubmit" => os[n].status = orders[n].status
<1>1. PICK lost \in SUBSET {n \in DOMAIN orders :
                              orders[n].status = "PendingSubmit" \/ orders[n].cancel} :
        os = [n \in DOMAIN orders |->
               IF orders[n].status = "PendingSubmit"
                 THEN [orders[n] EXCEPT !.status = IF n \in lost THEN "Lost" ELSE "Submitted",
                                        !.cancel = @ /\ n \notin lost]
                 ELSE [orders[n] EXCEPT !.cancel = @ /\ n \notin lost]]
  BY DEF Severed
<1>2. Len(orders) \in Nat /\ DOMAIN orders = 1..Len(orders)
  BY LenProperties
<1>3. \A n \in DOMAIN orders : orders[n] \in Order
  BY <1>2, ElementOfSeq
<1>4. \A n \in DOMAIN orders :
        /\ os[n] \in Order
        /\ os[n].ref = orders[n].ref
        /\ os[n].status # "Lost" => orders[n].status # "Lost"
        /\ orders[n].status # "PendingSubmit" => os[n].status = orders[n].status
  BY <1>1, <1>3 DEF Order, Status
<1>5. os \in [1..Len(orders) -> Order]
  BY <1>1, <1>2, <1>4
<1>6. os \in Seq(Order)
  BY <1>2, <1>5, SeqDef
<1>7. Len(os) = Len(orders) /\ DOMAIN os = DOMAIN orders
  BY <1>2, <1>5, <1>6, LenProperties
<1>. QED
  BY <1>4, <1>6, <1>7

\* One order per id is at most one element.
LEMMA AtMostOne ==
  ASSUME NEW S, \A m, n \in S : m = n
  PROVE  Cardinality(S) <= 1
<1>1. CASE S = {}
  BY <1>1, FS_EmptySet
<1>2. CASE \E x : x \in S
  <2>1. PICK x : S = {x}
    BY <1>2
  <2>. QED
    BY <2>1, FS_Singleton
<1>. QED
  BY <1>1, <1>2

-----------------------------------------------------------------------------
(* Preservation.  Most actions move one call on and touch nothing else.    *)

\* The invariant follows for a step that only moves one call on.
LEMMA MoveOn ==
  ASSUME SubmissionInv, NEW c \in Callers, NEW k \in Call, Sound(k),
         k.order \in 0..Len(orders),
         Goto(c, k), UNCHANGED <<record, orders, conn, crashes>>, window' \in BOOLEAN
  PROVE  SubmissionInv'
<1>1. TypeOK'
  BY DEF SubmissionInv, TypeOK, Goto
<1>2. \A d \in Callers : Sound(call'[d])
  BY DEF SubmissionInv, TypeOK, Goto
<1>3. \A d \in Callers : Sound(call[d])'
  BY <1>2 DEF Sound, Found, LimitOver, AtGateway, Attempts
<1>. QED
  BY <1>1, <1>3 DEF SubmissionInv, LimitOver, AtGateway, Attempts

\* An idle call is sound.
LEMMA NoCallIsSound == Sound(NoCall) /\ NoCall.order = 0
BY DEF Sound, NoCall, Attempt

\* A call begins without a Trade.
LEMMA BeginStep ==
  ASSUME SubmissionInv, NEW c \in Callers,
         BeginFallback(c) \/ \E id \in Alone : BeginSubmit(c, id)
  PROVE  SubmissionInv'
<1>1. PICK id \in {Limit} \cup Stops, fallback \in BOOLEAN : Goto(c, NewCall(id, fallback))
  BY ConstantsAssumption DEF BeginFallback, BeginSubmit
<1>2. UNCHANGED <<record, orders, conn, window, crashes>>
  BY DEF BeginFallback, BeginSubmit
<1>3. NewCall(id, fallback) \in Call
  BY AttemptIsCall, ConstantsAssumption DEF NewCall, Ids, Pair
<1>4. Sound(NewCall(id, fallback)) /\ NewCall(id, fallback).order = 0
  BY ConstantsAssumption DEF Sound, NewCall, Attempt, Ids, Pair
<1>5. window' \in BOOLEAN /\ Len(orders) \in Nat
  BY <1>2, LenProperties DEF SubmissionInv, TypeOK
<1>. QED
  BY <1>1, <1>2, <1>3, <1>4, <1>5, MoveOn

\* Steps of a call that write nothing: they end it, or move it to a stage that
\* asks no more of it than its own record does.
LEMMA EndStep ==
  ASSUME SubmissionInv, NEW c \in Callers,
         \/ AttemptTooLate(c) \/ RefuseDuplicate(c) \/ LimitDone(c) \/ NoFallback(c)
  PROVE  SubmissionInv'
<1>1. Goto(c, NoCall) /\ UNCHANGED <<record, orders, conn, window, crashes>>
  BY DEF AttemptTooLate, RefuseDuplicate, LimitDone, NoFallback
<1>2. window' \in BOOLEAN /\ Len(orders) \in Nat
  BY <1>1, LenProperties DEF SubmissionInv, TypeOK
<1>. QED
  BY <1>1, <1>2, NoCallIsCall, NoCallIsSound, MoveOn

\* The connection is in order: the call goes on.
LEMMA EnsureConnectedStep ==
  ASSUME SubmissionInv, NEW c \in Callers, EnsureConnected(c)
  PROVE  SubmissionInv'
<1>. DEFINE k == [call[c] EXCEPT !.at = "load"]
<1>1. Goto(c, k) /\ UNCHANGED <<record, orders, conn, window, crashes>>
  BY DEF EnsureConnected, MayAttempt, Connected
<1>2. call[c] \in Call /\ Sound(call[c]) /\ call[c].at = "connect"
      /\ call[c].order \in 0..Len(orders) /\ window' \in BOOLEAN
  BY <1>1 DEF SubmissionInv, TypeOK, EnsureConnected, MayAttempt
<1>3. k \in Call /\ k.order = call[c].order
  BY <1>2 DEF Call
<1>4. Sound(k)
  BY <1>2 DEF Sound, Call
<1>. QED
  BY <1>1, <1>2, <1>3, <1>4, MoveOn

\* The order found bears the call's reference, and is not lost.
LEMMA FindExistingStep ==
  ASSUME SubmissionInv, NEW c \in Callers, FindExisting(c)
  PROVE  SubmissionInv'
<1>1. PICK n \in Found(call[c].id) : Goto(c, Holding(call[c], n))
  BY DEF FindExisting
<1>2. UNCHANGED <<record, orders, conn, window, crashes>>
  BY DEF FindExisting
<1>3. call[c] \in Call /\ Sound(call[c]) /\ window' \in BOOLEAN /\ orders \in Seq(Order)
  BY <1>2 DEF SubmissionInv, TypeOK
<1>4. /\ n \in DOMAIN orders /\ n \in 0..Len(orders) /\ n \in Nat
      /\ orders[n] \in Order /\ orders[n].ref = call[c].id
      /\ Len(orders) \in Nat
  BY <1>3, LenProperties, ElementOfSeq DEF Found
<1>. DEFINE k == [call[c] EXCEPT !.at = "wait", !.order = n, !.live = TRUE,
                                 !.view = orders[n].status]
<1>5. CASE Holding(call[c], n) = NoCall
  BY <1>1, <1>2, <1>3, <1>4, <1>5, NoCallIsCall, NoCallIsSound, MoveOn
<1>6. CASE call[c].id = Limit /\ Holding(call[c], n) = k
  <2>1. k \in Call
    BY <1>3, <1>4 DEF Call, Order
  <2>2. Sound(k)
    BY <1>3, <1>4, <1>6, ConstantsAssumption DEF Sound, Call, Ids, Pair
  <2>3. k.order = n
    BY <1>3 DEF Call
  <2>4. Goto(c, k)
    BY <1>1, <1>6
  <2>. HIDE DEF k
  <2>. QED
    BY <1>2, <1>3, <1>4, <2>1, <2>2, <2>3, <2>4, MoveOn
<1>. QED
  BY <1>5, <1>6 DEF Holding

\* The market leg starts when the view says Cancelled, which the Gateway has made final.
LEMMA FallBackStep ==
  ASSUME SubmissionInv, NEW c \in Callers, FallBack(c)
  PROVE  SubmissionInv'
<1>. DEFINE k == NewCall(Market, TRUE)
<1>1. Goto(c, k) /\ UNCHANGED <<record, orders, conn, window, crashes>>
  BY DEF FallBack
<1>2. Sound(call[c]) /\ call[c].at = "cancel" /\ call[c].view = "Cancelled"
  BY DEF FallBack, SubmissionInv
<1>3. LimitOver
  BY <1>2, ConstantsAssumption DEF Sound, LimitOver, AtGateway, Attempts, OrderRef
<1>4. k \in Call /\ k.order = 0
  BY ConstantsAssumption DEF NewCall, Attempt, Call, Status, Done, Ids, Pair
<1>5. Sound(k)
  BY <1>3, ConstantsAssumption DEF Sound, NewCall, Attempt, Ids, Pair
<1>6. window' \in BOOLEAN /\ Len(orders) \in Nat
  BY <1>1, LenProperties DEF SubmissionInv, TypeOK
<1>. HIDE DEF k
<1>. QED
  BY <1>1, <1>4, <1>5, <1>6, MoveOn

\* The window closes on nobody's call.
LEMMA WindowAndConnectivityStep ==
  ASSUME SubmissionInv, WindowCloses \/ ConnectivityError
  PROVE  SubmissionInv'
<1>1. UNCHANGED <<record, orders, call, crashes>>
  BY DEF WindowCloses, ConnectivityError
<1>2. TypeOK'
  BY <1>1 DEF SubmissionInv, TypeOK, WindowCloses, ConnectivityError
<1>3. (\A c \in Callers : Sound(call[c]))'
  BY <1>1 DEF SubmissionInv, Sound, Found, LimitOver, AtGateway, Attempts
<1>4. (\A id \in Pair : \A m, n \in AtGateway(id) : m = n)'
  BY <1>1 DEF SubmissionInv, AtGateway, Attempts
<1>5. (AtGateway(Market) # {} => LimitOver)'
  BY <1>1 DEF SubmissionInv, LimitOver, AtGateway, Attempts
<1>. QED
  BY <1>2, <1>3, <1>4, <1>5 DEF SubmissionInv

-----------------------------------------------------------------------------
(* Steps that write the record, the orders or the connection.              *)

\* Whatever the Gateway does to its orders, what is over stays over, and an order
\* that is not lost keeps its reference.
LEMMA Kept ==
  ASSUME SubmissionInv, orders' \in Seq(Order), DOMAIN orders' = DOMAIN orders,
         \A n \in DOMAIN orders :
           /\ orders'[n].ref = orders[n].ref
           /\ orders'[n].status # "Lost" => orders[n].status # "Lost"
           /\ orders[n].status = "Cancelled" => orders'[n].status = "Cancelled"
  PROVE  /\ LimitOver => LimitOver'
         /\ (\A id \in Pair : \A m, n \in AtGateway(id) : m = n)'
         /\ (AtGateway(Market) # {} => LimitOver)'
<1>1. \A id \in Pair : AtGateway(id)' \subseteq AtGateway(id)
  BY DEF AtGateway, Attempts
<1>2. LimitOver => LimitOver'
  BY DEF LimitOver, AtGateway, Attempts
<1>3. (\A id \in Pair : \A m, n \in AtGateway(id) : m = n)'
  BY <1>1 DEF SubmissionInv
<1>4. (AtGateway(Market) # {} => LimitOver)'
  BY <1>1, <1>2 DEF SubmissionInv, Pair
<1>. QED
  BY <1>2, <1>3, <1>4

\* A Gateway step on one order that is neither lost nor cancelled by it.
LEMMA GatewayStep ==
  ASSUME SubmissionInv, NEW n \in DOMAIN orders, Deliver(n) \/ Fill(n) \/ Cancel(n)
  PROVE  SubmissionInv'
<1>1. UNCHANGED <<record, conn, window, call, crashes>>
  BY DEF Deliver, Fill, Cancel
<1>2. orders \in Seq(Order) /\ Len(orders) \in Nat /\ DOMAIN orders = 1..Len(orders)
      /\ orders[n] \in Order
  BY LenProperties, ElementOfSeq DEF SubmissionInv, TypeOK
<1>3. PICK o \in Order :
        /\ orders' = [orders EXCEPT ![n] = o]
        /\ o.ref = orders[n].ref
        /\ orders[n].status = "Lost" <=> o.status = "Lost"
        /\ orders[n].status = "Cancelled" => o.status = "Cancelled"
  <2>1. CASE Deliver(n)
    <3>1. PICK s \in {"Submitted", "Inactive"} : orders' = [orders EXCEPT ![n].status = s]
      BY <2>1 DEF Deliver
    <3>. QED
      BY <3>1, <1>2, <2>1 DEF Order, Status, Done, Deliver
  <2>2. CASE Fill(n)
    <3>. DEFINE o == [orders[n] EXCEPT !.filled = @ + 1,
                        !.status = IF orders[n].filled + 1 = Quantity THEN "Filled" ELSE @]
    <3>1. orders' = [orders EXCEPT ![n] = o]
      BY <2>2, <1>2 DEF Fill
    <3>2. orders[n].status = "Submitted"
      BY <2>2 DEF Fill
    <3>3. o \in Order /\ o.ref = orders[n].ref /\ o.status \in {"Filled", "Submitted"}
      <4>1. orders[n].filled + 1 \in 0..Quantity
        BY <2>2, <1>2, ConstantsAssumption DEF Order, Fill
      <4>. QED
        BY <1>2, <3>2, <4>1 DEF Order, Status, Done
    <3>. HIDE DEF o
    <3>. QED
      BY <3>1, <3>2, <3>3
  <2>3. CASE Cancel(n)
    <3>. DEFINE o == [orders[n] EXCEPT !.cancel = FALSE,
                        !.status = IF @ = "Submitted" THEN "Cancelled" ELSE @]
    <3>1. orders' = [orders EXCEPT ![n] = o]
      BY <2>3, <1>2 DEF Cancel
    <3>3. /\ o \in Order /\ o.ref = orders[n].ref
          /\ o.status = IF orders[n].status = "Submitted" THEN "Cancelled"
                        ELSE orders[n].status
      BY <1>2 DEF Order, Status, Done
    <3>4. /\ orders[n].status = "Lost" <=> o.status = "Lost"
          /\ orders[n].status = "Cancelled" => o.status = "Cancelled"
      BY <3>3
    <3>. HIDE DEF o
    <3>. QED
      BY <3>1, <3>3, <3>4
  <2>. QED
    BY <2>1, <2>2, <2>3
<1>4. orders' \in Seq(Order) /\ Len(orders') = Len(orders) /\ DOMAIN orders' = DOMAIN orders
  BY <1>2, <1>3, ExceptSeq, LenProperties
<1>5. \A m \in DOMAIN orders :
        /\ orders'[m].ref = orders[m].ref
        /\ orders[m].status = "Lost" <=> orders'[m].status = "Lost"
        /\ orders[m].status = "Cancelled" => orders'[m].status = "Cancelled"
  BY <1>2, <1>3
<1>6. /\ LimitOver => LimitOver'
      /\ (\A id \in Pair : \A i, j \in AtGateway(id) : i = j)'
      /\ (AtGateway(Market) # {} => LimitOver)'
  BY <1>4, <1>5, Kept
<1>7. TypeOK'
  BY <1>1, <1>4 DEF SubmissionInv, TypeOK
<1>8. \A id : Found(id)' = Found(id)
  BY <1>4, <1>5 DEF Found
<1>9. ASSUME NEW c \in Callers PROVE Sound(call[c])'
  <2>1. Sound(call[c]) /\ call'[c] = call[c] /\ record' = record
    BY <1>1 DEF SubmissionInv
  <2>. QED
    BY <2>1, <1>4, <1>5, <1>6, <1>8 DEF Sound
<1>. QED
  BY <1>6, <1>7, <1>9 DEF SubmissionInv

\* A report brings a view up to date.
LEMMA ReportStep ==
  ASSUME SubmissionInv, NEW n \in DOMAIN orders, Report(n)
  PROVE  SubmissionInv'
<1>1. UNCHANGED <<record, orders, conn, window, crashes>>
  BY DEF Report
<1>2. /\ call \in [Callers -> Call] /\ orders[n].status \in Status
      /\ \A c \in Callers : call[c].order \in 0..Len(orders) /\ Sound(call[c])
  <2>1. orders \in Seq(Order) /\ n \in 1..Len(orders)
    BY LenProperties DEF SubmissionInv, TypeOK
  <2>2. orders[n] \in Order
    BY <2>1, ElementOfSeq
  <2>. QED
    BY <2>2 DEF SubmissionInv, TypeOK, Order
<1>3. ASSUME NEW c \in Callers
      PROVE  \/ call'[c] = call[c]
             \/ /\ call[c].at \in {"wait", "cancel"} /\ call[c].order = n
                /\ call'[c] = [call[c] EXCEPT !.view = orders[n].status]
  BY DEF Report
<1>4. DOMAIN call' = Callers /\ call' = [c \in Callers |-> call'[c]]
  BY DEF Report
<1>5. ASSUME NEW c \in Callers
      PROVE  call'[c] \in Call /\ call'[c].order = call[c].order /\ Sound(call'[c])
  <2>1. CASE call'[c] = call[c]
    BY <1>2, <2>1
  <2>2. CASE /\ call[c].at \in {"wait", "cancel"} /\ call[c].order = n
             /\ call'[c] = [call[c] EXCEPT !.view = orders[n].status]
    <3>1. /\ call'[c] \in Call /\ call'[c].order = n /\ call'[c].at = call[c].at
          /\ call'[c].id = call[c].id /\ call'[c].view = orders[n].status
      BY <1>2, <2>2 DEF Call
    <3>2. Sound(call[c])
      BY <1>2
    <3>. QED
      BY <2>2, <3>1, <3>2 DEF Sound
  <2>. QED
    BY <1>3, <2>1, <2>2
<1>6. TypeOK'
  BY <1>1, <1>2, <1>4, <1>5 DEF SubmissionInv, TypeOK
<1>7. (\A c \in Callers : Sound(call[c]))'
  BY <1>1, <1>5 DEF Sound, Found, LimitOver, AtGateway, Attempts
<1>8. (\A id \in Pair : \A i, j \in AtGateway(id) : i = j)'
  BY <1>1 DEF SubmissionInv, AtGateway, Attempts
<1>9. (AtGateway(Market) # {} => LimitOver)'
  BY <1>1 DEF SubmissionInv, LimitOver, AtGateway, Attempts
<1>. QED
  BY <1>6, <1>7, <1>8, <1>9 DEF SubmissionInv

\* What survives the end of a connection: a call that awaited an answer has
\* failed, one that holds a Trade keeps its order.
LEMMA CutLemma ==
  ASSUME SubmissionInv, NEW k \in {call[c] : c \in Callers}, k.at # "record",
         orders' \in Severed, record' = record
  PROVE  Cut(k) \in Call /\ Cut(k).order \in 0..Len(orders) /\ Sound(Cut(k))'
<1>1. k \in Call /\ Sound(k) /\ k.order \in 0..Len(orders) /\ orders \in Seq(Order)
      /\ Len(orders) \in Nat /\ DOMAIN orders = 1..Len(orders)
  BY LenProperties DEF SubmissionInv, TypeOK
<1>2. /\ DOMAIN orders' = DOMAIN orders
      /\ \A n \in DOMAIN orders :
           /\ orders'[n].ref = orders[n].ref
           /\ orders'[n].status # "Lost" => orders[n].status # "Lost"
           /\ orders[n].status = "Cancelled" => orders'[n].status = "Cancelled"
  BY <1>1, SeveredLemma
<1>3. LimitOver => LimitOver'
  BY <1>1, <1>2, SeveredLemma, Kept
<1>4. CASE k.at = "find"
  <2>1. k.id \in Ids /\ k.tries > 0
    BY <1>1, <1>4 DEF Sound
  <2>2. /\ Failed(k) \in Call /\ Failed(k).order = 0
        /\ Failed(k) = NoCall \/ (Failed(k).at = "repair" /\ Failed(k).id = k.id)
    BY <1>1, <2>1, FailedIsCall
  <2>3. Sound(Failed(k))'
    BY <1>1, <1>3, <1>4, <2>1, <2>2 DEF Sound, NoCall, Attempt
  <2>. QED
    BY <1>1, <1>4, <2>2, <2>3 DEF Cut
<1>5. CASE k.at \in {"wait", "cancel"}
  <2>. DEFINE j == [k EXCEPT !.live = FALSE]
  <2>1. j \in Call /\ j.at = k.at /\ j.id = k.id /\ j.order = k.order /\ j.view = k.view
    BY <1>1 DEF Call
  <2>2. Sound(j)'
    <3>. HIDE DEF j
    <3>. QED
      BY <1>1, <1>2, <1>3, <1>5, <2>1 DEF Sound
  <2>3. Cut(k) = j
    BY <1>5 DEF Cut
  <2>. HIDE DEF j
  <2>. QED
    BY <1>1, <2>1, <2>2, <2>3
<1>6. CASE k.at \notin {"find", "wait", "cancel"}
  <2>1. Cut(k) = k
    BY <1>6 DEF Cut
  <2>2. Sound(k)'
    BY <1>1, <1>3, <1>6 DEF Sound
  <2>. QED
    BY <1>1, <2>1, <2>2
<1>. QED
  BY <1>4, <1>5, <1>6

\* A call that reconnects is left sound by the loss of the old connection.
LEMMA ConnectedLemma ==
  ASSUME SubmissionInv, NEW k \in {call[c] : c \in Callers}, k.at \in {"connect", "repair"},
         orders' \in Severed, record' = record
  PROVE  Connected(k) \in Call /\ Connected(k).order \in 0..Len(orders) /\ Sound(Connected(k))'
<1>1. k \in Call /\ Sound(k) /\ k.order \in 0..Len(orders) /\ orders \in Seq(Order)
      /\ Len(orders) \in Nat
  BY LenProperties DEF SubmissionInv, TypeOK
<1>2. LimitOver => LimitOver'
  BY <1>1, SeveredLemma, Kept
<1>3. CASE Connected(k) = NoCall
  BY <1>1, <1>3, NoCallIsCall DEF Sound, NoCall, Attempt
<1>4. CASE k.at = "connect" /\ Connected(k) = [k EXCEPT !.at = "load"]
  <2>. DEFINE j == [k EXCEPT !.at = "load"]
  <2>1. j \in Call /\ j.at = "load" /\ j.id = k.id /\ j.order = k.order /\ j.tries = k.tries
    BY <1>1 DEF Call
  <2>. HIDE DEF j
  <2>2. Sound(j)'
    BY <1>1, <1>2, <1>4, <2>1 DEF Sound
  <2>. QED
    BY <1>1, <1>4, <2>1, <2>2 DEF j
<1>5. CASE k.tries # 0 /\ Connected(k) = [k EXCEPT !.at = "connect"]
  <2>. DEFINE j == [k EXCEPT !.at = "connect"]
  <2>1. j \in Call /\ j.at = "connect" /\ j.id = k.id /\ j.order = k.order /\ j.tries = k.tries
        /\ k.tries > 0
    BY <1>1, <1>5, ConstantsAssumption DEF Call
  <2>. HIDE DEF j
  <2>2. Sound(j)'
    BY <1>1, <1>2, <2>1 DEF Sound
  <2>. QED
    BY <1>1, <1>5, <2>1, <2>2 DEF j
<1>. QED
  BY <1>3, <1>4, <1>5 DEF Connected

\* The invariant follows for a step that ends a connection when it leaves every
\* call sound.
LEMMA Severing ==
  ASSUME SubmissionInv, orders' \in Severed, UNCHANGED <<record, window>>,
         conn' \in {"up", "impaired", "down"}, crashes' \in 0..MaxCrashes,
         NEW next, call' = [c \in Callers |-> next[c]],
         \A c \in Callers : /\ next[c] \in Call /\ next[c].order \in 0..Len(orders)
                            /\ Sound(next[c])'
  PROVE  SubmissionInv'
<1>1. orders' \in Seq(Order) /\ Len(orders') = Len(orders) /\ DOMAIN orders' = DOMAIN orders
      /\ \A n \in DOMAIN orders :
           /\ orders'[n].ref = orders[n].ref
           /\ orders'[n].status # "Lost" => orders[n].status # "Lost"
           /\ orders[n].status = "Cancelled" => orders'[n].status = "Cancelled"
  BY SeveredLemma DEF SubmissionInv, TypeOK
<1>2. /\ (\A id \in Pair : \A m, n \in AtGateway(id) : m = n)'
      /\ (AtGateway(Market) # {} => LimitOver)'
  BY <1>1, Kept
<1>3. TypeOK'
  BY <1>1 DEF SubmissionInv, TypeOK
<1>4. (\A c \in Callers : Sound(call[c]))'
  <2>1. ASSUME NEW c \in Callers PROVE Sound(call[c])'
    <3>1. call'[c] = next[c] /\ Sound(next[c])'
      OBVIOUS
    <3>. QED
      BY <3>1 DEF Sound
  <2>. QED
    BY <2>1
<1>. QED
  BY <1>2, <1>3, <1>4 DEF SubmissionInv

\* A new connection cuts the other calls.
LEMMA ReconnectStep ==
  ASSUME SubmissionInv, NEW c \in Callers, Reconnect(c)
  PROVE  SubmissionInv'
<1>1. PICK next : next = [d \in Callers |-> IF d = c THEN Connected(call[d]) ELSE Cut(call[d])]
  OBVIOUS
<1>2. /\ orders' \in Severed /\ conn' = "up" /\ UNCHANGED <<record, window, crashes>>
      /\ call' = [d \in Callers |-> next[d]]
      /\ call[c].at \in {"connect", "repair"}
      /\ \A d \in Callers : call[d].at # "record"
  BY <1>1 DEF Reconnect, MustReconnect, MayAttempt, Yielded
<1>3. ASSUME NEW d \in Callers
      PROVE  next[d] \in Call /\ next[d].order \in 0..Len(orders) /\ Sound(next[d])'
  BY <1>1, <1>2, ConnectedLemma, CutLemma
<1>4. crashes' \in 0..MaxCrashes
  BY <1>2 DEF SubmissionInv, TypeOK
<1>. QED
  BY <1>2, <1>3, <1>4, Severing

\* So does one that cannot be had.
LEMMA ReconnectFailsStep ==
  ASSUME SubmissionInv, NEW c \in Callers, ReconnectFails(c)
  PROVE  SubmissionInv'
<1>1. PICK next : next = [d \in Callers |->
                IF d # c THEN Cut(call[d])
                ELSE IF call[c].at = "connect" THEN Failed(call[c]) ELSE NoCall]
  OBVIOUS
<1>2. /\ orders' \in Severed /\ conn' = "down" /\ UNCHANGED <<record, window, crashes>>
      /\ call' = [d \in Callers |-> next[d]]
      /\ \A d \in Callers : call[d].at # "record"
  BY <1>1 DEF ReconnectFails, MustReconnect, MayAttempt, Yielded
<1>3. orders \in Seq(Order) /\ Len(orders) \in Nat /\ (LimitOver => LimitOver')
  BY <1>2, SeveredLemma, Kept, LenProperties DEF SubmissionInv, TypeOK
<1>4. ASSUME call[c].at = "connect"
      PROVE  Failed(call[c]) \in Call /\ Failed(call[c]).order = 0
             /\ \A k : k = Failed(call[c]) => Sound(k)'
  <2>1. call[c] \in Call /\ Sound(call[c])
    BY DEF SubmissionInv, TypeOK
  <2>2. call[c].id \in Ids /\ call[c].tries > 0
    BY <1>4, <2>1 DEF Sound
  <2>3. /\ Failed(call[c]) \in Call /\ Failed(call[c]).order = 0
        /\ Failed(call[c]) = NoCall
           \/ (Failed(call[c]).at = "repair" /\ Failed(call[c]).id = call[c].id)
    BY <2>1, <2>2, FailedIsCall
  <2>4. ASSUME NEW k, k = Failed(call[c]) PROVE Sound(k)'
    BY <1>3, <1>4, <2>1, <2>2, <2>3, <2>4 DEF Sound, NoCall, Attempt
  <2>. QED
    BY <2>3, <2>4
<1>5. \A k : k = NoCall => Sound(k)'
  BY DEF Sound, NoCall, Attempt
<1>6. ASSUME NEW d \in Callers
      PROVE  next[d] \in Call /\ next[d].order \in 0..Len(orders) /\ Sound(next[d])'
  BY <1>1, <1>2, <1>3, <1>4, <1>5, CutLemma, NoCallIsCall, NoCallIsSound
<1>7. crashes' \in 0..MaxCrashes
  BY <1>2 DEF SubmissionInv, TypeOK
<1>. QED
  BY <1>2, <1>6, <1>7, Severing

\* And one that breaks.
LEMMA DropStep ==
  ASSUME SubmissionInv, Drop
  PROVE  SubmissionInv'
<1>1. PICK next : next = [c \in Callers |-> Cut(call[c])]
  OBVIOUS
<1>2. /\ orders' \in Severed /\ conn' = "down" /\ UNCHANGED <<record, window, crashes>>
      /\ call' = [d \in Callers |-> next[d]]
      /\ \A d \in Callers : call[d].at # "record"
  BY <1>1 DEF Drop, Yielded
<1>3. ASSUME NEW d \in Callers
      PROVE  next[d] \in Call /\ next[d].order \in 0..Len(orders) /\ Sound(next[d])'
  BY <1>1, <1>2, CutLemma
<1>4. crashes' \in 0..MaxCrashes
  BY <1>2 DEF SubmissionInv, TypeOK
<1>. QED
  BY <1>2, <1>3, <1>4, Severing

\* A process death ends every call.
LEMMA CrashStep ==
  ASSUME SubmissionInv, Crash
  PROVE  SubmissionInv'
<1>1. PICK next : next = [c \in Callers |-> NoCall]
  OBVIOUS
<1>2. /\ orders' \in Severed /\ conn' = "down" /\ UNCHANGED <<record, window>>
      /\ call' = [d \in Callers |-> next[d]]
  BY <1>1 DEF Crash
<1>3. \A k : k = NoCall => Sound(k)'
  BY DEF Sound, NoCall, Attempt
<1>4. Len(orders) \in Nat
  BY LenProperties DEF SubmissionInv, TypeOK
<1>5. ASSUME NEW d \in Callers
      PROVE  next[d] \in Call /\ next[d].order \in 0..Len(orders) /\ Sound(next[d])'
  BY <1>1, <1>3, <1>4, NoCallIsCall, NoCallIsSound
<1>6. crashes' \in 0..MaxCrashes
  BY ConstantsAssumption DEF SubmissionInv, TypeOK, Crash
<1>. QED
  BY <1>2, <1>5, <1>6, Severing

\* The PREPARED record hides no number: what was not on record still is not.
LEMMA LoadStep ==
  ASSUME SubmissionInv, NEW c \in Callers, Load(c)
  PROVE  SubmissionInv'
<1>. DEFINE id == call[c].id
<1>1. /\ call[c] \in Call /\ Sound(call[c]) /\ call[c].order \in 0..Len(orders)
      /\ call \in [Callers -> Call] /\ Len(orders) \in Nat
      /\ record \in [Ids -> {None, "PREPARED", "PLACED"}]
  BY LenProperties DEF SubmissionInv, TypeOK
<1>2. call[c].at = "load" /\ id \in Ids /\ call[c].tries > 0
  BY <1>1 DEF Load, Sound
<1>3. PICK k : /\ k = IF conn = "down" THEN Failed(call[c])
                      ELSE [call[c] EXCEPT !.at = "find", !.prior = (record[id] = "PLACED")]
               /\ call' = [call EXCEPT ![c] = k]
  BY DEF Load, Goto
<1>4. UNCHANGED <<orders, conn, window, crashes>>
      /\ record' = [record EXCEPT ![id] = IF @ = None THEN "PREPARED" ELSE @]
  BY DEF Load
<1>5. /\ record' \in [Ids -> {None, "PREPARED", "PLACED"}]
      /\ \A i \in Ids : record'[i] = "PLACED" => record[i] = "PLACED"
  BY <1>1, <1>2, <1>4
<1>6. k \in Call /\ k.order \in 0..Len(orders) /\ Sound(k)'
  <2>1. CASE conn = "down"
    <3>1. /\ k \in Call /\ k.order = 0
          /\ k = NoCall \/ (k.at = "repair" /\ k.id = id)
      BY <1>1, <1>2, <1>3, <2>1, FailedIsCall
    <3>. QED
      BY <1>1, <1>2, <1>4, <3>1 DEF Sound, NoCall, Attempt, LimitOver, AtGateway, Attempts
  <2>2. CASE conn # "down"
    <3>1. /\ k \in Call /\ k.at = "find" /\ k.id = id /\ k.order = call[c].order
          /\ k.tries = call[c].tries
      BY <1>1, <1>3, <2>2 DEF Call
    <3>2. ~k.prior => record[id] # "PLACED"
      BY <1>1, <1>3, <2>2 DEF Call
    <3>. QED
      BY <1>1, <1>2, <1>4, <1>5, <3>1, <3>2 DEF Sound, LimitOver, AtGateway, Attempts
  <2>. QED
    BY <2>1, <2>2
<1>7. TypeOK'
  BY <1>1, <1>3, <1>4, <1>5, <1>6 DEF SubmissionInv, TypeOK
<1>8. ASSUME NEW d \in Callers PROVE Sound(call[d])'
  <2>1. CASE d = c
    <3>1. call'[d] = k /\ Sound(k)'
      BY <1>1, <1>3, <1>6, <2>1
    <3>. QED
      BY <3>1 DEF Sound
  <2>2. CASE d # c
    <3>1. Sound(call[d]) /\ call'[d] = call[d]
      BY <1>1, <1>3, <2>2 DEF SubmissionInv
    <3>. QED
      BY <1>4, <1>5, <3>1 DEF Sound, Found, LimitOver, AtGateway, Attempts, Ids
  <2>. QED
    BY <2>1, <2>2
<1>9. (\A i \in Pair : \A m, n \in AtGateway(i) : m = n)'
  BY <1>4 DEF SubmissionInv, AtGateway, Attempts
<1>10. (AtGateway(Market) # {} => LimitOver)'
  BY <1>4 DEF SubmissionInv, LimitOver, AtGateway, Attempts
<1>. QED
  BY <1>7, <1>8, <1>9, <1>10 DEF SubmissionInv

\* The order placed is the only one at the Gateway with its reference.
LEMMA PlaceStep ==
  ASSUME SubmissionInv, NEW c \in Callers, Place(c)
  PROVE  SubmissionInv'
<1>. DEFINE id == call[c].id
            new == Len(orders) + 1
<1>1. /\ call[c] \in Call /\ Sound(call[c]) /\ call \in [Callers -> Call]
      /\ orders \in Seq(Order) /\ Len(orders) \in Nat /\ DOMAIN orders = 1..Len(orders)
  BY LenProperties DEF SubmissionInv, TypeOK
<1>2. /\ call[c].at = "find" /\ id \in Ids /\ Found(id) = {}
      /\ UNCHANGED <<record, conn, window, crashes>>
      /\ orders' = Append(orders, NewOrder(id))
  BY <1>1 DEF Place, Sound
<1>3. NewOrder(id) \in Order
  BY <1>2, ConstantsAssumption DEF NewOrder, Order, Status
<1>4. /\ orders' \in Seq(Order) /\ DOMAIN orders' = 1..new /\ Len(orders') = new
      /\ \A n \in DOMAIN orders : orders'[n] = orders[n] /\ n \in DOMAIN orders'
      /\ orders'[new].ref = OrderRef(id) /\ orders'[new].status = "PendingSubmit"
  <2>1. orders' \in Seq(Order) /\ Len(orders') = new /\ orders'[new] = NewOrder(id)
        /\ \A n \in DOMAIN orders : orders'[n] = orders[n]
    BY <1>1, <1>2, <1>3
  <2>2. DOMAIN orders' = 1..new
    BY <2>1, LenProperties
  <2>. QED
    BY <1>1, <2>1, <2>2 DEF NewOrder
<1>5. \A i \in Pair : OrderRef(i) = i /\ AtGateway(i) = Found(i)
  BY ConstantsAssumption DEF OrderRef, Pair, AtGateway, Attempts, Found
<1>6. \A i \in Pair : OrderRef(id) = i <=> id = i
  BY <1>2, <1>5, RefsAssumption DEF Ids
<1>7. ASSUME NEW i \in Pair, NEW n \in AtGateway(i)'
      PROVE  n \in AtGateway(i) \/ (n = new /\ i = id)
  <2>1. n \in 1..new /\ orders'[n].ref = OrderRef(i) /\ orders'[n].status # "Lost"
    BY <1>4 DEF AtGateway, Attempts
  <2>2. CASE n \in 1..Len(orders)
    BY <1>1, <1>4, <2>1, <2>2 DEF AtGateway, Attempts
  <2>3. CASE n = new
    BY <1>4, <1>5, <1>6, <2>1, <2>3
  <2>. QED
    BY <1>1, <2>1, <2>2, <2>3
<1>8. LimitOver => LimitOver'
  BY <1>4 DEF LimitOver, AtGateway, Attempts
<1>9. (\A i \in Pair : \A m, n \in AtGateway(i) : m = n)'
  BY <1>2, <1>5, <1>7 DEF SubmissionInv
<1>10. (AtGateway(Market) # {} => LimitOver)'
  BY <1>1, <1>2, <1>7, <1>8 DEF SubmissionInv, Pair, Sound
<1>11. PICK k : k = [call[c] EXCEPT !.at = "record", !.order = new]
                /\ call' = [call EXCEPT ![c] = k]
  BY DEF Place, Goto
<1>12. k \in Call /\ k.at = "record" /\ k.order = new /\ k.id = id
  <2>1. PICK m \in Nat : m = new
    BY <1>1
  <2>2. k = [call[c] EXCEPT !.at = "record", !.order = m]
    BY <1>11, <2>1
  <2>3. k \in Call /\ k.at = "record" /\ k.order = m /\ k.id = call[c].id
    BY <1>1, <2>2 DEF Call
  <2>. QED
    BY <2>1, <2>3
<1>13. TypeOK'
  BY <1>1, <1>2, <1>4, <1>11, <1>12 DEF SubmissionInv, TypeOK
<1>14. ASSUME NEW d \in Callers PROVE Sound(call[d])'
  <2>1. CASE d = c
    <3>1. call'[d] = k
      BY <1>1, <1>11, <2>1
    <3>. QED
      BY <1>1, <1>2, <1>4, <1>8, <1>12, <3>1 DEF Sound
  <2>2. CASE d # c
    <3>1. Sound(call[d]) /\ call'[d] = call[d]
      BY <1>1, <1>11, <2>2 DEF SubmissionInv
    <3>2. \A i : Found(i) # {} => Found(i)' # {}
      BY <1>4 DEF Found
    <3>. QED
      BY <1>2, <1>4, <1>8, <3>1, <3>2 DEF Sound
  <2>. QED
    BY <2>1, <2>2
<1>. QED
  BY <1>9, <1>10, <1>13, <1>14 DEF SubmissionInv

\* The order whose number is recorded is there to be found by every other call.
LEMMA RecordStep ==
  ASSUME SubmissionInv, NEW c \in Callers, Record(c)
  PROVE  SubmissionInv'
<1>. DEFINE id == call[c].id
            n == call[c].order
<1>1. /\ call[c] \in Call /\ Sound(call[c]) /\ call \in [Callers -> Call]
      /\ orders \in Seq(Order) /\ Len(orders) \in Nat /\ DOMAIN orders = 1..Len(orders)
      /\ record \in [Ids -> {None, "PREPARED", "PLACED"}]
  BY LenProperties DEF SubmissionInv, TypeOK
<1>2. /\ call[c].at = "record" /\ id \in Ids
      /\ UNCHANGED <<orders, conn, window, crashes>>
      /\ record' = [record EXCEPT ![id] = "PLACED"]
      /\ n \in DOMAIN orders /\ orders[n].ref = OrderRef(id) /\ orders[n].status # "Lost"
  BY <1>1 DEF Record, Sound
<1>3. id \in Pair => Found(id) # {} /\ OrderRef(id) = id
  BY <1>2, ConstantsAssumption DEF Found, OrderRef, Pair
<1>4. PICK k : k = Holding(call[c], n) /\ call' = [call EXCEPT ![c] = k]
  BY DEF Record, Goto
<1>5. orders[n] \in Order
  BY <1>1, <1>2, ElementOfSeq
<1>6. \/ k = NoCall
      \/ /\ k \in Call /\ k.at = "wait" /\ k.id = id /\ id = Limit /\ k.order = n
         /\ k.view = orders[n].status
  BY <1>1, <1>4, <1>5 DEF Holding, Call, Order
<1>7. k \in Call /\ k.order \in 0..Len(orders)
  BY <1>1, <1>2, <1>6, NoCallIsCall, NoCallIsSound
<1>8. TypeOK'
  BY <1>1, <1>2, <1>4, <1>7 DEF SubmissionInv, TypeOK
<1>9. ASSUME NEW d \in Callers PROVE Sound(call[d])'
  <2>1. CASE d = c
    <3>1. call'[d] = k
      BY <1>1, <1>4, <2>1
    <3>2. CASE k = NoCall
      BY <3>1, <3>2 DEF Sound, NoCall, Attempt
    <3>3. CASE k.at = "wait" /\ k.id = id /\ id = Limit /\ k.order = n /\ k.view = orders[n].status
      BY <1>2, <1>3, <3>1, <3>3, ConstantsAssumption DEF Sound, Ids, Pair
    <3>. QED
      BY <1>6, <3>2, <3>3
  <2>2. CASE d # c
    <3>1. Sound(call[d]) /\ call'[d] = call[d]
      BY <1>1, <1>4, <2>2 DEF SubmissionInv
    <3>2. \A i \in Pair : record'[i] = "PLACED" => record[i] = "PLACED" \/ Found(i) # {}
      BY <1>1, <1>2, <1>3 DEF Ids
    <3>3. LimitOver' = LimitOver /\ \A i : Found(i)' = Found(i)
      BY <1>2 DEF Found, LimitOver, AtGateway, Attempts
    <3>. QED
      BY <1>2, <3>1, <3>2, <3>3 DEF Sound
  <2>. QED
    BY <2>1, <2>2
<1>10. (\A i \in Pair : \A l, m \in AtGateway(i) : l = m)'
  BY <1>2 DEF SubmissionInv, AtGateway, Attempts
<1>11. (AtGateway(Market) # {} => LimitOver)'
  BY <1>2 DEF SubmissionInv, LimitOver, AtGateway, Attempts
<1>. QED
  BY <1>8, <1>9, <1>10, <1>11 DEF SubmissionInv

\* The request to cancel changes no status.
LEMMA LimitTimeoutStep ==
  ASSUME SubmissionInv, NEW c \in Callers, LimitTimeout(c)
  PROVE  SubmissionInv'
<1>. DEFINE n == call[c].order
<1>1. /\ call[c] \in Call /\ Sound(call[c]) /\ call \in [Callers -> Call]
      /\ orders \in Seq(Order) /\ Len(orders) \in Nat /\ DOMAIN orders = 1..Len(orders)
      /\ call[c].order \in 0..Len(orders) /\ window \in BOOLEAN
  BY LenProperties DEF SubmissionInv, TypeOK
<1>2. UNCHANGED <<record, conn, window, crashes>> /\ call[c].at = "wait"
  BY DEF LimitTimeout
<1>3. CASE conn = "down"
  <2>1. Goto(c, NoCall) /\ UNCHANGED orders
    BY <1>3 DEF LimitTimeout
  <2>. QED
    BY <1>1, <1>2, <2>1, NoCallIsCall, NoCallIsSound, MoveOn
<1>4. CASE conn # "down"
  <2>1. PICK k : k = [call[c] EXCEPT !.at = "cancel"] /\ call' = [call EXCEPT ![c] = k]
    BY <1>4 DEF LimitTimeout, Goto
  <2>2. k \in Call /\ k.at = "cancel" /\ k.id = call[c].id /\ k.order = n /\ k.view = call[c].view
    BY <1>1, <2>1 DEF Call
  <2>3. n \in DOMAIN orders /\ orders[n] \in Order
    BY <1>1, <1>2, ElementOfSeq DEF Sound
  <2>4. PICK o : o = [orders[n] EXCEPT !.cancel = (orders[n].status # "Lost")]
                 /\ orders' = [orders EXCEPT ![n] = o]
    BY <1>4, <2>3 DEF LimitTimeout
  <2>5. o \in Order /\ o.ref = orders[n].ref /\ o.status = orders[n].status
    BY <2>3, <2>4 DEF Order
  <2>6. orders' \in Seq(Order) /\ Len(orders') = Len(orders) /\ DOMAIN orders' = DOMAIN orders
    BY <1>1, <2>3, <2>4, <2>5, ExceptSeq, LenProperties
  <2>7. \A m \in DOMAIN orders : orders'[m].ref = orders[m].ref
                                /\ orders'[m].status = orders[m].status
    BY <1>1, <2>3, <2>4, <2>5
  <2>8. /\ LimitOver => LimitOver'
        /\ (\A id \in Pair : \A i, j \in AtGateway(id) : i = j)'
        /\ (AtGateway(Market) # {} => LimitOver)'
    BY <2>6, <2>7, Kept
  <2>9. TypeOK'
    BY <1>1, <1>2, <2>1, <2>2, <2>6 DEF SubmissionInv, TypeOK
  <2>10. \A id : Found(id)' = Found(id)
    BY <2>6, <2>7 DEF Found
  <2>11. ASSUME NEW d \in Callers PROVE Sound(call[d])'
    <3>1. CASE d = c
      <4>1. call'[d] = k
        BY <1>1, <2>1, <3>1
      <4>. QED
        BY <1>1, <1>2, <2>2, <2>6, <2>7, <2>8, <4>1 DEF Sound
    <3>2. CASE d # c
      <4>1. Sound(call[d]) /\ call'[d] = call[d]
        BY <1>1, <2>1, <3>2 DEF SubmissionInv
      <4>. QED
        BY <1>2, <2>6, <2>7, <2>8, <2>10, <4>1 DEF Sound
    <3>. QED
      BY <3>1, <3>2
  <2>. QED
    BY <2>8, <2>9, <2>11 DEF SubmissionInv
<1>. QED
  BY <1>3, <1>4

\* A step that changes nothing keeps the invariant.
LEMMA Stuttering ==
  ASSUME SubmissionInv, UNCHANGED vars
  PROVE  SubmissionInv'
<1>1. UNCHANGED <<record, orders, conn, window, call, crashes>>
  BY DEF vars
<1>2. TypeOK'
  BY <1>1 DEF SubmissionInv, TypeOK
<1>3. (\A c \in Callers : Sound(call[c]))'
  BY <1>1 DEF SubmissionInv, Sound, Found, LimitOver, AtGateway, Attempts
<1>4. (\A id \in Pair : \A m, n \in AtGateway(id) : m = n)'
  BY <1>1 DEF SubmissionInv, AtGateway, Attempts
<1>5. (AtGateway(Market) # {} => LimitOver)'
  BY <1>1 DEF SubmissionInv, LimitOver, AtGateway, Attempts
<1>. QED
  BY <1>2, <1>3, <1>4, <1>5 DEF SubmissionInv

-----------------------------------------------------------------------------
(* Theorems.                                                               *)

\* The adapter begins without orders and calls.
LEMMA InitSubmissionInv == Init => SubmissionInv
<1>. SUFFICES ASSUME Init PROVE SubmissionInv
  OBVIOUS
<1>1. orders = <<>> /\ orders \in Seq(Order) /\ DOMAIN orders = {} /\ Len(orders) = 0
  BY DEF Init
<1>2. TypeOK
  BY <1>1, NoCallIsCall, NoCallIsSound, ConstantsAssumption DEF Init, TypeOK
<1>3. \A id : AtGateway(id) = {}
  BY <1>1 DEF AtGateway, Attempts
<1>. QED
  BY <1>2, <1>3, NoCallIsSound DEF Init, SubmissionInv

\* No step breaks the invariant.
LEMMA StepSubmissionInv == SubmissionInv /\ [Next]_vars => SubmissionInv'
<1>. SUFFICES ASSUME SubmissionInv, [Next]_vars PROVE SubmissionInv'
  OBVIOUS
<1>1. CASE \E c \in Callers : BeginFallback(c)
  BY <1>1, BeginStep
<1>2. CASE \E c \in Callers, id \in Alone : BeginSubmit(c, id)
  BY <1>2, BeginStep
<1>3. CASE \E c \in Callers : Proceed(c)
  BY <1>3, EndStep, EnsureConnectedStep, ReconnectStep, ReconnectFailsStep, LoadStep,
     FindExistingStep, PlaceStep, RecordStep, FallBackStep, LimitTimeoutStep DEF Proceed
<1>4. CASE \E n \in DOMAIN orders : Gateway(n)
  BY <1>4, GatewayStep, ReportStep DEF Gateway
<1>5. CASE ConnectivityError \/ Drop \/ WindowCloses \/ Crash
  BY <1>5, WindowAndConnectivityStep, DropStep, CrashStep
<1>6. CASE UNCHANGED vars
  BY <1>6, Stuttering
<1>. QED
  BY <1>1, <1>2, <1>3, <1>4, <1>5, <1>6 DEF Next

\* The inductive invariant: every reachable state of the adapter, whatever the
\* callers, the Gateway and the connection do.
THEOREM SubmissionInvariant == Spec => []SubmissionInv
BY InitSubmissionInv, StepSubmissionInv, PTL DEF Spec

\* Every variable keeps its type, and a call only holds numbers placeOrder gave.
THEOREM SubmissionTypeCorrect == Spec => []TypeOK
<1>1. SubmissionInv => TypeOK
  BY DEF SubmissionInv
<1>. QED
  BY <1>1, SubmissionInvariant, PTL

\* persistent idempotency of _submit_trade: one LIMIT and one MARKET order at
\* the Gateway, for every number of callers, attempts and crashes.
THEOREM PairIsIdempotent == Spec => []OneOrderPerId
<1>1. SubmissionInv => OneOrderPerId
  BY AtMostOne DEF SubmissionInv, OneOrderPerId
<1>. QED
  BY <1>1, SubmissionInvariant, PTL

\* submit_limit_with_market_fallback never has both orders of the pair able to
\* trade: the LIMIT order at the Gateway is the one whose end let it fall back.
THEOREM PairIsExclusive == Spec => []FallbackExclusive
<1>1. SubmissionInv => FallbackExclusive
  BY DEF SubmissionInv, FallbackExclusive, LimitOver, Pair
<1>. QED
  BY <1>1, SubmissionInvariant, PTL

\* What keeps the reference of every order adds no attempt.
LEMMA SameAttempts ==
  ASSUME DOMAIN orders' = DOMAIN orders,
         \A n \in DOMAIN orders : orders'[n].ref = orders[n].ref
  PROVE  \A id : Attempts(id)' = Attempts(id)
BY DEF Attempts

\* An order is placed for another id than those on record: the call that places
\* it read no number, and found no order.
LEMMA PlaceRecorded ==
  ASSUME SubmissionInv, NEW c \in Callers, Place(c),
         NEW id \in Pair, record[id] = "PLACED"
  PROVE  Attempts(id)' = Attempts(id)
<1>1. /\ orders \in Seq(Order) /\ Len(orders) \in Nat /\ DOMAIN orders = 1..Len(orders)
      /\ Sound(call[c])
  BY LenProperties DEF SubmissionInv, TypeOK
<1>2. call[c].id \in Ids /\ call[c].id # id
  BY <1>1 DEF Place, Sound
<1>3. PICK o : o = NewOrder(call[c].id) /\ orders' = Append(orders, o)
  BY DEF Place
<1>4. o \in Order /\ o.ref = OrderRef(call[c].id)
  BY <1>2, <1>3, ConstantsAssumption DEF NewOrder, Order, Status
<1>5. o.ref # OrderRef(id)
  BY <1>2, <1>4, ConstantsAssumption, RefsAssumption DEF OrderRef, Ids, Pair
<1>6. /\ DOMAIN orders' = 1..(Len(orders) + 1)
      /\ orders'[Len(orders) + 1] = o
      /\ \A n \in 1..Len(orders) : orders'[n] = orders[n]
  <2>1. /\ orders' \in Seq(Order) /\ Len(orders') = Len(orders) + 1
        /\ orders'[Len(orders) + 1] = o
        /\ \A n \in 1..Len(orders) : orders'[n] = orders[n]
    BY <1>1, <1>3, <1>4
  <2>. QED
    BY <2>1, LenProperties
<1>7. ASSUME NEW n PROVE n \in Attempts(id)' <=> n \in Attempts(id)
  <2>1. CASE n \in 1..Len(orders)
    BY <1>1, <1>6, <2>1 DEF Attempts
  <2>2. CASE n \notin 1..Len(orders)
    BY <1>1, <1>5, <1>6, <2>2 DEF Attempts
  <2>. QED
    BY <2>1, <2>2
<1>. QED
  BY <1>7 DEF Attempts

\* Every other step keeps the references.
LEMMA OthersRecorded ==
  ASSUME SubmissionInv, [Next]_vars, ~ \E c \in Callers : Place(c)
  PROVE  \A id : Attempts(id)' = Attempts(id)
<1>1. orders \in Seq(Order) /\ Len(orders) \in Nat /\ DOMAIN orders = 1..Len(orders)
      /\ \A n \in DOMAIN orders : orders[n] \in Order
  BY LenProperties, ElementOfSeq DEF SubmissionInv, TypeOK
<1>2. CASE UNCHANGED orders
  BY <1>2 DEF Attempts
<1>3. CASE orders' \in Severed
  BY <1>1, <1>3, SeveredLemma, SameAttempts
<1>4. CASE \E c \in Callers : LimitTimeout(c) /\ ~UNCHANGED orders
  <2>1. PICK n \in Nat : orders' = [orders EXCEPT ![n].cancel = orders[n].status # "Lost"]
    <3>1. PICK c \in Callers : LimitTimeout(c) /\ ~UNCHANGED orders
      BY <1>4
    <3>2. call[c].order \in Nat
      BY DEF SubmissionInv, TypeOK, Call
    <3>. QED
      BY <3>1, <3>2 DEF LimitTimeout
  <2>. QED
    BY <1>1, <2>1, SameAttempts DEF Order
<1>5. CASE \E n \in DOMAIN orders : Deliver(n) \/ Fill(n) \/ Cancel(n)
  <2>1. PICK n \in DOMAIN orders : Deliver(n) \/ Fill(n) \/ Cancel(n)
    BY <1>5
  <2>2. CASE Deliver(n)
    <3>1. PICK s : orders' = [orders EXCEPT ![n].status = s]
      BY <2>2 DEF Deliver
    <3>. QED
      BY <1>1, <3>1, SameAttempts DEF Order
  <2>3. CASE Fill(n)
    <3>1. PICK f, s : orders' = [orders EXCEPT ![n].filled = f, ![n].status = s]
      BY <2>3 DEF Fill
    <3>. QED
      BY <1>1, <3>1, SameAttempts DEF Order
  <2>4. CASE Cancel(n)
    <3>1. PICK s : orders' = [orders EXCEPT ![n].cancel = FALSE, ![n].status = s]
      BY <2>4 DEF Cancel
    <3>. QED
      BY <1>1, <3>1, SameAttempts DEF Order
  <2>. QED
    BY <2>1, <2>2, <2>3, <2>4
<1>. QED
  BY <1>2, <1>3, <1>4, <1>5 DEF Next, Proceed, Gateway, vars, BeginFallback, BeginSubmit,
     AttemptTooLate, EnsureConnected, Reconnect, ReconnectFails, Load, FindExisting,
     RefuseDuplicate, Record, LimitDone, LimitTimeout, NoFallback, FallBack, Report,
     ConnectivityError, Drop, WindowCloses, Crash

\* "refusing duplicate": an id whose number is on record is never sent again.
THEOREM RecordedIsFinal == Spec => RecordedNeverResent
<1>1. ASSUME SubmissionInv, [Next]_vars, NEW id \in Pair, record[id] = "PLACED"
      PROVE  Attempts(id)' = Attempts(id)
  BY <1>1, PlaceRecorded, OthersRecorded
<1>2. SubmissionInv /\ [Next]_vars =>
        [\A id \in Pair : record[id] = "PLACED" => Attempts(id)' = Attempts(id)]_vars
  BY <1>1
<1>. QED
  BY <1>2, SubmissionInvariant, PTL DEF Spec, RecordedNeverResent

-----------------------------------------------------------------------------
(* Calls come to an end.                                                   *)

\* What a step may make of a call: leave it, begin it, end it, have it fail an
\* attempt, go on to the market leg or to the next stage of the leg it is on.
Onward(k, m) ==
  \/ m = k
  \/ k.at = "idle" /\ m.at = "connect"
  \/ m = NoCall
  \/ k.at = "cancel" /\ m = NewCall(Market, TRUE)
  \/ k.at \in {"connect", "load", "find"} /\ m = Failed(k)
  \/ /\ m.id = k.id /\ m.fallback = k.fallback /\ m.tries = k.tries
     /\ \/ k.at = "repair" /\ m.at = "connect"
        \/ k.at = "connect" /\ m.at = "load"
        \/ k.at = "load" /\ m.at = "find"
        \/ k.at = "find" /\ m.at = "record"
        \/ k.at \in {"find", "record"} /\ m.at = "wait" /\ k.fallback /\ k.id = Limit
        \/ k.at = "wait" /\ m.at = "cancel"
        \/ k.at \in {"wait", "cancel"} /\ m.at = k.at

\* Only the limit leg of a fallback call waits and cancels.
OnLimitLeg(k) == k.at \in {"wait", "cancel"} => k.fallback /\ k.id = Limit

\* Nearer to its end, or in its only wait.
Nearer(k, m) ==
  k.at # "idle" /\ m # k =>
    \/ Remaining(m) < Remaining(k)
    \/ Remaining(m) = Remaining(k) /\ m.at \in {"wait", "cancel"}

\* What is left of a call is a number, and nothing only at its end.
LEMMA SomeRemains ==
  ASSUME NEW k \in Call
  PROVE  Remaining(k) \in Nat /\ (k.at # "idle" => Remaining(k) > 0)
<1>1. Stage[k.at] \in 0..7 /\ (k.at # "idle" => Stage[k.at] > 0)
  BY DEF Stage, Call
<1>2. k.tries \in Nat /\ Retries \in Nat /\ k.fallback \in BOOLEAN
  BY ConstantsAssumption DEF Call
<1>. QED
  BY <1>1, <1>2 DEF Remaining

\* A failed attempt is one attempt less.
LEMMA FailingIsNearer ==
  ASSUME NEW k \in Call, k.at \in {"connect", "load", "find"}, k.tries > 0
  PROVE  Remaining(Failed(k)) < Remaining(k)
<1>1. Stage[k.at] \in 4..6 /\ Stage["repair"] = 7
  BY DEF Stage
<1>2. k.tries \in Nat /\ Retries \in Nat /\ k.fallback \in BOOLEAN
  BY ConstantsAssumption DEF Call
<1>3. CASE ~k.fallback
  <2>1. Failed(k).at = "idle"
    BY <1>3 DEF Failed, NoCall, Attempt
  <2>2. Remaining(Failed(k)) = 0
    BY <2>1 DEF Remaining
  <2>. QED
    BY <2>2, SomeRemains
<1>4. CASE k.fallback
  <2>1. /\ Failed(k).at = "repair" /\ Failed(k).id = k.id /\ Failed(k).fallback = k.fallback
        /\ Failed(k).tries = k.tries - 1
    BY <1>4 DEF Failed, Attempt
  <2>. DEFINE legs == IF k.fallback /\ k.id = Limit THEN 8 * (Retries + 1) ELSE 0
  <2>2. legs \in Nat
    BY <1>2
  <2>3. Remaining(k) = legs + 8 * k.tries + Stage[k.at]
    BY DEF Remaining
  <2>4. Remaining(Failed(k)) = legs + 8 * (k.tries - 1) + 7
    BY <1>1, <2>1 DEF Remaining
  <2>. HIDE DEF legs
  <2>. QED
    BY <1>1, <1>2, <2>2, <2>3, <2>4
<1>. QED
  BY <1>2, <1>3, <1>4

\* The market leg is shorter than what the limit leg left before it.
LEMMA MarketLegIsNearer ==
  ASSUME NEW k \in Call, k.at = "cancel", OnLimitLeg(k)
  PROVE  Remaining(NewCall(Market, TRUE)) < Remaining(k)
<1>1. k.tries \in Nat /\ Retries \in Nat
  BY ConstantsAssumption DEF Call
<1>2. Remaining(k) = 8 * (Retries + 1) + 8 * k.tries + 1
  BY DEF Remaining, OnLimitLeg, Stage
<1>3. Remaining(NewCall(Market, TRUE)) = 8 * Retries + 6
  BY <1>1, ConstantsAssumption DEF Remaining, NewCall, Attempt, Stage
<1>4. 8 * Retries + 6 < 8 * (Retries + 1) + 8 * k.tries + 1
  BY ONLY <1>1
<1>. QED
  BY ONLY <1>2, <1>3, <1>4

\* Every such step brings a call nearer to its end.
LEMMA OnwardIsNearer ==
  ASSUME NEW k \in Call, NEW m, Onward(k, m), OnLimitLeg(k),
         k.at \in {"connect", "load", "find"} => k.tries > 0
  PROVE  Nearer(k, m)
<1>. SUFFICES ASSUME k.at # "idle", m # k
              PROVE  \/ Remaining(m) < Remaining(k)
                     \/ Remaining(m) = Remaining(k) /\ m.at \in {"wait", "cancel"}
  BY DEF Nearer
<1>1. CASE m = NoCall
  <2>1. Remaining(m) = 0
    BY <1>1 DEF Remaining, NoCall, Attempt
  <2>. QED
    BY <2>1, SomeRemains
<1>2. CASE k.at = "cancel" /\ m = NewCall(Market, TRUE)
  BY <1>2, MarketLegIsNearer
<1>3. CASE k.at \in {"connect", "load", "find"} /\ m = Failed(k)
  BY <1>3, FailingIsNearer
<1>4. ASSUME m.id = k.id, m.fallback = k.fallback, m.tries = k.tries,
             \/ k.at = "repair" /\ m.at = "connect"
             \/ k.at = "connect" /\ m.at = "load"
             \/ k.at = "load" /\ m.at = "find"
             \/ k.at = "find" /\ m.at = "record"
             \/ k.at \in {"find", "record"} /\ m.at = "wait"
             \/ k.at = "wait" /\ m.at = "cancel"
             \/ k.at \in {"wait", "cancel"} /\ m.at = k.at
      PROVE  \/ Remaining(m) < Remaining(k)
             \/ Remaining(m) = Remaining(k) /\ m.at \in {"wait", "cancel"}
  <2>. DEFINE rest == (IF k.fallback /\ k.id = Limit THEN 8 * (Retries + 1) ELSE 0) + 8 * k.tries
  <2>1. rest \in Nat
    BY ConstantsAssumption DEF Call
  <2>2. Remaining(k) = rest + Stage[k.at] /\ Remaining(m) = rest + Stage[m.at]
    BY <1>4 DEF Remaining
  <2>. HIDE DEF rest
  <2>3. /\ Stage[k.at] \in Nat /\ Stage[m.at] \in Nat
        /\ \/ Stage[m.at] < Stage[k.at]
           \/ m.at = k.at /\ m.at \in {"wait", "cancel"}
    BY <1>4 DEF Stage
  <2>. QED
    BY <2>1, <2>2, <2>3
<1>. QED
  BY <1>1, <1>2, <1>3, <1>4 DEF Onward

\* No such step brings a call of another kind to wait.
LEMMA OnwardKeepsLeg ==
  ASSUME NEW k \in Call, NEW m, Onward(k, m), OnLimitLeg(k)
  PROVE  OnLimitLeg(m)
BY DEF OnLimitLeg, Onward, NoCall, NewCall, Failed, Attempt

\* What the end of a connection makes of a call is such a step.
LEMMA CutIsOnward ==
  ASSUME NEW k \in Call
  PROVE  Onward(k, Cut(k))
<1>1. CASE k.at = "find"
  BY <1>1 DEF Cut, Onward
<1>2. CASE k.at \in {"wait", "cancel"}
  <2>1. /\ Cut(k).id = k.id /\ Cut(k).fallback = k.fallback /\ Cut(k).tries = k.tries
        /\ Cut(k).at = k.at
    BY <1>2 DEF Cut, Call
  <2>. QED
    BY <1>2, <2>1 DEF Onward
<1>3. CASE k.at \notin {"find", "wait", "cancel"}
  BY <1>3 DEF Cut, Onward
<1>. QED
  BY <1>1, <1>2, <1>3

\* So is what a connection in order makes of one.
LEMMA ConnectedIsOnward ==
  ASSUME NEW k \in Call, k.at \in {"connect", "repair"}
  PROVE  Onward(k, Connected(k))
<1>1. CASE k.at = "connect"
  <2>1. /\ Connected(k).id = k.id /\ Connected(k).fallback = k.fallback
        /\ Connected(k).tries = k.tries /\ Connected(k).at = "load"
    BY <1>1 DEF Connected, Call
  <2>. QED
    BY <1>1, <2>1 DEF Onward
<1>2. CASE k.at = "repair" /\ k.tries = 0
  BY <1>2 DEF Connected, Onward
<1>3. CASE k.at = "repair" /\ k.tries # 0
  <2>1. /\ Connected(k).id = k.id /\ Connected(k).fallback = k.fallback
        /\ Connected(k).tries = k.tries /\ Connected(k).at = "connect"
    BY <1>3 DEF Connected, Call
  <2>. QED
    BY <1>3, <2>1 DEF Onward
<1>. QED
  BY <1>1, <1>2, <1>3

\* And a Trade that was found or placed.
LEMMA HoldingIsOnward ==
  ASSUME NEW k \in Call, k.at \in {"find", "record"}, NEW n
  PROVE  Onward(k, Holding(k, n))
<1>1. CASE k.fallback /\ k.id = Limit
  <2>1. /\ Holding(k, n).id = k.id /\ Holding(k, n).fallback = k.fallback
        /\ Holding(k, n).tries = k.tries /\ Holding(k, n).at = "wait"
    BY <1>1 DEF Holding, Call
  <2>. QED
    BY <1>1, <2>1 DEF Onward
<1>2. CASE ~ (k.fallback /\ k.id = Limit)
  BY <1>2 DEF Holding, Onward
<1>. QED
  BY <1>1, <1>2

\* A step that moves one call moves no other.
LEMMA OneGoesOn ==
  ASSUME call \in [Callers -> Call], NEW c \in Callers, NEW k, Onward(call[c], k), Goto(c, k)
  PROVE  \A d \in Callers : Onward(call[d], call'[d])
<1>1. call'[c] = k /\ \A d \in Callers \ {c} : call'[d] = call[d]
  BY DEF Goto
<1>2. \A d \in Callers : Onward(call[d], call[d])
  BY DEF Onward
<1>. QED
  BY <1>1, <1>2

\* A call only goes on by the steps of its own coroutine, of the connection and of
\* the reports.
LEMMA CallsGoOn ==
  ASSUME call \in [Callers -> Call], [Next]_vars
  PROVE  \A c \in Callers : Onward(call[c], call'[c])
<1>1. CASE UNCHANGED call
  BY <1>1 DEF Onward
<1>2. ASSUME NEW c \in Callers, NEW id, NEW fallback, call[c].at = "idle",
             Goto(c, NewCall(id, fallback))
      PROVE  \A d \in Callers : Onward(call[d], call'[d])
  <2>1. NewCall(id, fallback).at = "connect"
    BY DEF NewCall, Attempt
  <2>2. Onward(call[c], NewCall(id, fallback))
    BY <1>2, <2>1 DEF Onward
  <2>. QED
    BY <1>2, <2>2, OneGoesOn
<1>3. ASSUME NEW c \in Callers, Proceed(c)
      PROVE  \A d \in Callers : Onward(call[d], call'[d])
  <2>1. CASE AttemptTooLate(c) \/ RefuseDuplicate(c) \/ LimitDone(c) \/ NoFallback(c)
    <3>1. Goto(c, NoCall)
      BY <2>1 DEF AttemptTooLate, RefuseDuplicate, LimitDone, NoFallback
    <3>2. Onward(call[c], NoCall)
      BY DEF Onward
    <3>. QED
      BY <3>1, <3>2, OneGoesOn
  <2>2. CASE EnsureConnected(c)
    <3>1. call[c].at \in {"connect", "repair"} /\ Goto(c, Connected(call[c]))
      BY <2>2 DEF EnsureConnected, MayAttempt
    <3>2. Onward(call[c], Connected(call[c]))
      BY <3>1, ConnectedIsOnward
    <3>. QED
      BY <3>1, <3>2, OneGoesOn
  <2>3. CASE Reconnect(c)
    <3>1. call[c].at \in {"connect", "repair"}
      BY <2>3 DEF Reconnect, MustReconnect, MayAttempt
    <3>2. \A d \in Callers : call'[d] = IF d = c THEN Connected(call[d]) ELSE Cut(call[d])
      BY <2>3 DEF Reconnect
    <3>3. Onward(call[c], Connected(call[c])) /\ \A d \in Callers : Onward(call[d], Cut(call[d]))
      BY <3>1, ConnectedIsOnward, CutIsOnward
    <3>. QED
      BY <3>2, <3>3
  <2>4. CASE ReconnectFails(c)
    <3>1. \A d \in Callers : call'[d] = IF d # c THEN Cut(call[d])
                                        ELSE IF call[c].at = "connect" THEN Failed(call[c])
                                        ELSE NoCall
      BY <2>4 DEF ReconnectFails
    <3>2. \A d \in Callers : Onward(call[d], Cut(call[d]))
      BY CutIsOnward
    <3>3. call[c].at = "connect" => Onward(call[c], Failed(call[c]))
      BY DEF Onward
    <3>4. Onward(call[c], NoCall)
      BY DEF Onward
    <3>. QED
      BY <3>1, <3>2, <3>3, <3>4
  <2>5. CASE Load(c)
    <3>1. call[c].at = "load"
      BY <2>5 DEF Load
    <3>2. CASE Goto(c, Failed(call[c]))
      <4>1. Onward(call[c], Failed(call[c]))
        BY <3>1 DEF Onward
      <4>. QED
        BY <3>2, <4>1, OneGoesOn
    <3>3. ASSUME NEW prior, Goto(c, [call[c] EXCEPT !.at = "find", !.prior = prior])
          PROVE  \A d \in Callers : Onward(call[d], call'[d])
      <4>. DEFINE k == [call[c] EXCEPT !.at = "find", !.prior = prior]
      <4>1. k.id = call[c].id /\ k.fallback = call[c].fallback /\ k.tries = call[c].tries
            /\ k.at = "find"
        BY DEF Call
      <4>2. Goto(c, k)
        BY <3>3
      <4>. HIDE DEF k
      <4>3. Onward(call[c], k)
        BY <3>1, <4>1 DEF Onward
      <4>. QED
        BY <4>2, <4>3, OneGoesOn
    <3>. QED
      BY <2>5, <3>2, <3>3 DEF Load
  <2>6. CASE FindExisting(c)
    <3>1. PICK n : Goto(c, Holding(call[c], n)) /\ call[c].at = "find"
      BY <2>6 DEF FindExisting
    <3>2. Onward(call[c], Holding(call[c], n))
      BY <3>1, HoldingIsOnward
    <3>. QED
      BY <3>1, <3>2, OneGoesOn
  <2>7. CASE Place(c)
    <3>. DEFINE k == [call[c] EXCEPT !.at = "record", !.order = Len(orders) + 1]
    <3>1. k.id = call[c].id /\ k.fallback = call[c].fallback /\ k.tries = call[c].tries
          /\ k.at = "record"
      BY DEF Call
    <3>2. Goto(c, k) /\ call[c].at = "find"
      BY <2>7 DEF Place
    <3>. HIDE DEF k
    <3>3. Onward(call[c], k)
      BY <3>1, <3>2 DEF Onward
    <3>. QED
      BY <3>2, <3>3, OneGoesOn
  <2>8. CASE Record(c)
    <3>1. Goto(c, Holding(call[c], call[c].order)) /\ call[c].at = "record"
      BY <2>8 DEF Record
    <3>2. Onward(call[c], Holding(call[c], call[c].order))
      BY <3>1, HoldingIsOnward
    <3>. QED
      BY <3>1, <3>2, OneGoesOn
  <2>9. CASE LimitTimeout(c)
    <3>. DEFINE k == [call[c] EXCEPT !.at = "cancel"]
    <3>1. k.id = call[c].id /\ k.fallback = call[c].fallback /\ k.tries = call[c].tries
          /\ k.at = "cancel"
      BY DEF Call
    <3>2. (Goto(c, k) \/ Goto(c, NoCall)) /\ call[c].at = "wait"
      BY <2>9 DEF LimitTimeout
    <3>. HIDE DEF k
    <3>3. Onward(call[c], k) /\ Onward(call[c], NoCall)
      BY <3>1, <3>2 DEF Onward
    <3>. QED
      BY <3>2, <3>3, OneGoesOn
  <2>10. CASE FallBack(c)
    <3>1. Goto(c, NewCall(Market, TRUE)) /\ call[c].at = "cancel"
      BY <2>10 DEF FallBack
    <3>2. Onward(call[c], NewCall(Market, TRUE))
      BY <3>1 DEF Onward
    <3>. QED
      BY <3>1, <3>2, OneGoesOn
  <2>. QED
    BY <1>3, <2>1, <2>2, <2>3, <2>4, <2>5, <2>6, <2>7, <2>8, <2>9, <2>10 DEF Proceed
<1>4. ASSUME NEW n \in DOMAIN orders, Report(n)
      PROVE  \A d \in Callers : Onward(call[d], call'[d])
  <2>. TAKE d \in Callers
  <2>1. \/ call'[d] = call[d]
        \/ /\ call'[d] = [call[d] EXCEPT !.view = orders[n].status]
           /\ call[d].at \in {"wait", "cancel"}
    BY <1>4 DEF Report
  <2>2. call[d] \in Call
    OBVIOUS
  <2>. QED
    BY <2>1, <2>2 DEF Onward, Call
<1>5. CASE Drop \/ Crash
  <2>1. \A d \in Callers : call'[d] = Cut(call[d]) \/ call'[d] = NoCall
    BY <1>5 DEF Drop, Crash
  <2>2. \A d \in Callers : Onward(call[d], Cut(call[d])) /\ Onward(call[d], NoCall)
    BY CutIsOnward DEF Onward
  <2>. QED
    BY <2>1, <2>2
<1>6. ASSUME \/ \E n \in DOMAIN orders : Deliver(n) \/ Fill(n) \/ Cancel(n)
             \/ ConnectivityError \/ WindowCloses \/ UNCHANGED vars
      PROVE  UNCHANGED call
  BY <1>6 DEF Deliver, Fill, Cancel, ConnectivityError, WindowCloses, vars
<1>7. CASE \/ \E c \in Callers : BeginFallback(c)
           \/ \E c \in Callers, id \in Alone : BeginSubmit(c, id)
  BY <1>2, <1>7 DEF BeginFallback, BeginSubmit
<1>. QED
  BY <1>1, <1>3, <1>4, <1>5, <1>6, <1>7 DEF Next, Gateway

\* Waiting and cancelling stay with the limit leg.
LEMMA LegsKept ==
  ASSUME SubmissionInv, \A c \in Callers : OnLimitLeg(call[c]), [Next]_vars
  PROVE  (\A c \in Callers : OnLimitLeg(call[c]))'
<1>1. call \in [Callers -> Call]
  BY DEF SubmissionInv, TypeOK
<1>2. \A c \in Callers : OnLimitLeg(call'[c])
  BY <1>1, CallsGoOn, OnwardKeepsLeg
<1>. QED
  BY <1>2 DEF OnLimitLeg

\* _restart_retry and submit_limit_with_market_fallback are bounded: for any number of
\* callers and attempts, a call that was begun only gets nearer to its end, whatever
\* the Gateway and the connection do.
THEOREM CallsComeToAnEnd == Spec => CallsAdvance
<1>. DEFINE Legs == \A c \in Callers : OnLimitLeg(call[c])
            Gains == \A c \in Callers :
                       call[c].at # "idle" /\ call[c]' # call[c] =>
                         \/ Remaining(call[c])' < Remaining(call[c])
                         \/ /\ Remaining(call[c])' = Remaining(call[c])
                            /\ call[c]'.at \in {"wait", "cancel"}
<1>1. Init => Legs
  BY DEF Init, OnLimitLeg, NoCall, Attempt
<1>2. SubmissionInv /\ Legs /\ [Next]_vars => Legs'
  BY LegsKept
<1>3. SubmissionInv /\ Legs /\ [Next]_vars => [Gains]_vars
  <2>. SUFFICES ASSUME SubmissionInv, Legs, [Next]_vars, NEW c \in Callers
                PROVE  Nearer(call[c], call'[c])
    BY DEF Nearer, Remaining
  <2>1. call \in [Callers -> Call] /\ call[c] \in Call
    BY DEF SubmissionInv, TypeOK
  <2>2. Onward(call[c], call'[c])
    BY <2>1, CallsGoOn
  <2>3. call[c].at \in {"connect", "load", "find"} => call[c].tries > 0
    BY DEF SubmissionInv, Sound
  <2>. QED
    BY <2>1, <2>2, <2>3, OnwardIsNearer
<1>. HIDE DEF Legs, Gains
<1>4. Spec => [][Gains]_vars
  BY <1>1, <1>2, <1>3, SubmissionInvariant, PTL DEF Spec
<1>. QED
  BY <1>4 DEF CallsAdvance, Gains
=============================================================================
