-------------------------- MODULE Sessions_proofs ---------------------------
(***************************************************************************)
(* Proofs about Sessions, for any number of viewers, when no two of them   *)
(* share a session id: the end of the last session gives everything back,  *)
(* and an open peer connection can be found in the session table.          *)
(***************************************************************************)
EXTENDS Sessions, FiniteSetTheorems, TLAPS

\* HTTP and the cloud draw a fresh uuid per offer, and a browser makes one offer per signalling
\* connection.  A second offer on the same WebSocket replaces the first one's table entry.
OwnIds == \A s, t \in Sessions : Id[s] = Id[t] => s = t

-----------------------------------------------------------------------------
(* The ICE handlers and what they share *)

Leaving == {"stopVideo", "checkNone", "detach"}

\* is_connected says where the handler is, and the handler never sees a second Connected.
HandlerKnows ==
    \A s \in Sessions :
        /\ handler[s] \in Connecting \cup {"uncount"} => connected[s]
        /\ handler[s] \in Leaving => ~connected[s]
        /\ connected[s] => ice[s] # {}

\* CURRENT_SESSION names a connected session that has not cleared it yet.
CurrentIsConnected ==
    \A s \in Sessions : current = Id[s] =>
        connected[s] /\ handler[s] \in {"rest", "readCurrent", "clearCurrent"}

\* A track stays in the sink only as long as somebody is connected or about to detach it.
SinkIsUsed == sink # None => \E t \in Sessions : connected[t] \/ handler[t] \in Leaving

Counted == {s \in Sessions : connected[s] /\ handler[s] # "count"}

\* SESSION_COUNTER counts the connected sessions, from increment_session_counter on.
CounterCounts == IsFiniteSet(Counted) /\ counter = Cardinality(Counted)

CurrentIsId == current # None => \E s \in Sessions : current = Id[s]

IceInv == HandlerKnows /\ CurrentIsConnected /\ SinkIsUsed /\ CounterCounts /\ CurrentIsId

-----------------------------------------------------------------------------
(* The offers and the table *)

\* Where an offer handler has registered its session: "ws" and "sio" do so before the exchange.
Registered(s) ==
    offer[s] \in {"setCurrent", "done"} \/ (path[s] # "http" /\ offer[s] \in {"exchange", "takeover"})

\* A registered session stays in the table until somebody closes its peer connection.
TableHolds == \A s \in Sessions : pc[s] = "open" /\ Registered(s) => table[Id[s]] = s

IInv == TypeOK /\ IceInv /\ TableHolds
-----------------------------------------------------------------------------
(* Types *)

\* The three operations of state.rs on the table keep it in its type.
LEMMA TableType ==
    ASSUME TypeOK, NEW s \in Sessions, NEW i \in Ids
    PROVE  /\ AddSession(s) => table' \in [Ids -> Sessions \cup {None}] /\ appCurrent' \in Ids \cup {None}
           /\ RemoveSession(i) => /\ table' \in [Ids -> Sessions \cup {None}]
                                  /\ appCurrent' \in Ids \cup {None}
                                  /\ pc' \in [Sessions -> {"none", "open", "closed"}]
<1>1. Id[s] \in Ids
  BY IdAssumption
<1>2. ASSUME AddSession(s) PROVE table' \in [Ids -> Sessions \cup {None}] /\ appCurrent' \in Ids \cup {None}
  BY <1>1, <1>2 DEF TypeOK, AddSession
<1>3. ASSUME RemoveSession(i)
      PROVE /\ table' \in [Ids -> Sessions \cup {None}]
            /\ appCurrent' \in Ids \cup {None}
            /\ pc' \in [Sessions -> {"none", "open", "closed"}]
  BY <1>3 DEF TypeOK, RemoveSession
<1> QED BY <1>2, <1>3

\* The steps of the offer handlers and of those who remove a session keep the type.
LEMMA OfferType ==
    ASSUME TypeOK, NEW s \in Sessions,
           Offer(s) \/ SignallingEnds(s) \/ \E p \in Paths : NewSession(s, p)
    PROVE  TypeOK'
<1> USE DEF TypeOK, iceVars, Then
<1>0. Id[s] \in Ids
  BY IdAssumption
<1>1. CASE ExchangeOffer(s)
  BY <1>1 DEF ExchangeOffer
<1>2. CASE ExchangeFails(s)
  <2>1. offer' \in [Sessions -> {"none", "exchange", "takeover", "register", "setCurrent", "done", "failed"}]
    BY <1>2 DEF ExchangeFails
  <2>2. /\ table' \in [Ids -> Sessions \cup {None}]
        /\ appCurrent' \in Ids \cup {None}
        /\ pc' \in [Sessions -> {"none", "open", "closed"}]
    BY <1>0, <1>2, TableType DEF ExchangeFails
  <2> QED BY <1>2, <2>1, <2>2 DEF ExchangeFails
<1>3. CASE Takeover(s)
  BY <1>3 DEF Takeover
<1>4. CASE Register(s)
  <2>1. offer' \in [Sessions -> {"none", "exchange", "takeover", "register", "setCurrent", "done", "failed"}]
    BY <1>4 DEF Register
  <2>2. table' \in [Ids -> Sessions \cup {None}] /\ appCurrent' \in Ids \cup {None}
    BY <1>0, <1>4, TableType DEF Register
  <2> QED BY <1>4, <2>1, <2>2 DEF Register
<1>5. CASE SetAppCurrent(s)
  BY <1>0, <1>5 DEF SetAppCurrent
<1>6. CASE SignallingEnds(s)
  BY <1>0, <1>6, TableType DEF SignallingEnds
<1>7. ASSUME NEW p \in Paths, NewSession(s, p) PROVE TypeOK'
  <2>1. table' \in [Ids -> Sessions \cup {None}] /\ appCurrent' \in Ids \cup {None}
    BY <1>0, <1>7, TableType DEF NewSession
  <2>2. offer' \in [Sessions -> {"none", "exchange", "takeover", "register", "setCurrent", "done", "failed"}]
    BY <1>7 DEF NewSession
  <2>3. path' \in [Sessions -> Paths] /\ pc' \in [Sessions -> {"none", "open", "closed"}]
    BY <1>7 DEF NewSession
  <2> QED BY <1>7, <2>1, <2>2, <2>3 DEF NewSession
<1> QED BY <1>1, <1>2, <1>3, <1>4, <1>5, <1>6, <1>7 DEF Offer

LEMMA HandlerType ==
    ASSUME TypeOK, NEW s \in Sessions, IceConnected(s) \/ IceEnds(s, "failed") \/ Handler(s)
    PROVE  TypeOK'
<1> USE DEF TypeOK, offerVars, Goto
<1>0. Id[s] \in Ids
  BY IdAssumption
<1>1. CASE IceConnected(s)
  <2>1. connected' \in [Sessions -> BOOLEAN]
    BY <1>1, Zenon DEF IceConnected
  <2> QED BY <1>1, <2>1 DEF IceConnected, Connecting
<1>2. CASE Count(s)
  <2>1. handler' \in [Sessions -> {"rest"} \cup Connecting \cup Closing]
    BY <1>2 DEF Count, Connecting
  <2> QED BY <1>2, <2>1 DEF Count
<1>3. CASE StartVideo(s)
  <2>1. handler' \in [Sessions -> {"rest"} \cup Connecting \cup Closing]
    BY <1>3 DEF StartVideo, Connecting
  <2> QED BY <1>3, <2>1 DEF StartVideo
<1>4. CASE Attach(s)
  BY <1>4 DEF Attach, Connecting
<1>5. CASE SetCurrent(s)
  BY <1>0, <1>5 DEF SetCurrent
<1>6. ASSUME NEW e \in {"failed", "closed"}, IceEnds(s, e) PROVE TypeOK'
  <2>1. handler' \in [Sessions -> {"rest"} \cup Connecting \cup Closing]
    BY <1>6 DEF IceEnds, Closing
  <2>2. ice' \in [Sessions -> SUBSET {"connected", "failed", "closed"}]
    BY <1>6 DEF IceEnds
  <2> QED BY <1>6, <2>1, <2>2 DEF IceEnds
<1>7. CASE ReadCurrent(s)
  BY <1>7 DEF ReadCurrent, Closing
<1>8. CASE ClearCurrent(s)
  BY <1>8 DEF ClearCurrent, Closing
<1>9. CASE Uncount(s)
  <2>1. handler' \in [Sessions -> {"rest"} \cup Connecting \cup Closing]
    BY <1>9 DEF Uncount, Closing
  <2>2. connected' \in [Sessions -> BOOLEAN]
    BY <1>9, Zenon DEF Uncount
  <2>3. counter' \in Nat
    BY <1>9 DEF Uncount
  <2> QED BY <1>9, <2>1, <2>2, <2>3 DEF Uncount
<1>10. CASE StopVideo(s)
  <2>1. handler' \in [Sessions -> {"rest"} \cup Connecting \cup Closing]
    BY <1>10 DEF StopVideo, Closing
  <2> QED BY <1>10, <2>1 DEF StopVideo
<1>11. CASE CheckNone(s)
  BY <1>11 DEF CheckNone, Closing
<1>12. CASE Detach(s)
  BY <1>12 DEF Detach, Closing
<1>13. CASE Remove(s)
  <2>1. handler' \in [Sessions -> {"rest"} \cup Connecting \cup Closing]
    BY <1>13 DEF Remove
  <2> QED BY <1>0, <1>13, <2>1, TableType DEF Remove
<1> QED BY <1>1, <1>2, <1>3, <1>4, <1>5, <1>6, <1>7, <1>8, <1>9, <1>10, <1>11, <1>12, <1>13 DEF Handler

LEMMA TypeStep == TypeOK /\ [Next]_vars => TypeOK'
<1> SUFFICES ASSUME TypeOK, [Next]_vars PROVE TypeOK'
  OBVIOUS
<1>1. ASSUME NEW i \in Ids, CloseTakenOver(i) PROVE TypeOK'
  <2>1. /\ table' \in [Ids -> Sessions \cup {None}]
        /\ appCurrent' \in Ids \cup {None}
        /\ pc' \in [Sessions -> {"none", "open", "closed"}]
    BY <1>1 DEF TypeOK, CloseTakenOver, RemoveSession
  <2> QED BY <1>1, <2>1 DEF TypeOK, CloseTakenOver, iceVars
<1>2. CASE UNCHANGED vars
  BY <1>2 DEF TypeOK, vars, offerVars, iceVars
<1> QED BY <1>1, <1>2, OfferType, HandlerType DEF Next
-----------------------------------------------------------------------------
(* The table *)

\* The session that remove_session takes out of the table is closed, and no other has its id.
LEMMA RemoveKeepsTable ==
    ASSUME TypeOK, TableHolds, NEW i \in Ids, RemoveSession(i),
           \A s \in Sessions : Registered(s)' => Registered(s)
    PROVE  TableHolds'
<1> SUFFICES ASSUME NEW s \in Sessions, pc'[s] = "open", Registered(s)' PROVE table'[Id[s]] = s
  BY DEF TableHolds
<1>1. s # table[i] /\ pc[s] = "open"
  BY DEF RemoveSession, TypeOK
<1>2. table[Id[s]] = s
  BY <1>1 DEF TableHolds
<1>3. Id[s] # i /\ Id[s] \in Ids
  BY <1>1, <1>2, IdAssumption
<1> QED BY <1>2, <1>3 DEF RemoveSession, TypeOK

\* add_session replaces whoever was registered under this id: nobody else.
LEMMA AddKeepsTable ==
    ASSUME OwnIds, TypeOK, TableHolds, NEW t \in Sessions, AddSession(t),
           \A s \in Sessions \ {t} : (Registered(s)' => Registered(s)) /\ pc'[s] = pc[s]
    PROVE  TableHolds'
<1> SUFFICES ASSUME NEW s \in Sessions, pc'[s] = "open", Registered(s)' PROVE table'[Id[s]] = s
  BY DEF TableHolds
<1>1. Id[t] \in Ids /\ Id[s] \in Ids
  BY IdAssumption
<1>2. CASE s = t
  BY <1>1, <1>2 DEF AddSession, TypeOK
<1>3. CASE s # t
  <2>1. table[Id[s]] = s
    BY <1>3 DEF TableHolds
  <2>2. Id[s] # Id[t]
    BY <1>3 DEF OwnIds
  <2> QED BY <1>1, <2>1, <2>2 DEF AddSession, TypeOK
<1> QED BY <1>2, <1>3

LEMMA TableStep ==
    ASSUME OwnIds, TypeOK, TableHolds, [Next]_vars
    PROVE  TableHolds'
<1> USE DEF TypeOK, iceVars, offerVars, Then
<1>0. \A s \in Sessions : Id[s] \in Ids
  BY IdAssumption
<1>1. ASSUME NEW s \in Sessions, ExchangeOffer(s) PROVE TableHolds'
  BY <1>1 DEF ExchangeOffer, TableHolds, Registered
<1>2. ASSUME NEW s \in Sessions, ExchangeFails(s) PROVE TableHolds'
  <2>1. \A t \in Sessions : Registered(t)' => Registered(t)
    BY <1>2 DEF ExchangeFails, Registered
  <2>2. CASE path[s] = "http"
    BY <1>2, <2>1, <2>2 DEF ExchangeFails, TableHolds
  <2>3. CASE path[s] # "http"
    BY <1>0, <1>2, <2>1, <2>3, RemoveKeepsTable DEF ExchangeFails
  <2> QED BY <2>2, <2>3
<1>3. ASSUME NEW s \in Sessions, Takeover(s) PROVE TableHolds'
  BY <1>3 DEF Takeover, TableHolds, Registered
<1>4. ASSUME NEW s \in Sessions, Register(s) PROVE TableHolds'
  <2>1. \A t \in Sessions \ {s} : (Registered(t)' => Registered(t)) /\ pc'[t] = pc[t]
    BY <1>4 DEF Register, Registered
  <2> QED BY <1>4, <2>1, AddKeepsTable DEF Register
<1>5. ASSUME NEW s \in Sessions, SetAppCurrent(s) PROVE TableHolds'
  BY <1>5 DEF SetAppCurrent, TableHolds, Registered
<1>6. ASSUME NEW s \in Sessions, SignallingEnds(s) PROVE TableHolds'
  <2>1. \A t \in Sessions : Registered(t)' => Registered(t)
    BY <1>6 DEF SignallingEnds, Registered
  <2> QED BY <1>0, <1>6, <2>1, RemoveKeepsTable DEF SignallingEnds
<1>7. ASSUME NEW s \in Sessions, NEW p \in Paths, NewSession(s, p) PROVE TableHolds'
  <2>1. \A t \in Sessions \ {s} : (Registered(t)' => Registered(t)) /\ pc'[t] = pc[t]
    BY <1>7 DEF NewSession, Registered
  <2>2. CASE p = "http"
    <3>1. ~Registered(s)'
      BY <1>7, <2>2 DEF NewSession, Registered
    <3> QED BY <1>7, <2>1, <2>2, <3>1 DEF NewSession, TableHolds
  <2>3. CASE p # "http"
    BY <1>7, <2>1, <2>3, AddKeepsTable DEF NewSession
  <2> QED BY <2>2, <2>3
<1>8. ASSUME NEW s \in Sessions, IceConnected(s) \/ IceEnds(s, "failed") \/ Handler(s) PROVE TableHolds'
  <2>1. \A t \in Sessions : Registered(t)' => Registered(t)
    BY <1>8 DEF Registered, IceConnected, IceEnds, Handler, Count, StartVideo, Attach, SetCurrent, ReadCurrent,
       ClearCurrent, Uncount, StopVideo, CheckNone, Detach, Remove
  <2>2. CASE Remove(s)
    BY <1>0, <2>1, <2>2, RemoveKeepsTable DEF Remove
  <2>3. CASE ~Remove(s)
    <3>1. UNCHANGED <<pc, table>>
      BY <1>8, <2>3 DEF IceConnected, IceEnds, Handler, Count, StartVideo, Attach, SetCurrent, ReadCurrent,
         ClearCurrent, Uncount, StopVideo, CheckNone, Detach
    <3> QED BY <2>1, <3>1 DEF TableHolds
  <2> QED BY <2>2, <2>3
<1>9. ASSUME NEW i \in Ids, CloseTakenOver(i) PROVE TableHolds'
  <2>1. \A t \in Sessions : Registered(t)' => Registered(t)
    BY <1>9 DEF CloseTakenOver, Registered
  <2> QED BY <1>9, <2>1, RemoveKeepsTable DEF CloseTakenOver
<1>10. CASE UNCHANGED vars
  BY <1>10 DEF vars, TableHolds, Registered
<1> QED BY <1>1, <1>2, <1>3, <1>4, <1>5, <1>6, <1>7, <1>8, <1>9, <1>10 DEF Next, Offer
-----------------------------------------------------------------------------
(* The ICE handlers *)

\* One more session counts, one less, or the same ones do.
LEMMA CounterStep ==
    ASSUME TypeOK, CounterCounts, NEW s \in Sessions,
           \/ counter' = counter /\ Counted' = Counted
           \/ counter' = counter + 1 /\ Counted' = Counted \cup {s} /\ s \notin Counted
           \/ /\ counter' = IF counter = 0 THEN 0 ELSE counter - 1
              /\ Counted' = Counted \ {s} /\ s \in Counted
    PROVE  CounterCounts'
<1>1. IsFiniteSet(Counted) /\ counter = Cardinality(Counted) /\ counter \in Nat
  BY DEF CounterCounts, TypeOK
<1> HIDE DEF Counted
<1>2. CASE counter' = counter /\ Counted' = Counted
  BY <1>1, <1>2 DEF CounterCounts
<1>3. CASE counter' = counter + 1 /\ Counted' = Counted \cup {s} /\ s \notin Counted
  <2>1. IsFiniteSet(Counted \cup {s}) /\ Cardinality(Counted \cup {s}) = Cardinality(Counted) + 1
    BY <1>1, <1>3, FS_AddElement
  <2> QED BY <1>1, <1>3, <2>1 DEF CounterCounts
<1>4. CASE /\ counter' = IF counter = 0 THEN 0 ELSE counter - 1
           /\ Counted' = Counted \ {s} /\ s \in Counted
  <2>1. IsFiniteSet(Counted \ {s}) /\ Cardinality(Counted \ {s}) = Cardinality(Counted) - 1
    BY <1>1, <1>4, FS_RemoveElement
  <2>2. Cardinality(Counted \ {s}) \in Nat
    BY <2>1, FS_CardinalityType
  <2>3. counter # 0
    BY <1>1, <2>1, <2>2
  <2> QED BY <1>1, <1>4, <2>1, <2>3 DEF CounterCounts
<1> QED BY <1>2, <1>3, <1>4

\* A step of one handler that changes neither is_connected nor the three shared cells.
LEMMA QuietStep ==
    ASSUME TypeOK, IceInv, NEW s \in Sessions, NEW l,
           \A t \in Sessions : handler'[t] = IF t = s THEN l ELSE handler[t],
           \A t \in Sessions : connected'[t] <=> connected[t],
           \A t \in Sessions : ice[t] # {} => ice'[t] # {},
           UNCHANGED <<counter, current, sink>>,
           handler[s] # "count", l # "count",
           l \in Connecting \cup {"uncount"} => connected[s],
           l \in Leaving => ~connected[s],
           current = Id[s] => l \in {"rest", "readCurrent", "clearCurrent"},
           handler[s] \in Leaving => l \in Leaving \/ current # None
    PROVE  IceInv'
<1>1. HandlerKnows'
  BY DEF IceInv, HandlerKnows
<1>2. CurrentIsConnected' /\ CurrentIsId'
  BY DEF IceInv, CurrentIsConnected, CurrentIsId
<1>3. SinkIsUsed'
  <2> SUFFICES ASSUME sink # None PROVE \E t \in Sessions : connected'[t] \/ handler'[t] \in Leaving
    BY DEF SinkIsUsed
  <2>1. PICK t \in Sessions : connected[t] \/ handler[t] \in Leaving
    BY DEF IceInv, SinkIsUsed
  <2>2. CASE connected[t] \/ t # s \/ l \in Leaving
    BY <2>1, <2>2
  <2>3. CASE current # None
    <3>1. PICK r \in Sessions : connected[r]
      BY <2>3 DEF IceInv, CurrentIsId, CurrentIsConnected
    <3> QED BY <3>1
  <2> QED BY <2>1, <2>2, <2>3
<1>4. CounterCounts'
  <2>1. Counted' = Counted
    BY DEF Counted
  <2> QED BY <2>1, CounterStep DEF IceInv
<1> QED BY <1>1, <1>2, <1>3, <1>4 DEF IceInv

LEMMA HandlerStep ==
    ASSUME OwnIds, TypeOK, IceInv, NEW s \in Sessions,
           IceConnected(s) \/ IceEnds(s, "failed") \/ Handler(s)
    PROVE  IceInv'
<1> USE DEF TypeOK, Goto
<1>1. CASE IceConnected(s)
  <2>1. \A t \in Sessions : /\ handler'[t] = IF t = s THEN "count" ELSE handler[t]
                            /\ connected'[t] <=> (t = s \/ connected[t])
                            /\ ice'[t] = IF t = s THEN {"connected"} ELSE ice[t]
    BY <1>1 DEF IceConnected
  <2>2. ~connected[s] /\ handler[s] = "rest" /\ UNCHANGED <<counter, current, sink>>
    BY <1>1 DEF IceConnected, IceInv, HandlerKnows
  <2>3. HandlerKnows'
    BY <2>1, <2>2 DEF IceInv, HandlerKnows, Connecting, Leaving
  <2>4. CurrentIsConnected' /\ CurrentIsId'
    BY <2>1, <2>2 DEF IceInv, CurrentIsConnected, CurrentIsId
  <2>5. SinkIsUsed'
    BY <2>1 DEF SinkIsUsed
  <2>6. Counted' = Counted
    BY <2>1, <2>2 DEF Counted
  <2> QED BY <2>2, <2>3, <2>4, <2>5, <2>6, CounterStep DEF IceInv
<1>2. CASE Count(s)
  <2>1. PICK l \in {"startVideo", "attach"} :
          \A t \in Sessions : handler'[t] = IF t = s THEN l ELSE handler[t]
    BY <1>2 DEF Count
  <2>2. handler[s] = "count" /\ connected[s] /\ UNCHANGED <<connected, ice, current, sink>>
    BY <1>2 DEF Count, IceInv, HandlerKnows, Connecting
  <2>3. HandlerKnows'
    BY <2>1, <2>2 DEF IceInv, HandlerKnows, Connecting, Leaving
  <2>4. CurrentIsConnected' /\ CurrentIsId'
    BY <2>1, <2>2 DEF IceInv, CurrentIsConnected, CurrentIsId
  <2>5. SinkIsUsed'
    BY <2>2 DEF SinkIsUsed
  <2>6. counter' = counter + 1 /\ Counted' = Counted \cup {s} /\ s \notin Counted
    BY <1>2, <2>1, <2>2 DEF Counted, Count
  <2> QED BY <2>3, <2>4, <2>5, <2>6, CounterStep DEF IceInv
<1>3. CASE StartVideo(s)
  <2>1. connected[s] /\ current # Id[s] /\ handler[s] = "startVideo"
    BY <1>3 DEF StartVideo, IceInv, HandlerKnows, CurrentIsConnected, Connecting
  <2>2. \A t \in Sessions : handler'[t] = IF t = s THEN "attach" ELSE handler[t]
    BY <1>3 DEF StartVideo
  <2>3. UNCHANGED <<connected, ice, counter, current, sink>>
    BY <1>3 DEF StartVideo
  <2> QED BY <2>1, <2>2, <2>3, QuietStep DEF Leaving
<1>4. CASE Attach(s)
  <2>1. connected[s] /\ handler[s] = "attach"
    BY <1>4 DEF Attach, IceInv, HandlerKnows, Connecting
  <2>2. \A t \in Sessions : handler'[t] = IF t = s THEN "setCurrent" ELSE handler[t]
    BY <1>4 DEF Attach
  <2>3. UNCHANGED <<connected, ice, counter, current>>
    BY <1>4 DEF Attach
  <2>4. HandlerKnows'
    BY <2>1, <2>2, <2>3 DEF IceInv, HandlerKnows, Leaving
  <2>5. CurrentIsConnected' /\ CurrentIsId'
    BY <2>1, <2>2, <2>3 DEF IceInv, CurrentIsConnected, CurrentIsId
  <2>6. SinkIsUsed'
    BY <2>1, <2>3 DEF SinkIsUsed
  <2>7. Counted' = Counted
    BY <2>1, <2>2, <2>3 DEF Counted
  <2> QED BY <2>3, <2>4, <2>5, <2>6, <2>7, CounterStep DEF IceInv
<1>5. CASE SetCurrent(s)
  <2>1. connected[s] /\ handler[s] = "setCurrent"
    BY <1>5 DEF SetCurrent, IceInv, HandlerKnows, Connecting
  <2>2. \A t \in Sessions : handler'[t] = IF t = s THEN "rest" ELSE handler[t]
    BY <1>5 DEF SetCurrent
  <2>3. current' = Id[s] /\ UNCHANGED <<connected, ice, counter, sink>>
    BY <1>5 DEF SetCurrent
  <2>4. HandlerKnows'
    BY <2>2, <2>3 DEF IceInv, HandlerKnows, Leaving, Connecting
  <2>5. CurrentIsConnected' /\ CurrentIsId'
    BY <2>1, <2>2, <2>3 DEF OwnIds, CurrentIsConnected, CurrentIsId
  <2>6. SinkIsUsed'
    BY <2>1, <2>3 DEF SinkIsUsed
  <2>7. Counted' = Counted
    BY <2>1, <2>2, <2>3 DEF Counted
  <2> QED BY <2>3, <2>4, <2>5, <2>6, <2>7, CounterStep DEF IceInv
<1>6. ASSUME NEW e \in {"failed", "closed"}, IceEnds(s, e) PROVE IceInv'
  <2>1. \A t \in Sessions : /\ handler'[t] = IF t = s THEN "readCurrent" ELSE handler[t]
                            /\ ice[t] # {} => ice'[t] # {}
    BY <1>6 DEF IceEnds
  <2>2. handler[s] = "rest" /\ UNCHANGED <<connected, counter, current, sink>>
    BY <1>6 DEF IceEnds
  <2> QED BY <2>1, <2>2, QuietStep DEF Leaving, Connecting
<1>7. CASE ReadCurrent(s)
  <2>1. PICK l \in {"clearCurrent", "uncount", "remove"} :
          /\ \A t \in Sessions : handler'[t] = IF t = s THEN l ELSE handler[t]
          /\ current = Id[s] => l = "clearCurrent"
          /\ l = "uncount" => connected[s]
    BY <1>7 DEF ReadCurrent
  <2>2. handler[s] = "readCurrent" /\ UNCHANGED <<connected, ice, counter, current, sink>>
    BY <1>7 DEF ReadCurrent
  <2> QED BY <2>1, <2>2, QuietStep DEF Leaving, Connecting
<1>8. CASE ClearCurrent(s)
  <2>1. PICK l \in {"uncount", "remove"} :
          /\ \A t \in Sessions : handler'[t] = IF t = s THEN l ELSE handler[t]
          /\ l = "uncount" => connected[s]
    BY <1>8 DEF ClearCurrent
  <2>2. handler[s] = "clearCurrent" /\ current' = None /\ UNCHANGED <<connected, ice, counter, sink>>
    BY <1>8 DEF ClearCurrent
  <2>3. HandlerKnows'
    BY <2>1, <2>2 DEF IceInv, HandlerKnows, Leaving, Connecting
  <2>4. CurrentIsConnected' /\ CurrentIsId'
    BY <2>2, IdAssumption, NoneAssumption DEF CurrentIsConnected, CurrentIsId
  <2>5. SinkIsUsed'
    BY <2>1, <2>2 DEF IceInv, SinkIsUsed, Leaving
  <2>6. Counted' = Counted
    BY <2>1, <2>2 DEF Counted
  <2> QED BY <2>2, <2>3, <2>4, <2>5, <2>6, CounterStep DEF IceInv
<1>9. CASE Uncount(s)
  <2>1. PICK l \in {"stopVideo", "checkNone"} :
          \A t \in Sessions : handler'[t] = IF t = s THEN l ELSE handler[t]
    BY <1>9 DEF Uncount
  <2>2. \A t \in Sessions : connected'[t] <=> (t # s /\ connected[t])
    BY <1>9 DEF Uncount
  <2>3. handler[s] = "uncount" /\ connected[s] /\ UNCHANGED <<ice, current, sink>>
    BY <1>9 DEF Uncount, IceInv, HandlerKnows
  <2>4. HandlerKnows'
    BY <2>1, <2>2, <2>3 DEF IceInv, HandlerKnows, Leaving, Connecting
  <2>5. current # Id[s]
    BY <2>3 DEF IceInv, CurrentIsConnected
  <2>6. CurrentIsConnected' /\ CurrentIsId'
    BY <2>1, <2>2, <2>3, <2>5 DEF IceInv, CurrentIsConnected, CurrentIsId
  <2>7. SinkIsUsed'
    BY <2>1 DEF SinkIsUsed, Leaving
  <2>8. Counted' = Counted \ {s} /\ s \in Counted
    BY <2>1, <2>2, <2>3 DEF Counted
  <2>9. counter' = IF counter = 0 THEN 0 ELSE counter - 1
    BY <1>9 DEF Uncount
  <2> QED BY <2>4, <2>6, <2>7, <2>8, <2>9, CounterStep DEF IceInv
<1>10. CASE StopVideo(s)
  <2>1. ~connected[s] /\ handler[s] = "stopVideo"
    BY <1>10 DEF StopVideo, IceInv, HandlerKnows, Leaving
  <2>2. current # Id[s]
    BY <2>1 DEF IceInv, CurrentIsConnected
  <2>3. \A t \in Sessions : handler'[t] = IF t = s THEN "checkNone" ELSE handler[t]
    BY <1>10 DEF StopVideo
  <2>4. UNCHANGED <<connected, ice, counter, current, sink>>
    BY <1>10 DEF StopVideo
  <2> QED BY <2>1, <2>2, <2>3, <2>4, QuietStep DEF Leaving, Connecting
<1>11. CASE CheckNone(s)
  <2>1. ~connected[s] /\ handler[s] = "checkNone"
    BY <1>11 DEF CheckNone, IceInv, HandlerKnows, Leaving
  <2>2. current # Id[s]
    BY <2>1 DEF IceInv, CurrentIsConnected
  <2>3. PICK l \in {"detach", "remove"} :
          /\ \A t \in Sessions : handler'[t] = IF t = s THEN l ELSE handler[t]
          /\ l = "remove" => current # None
    BY <1>11 DEF CheckNone
  <2>4. UNCHANGED <<connected, ice, counter, current, sink>>
    BY <1>11 DEF CheckNone
  <2> QED BY <2>1, <2>2, <2>3, <2>4, QuietStep DEF Leaving, Connecting
<1>12. CASE Detach(s)
  <2>1. \A t \in Sessions : handler'[t] = IF t = s THEN "remove" ELSE handler[t]
    BY <1>12 DEF Detach
  <2>2. handler[s] = "detach" /\ sink' = None /\ UNCHANGED <<connected, ice, counter, current>>
    BY <1>12 DEF Detach
  <2>3. HandlerKnows'
    BY <2>1, <2>2 DEF IceInv, HandlerKnows, Leaving, Connecting
  <2>4. CurrentIsConnected' /\ CurrentIsId'
    BY <2>1, <2>2 DEF IceInv, CurrentIsConnected, CurrentIsId
  <2>5. SinkIsUsed'
    BY <2>2 DEF SinkIsUsed
  <2>6. Counted' = Counted
    BY <2>1, <2>2 DEF Counted
  <2> QED BY <2>2, <2>3, <2>4, <2>5, <2>6, CounterStep DEF IceInv
<1>13. CASE Remove(s)
  <2>1. \A t \in Sessions : handler'[t] = IF t = s THEN "rest" ELSE handler[t]
    BY <1>13 DEF Remove
  <2>2. handler[s] = "remove" /\ UNCHANGED <<connected, ice, counter, current, sink>>
    BY <1>13 DEF Remove
  <2> QED BY <2>1, <2>2, QuietStep DEF Leaving, Connecting
<1> QED BY <1>1, <1>2, <1>3, <1>4, <1>5, <1>6, <1>7, <1>8, <1>9, <1>10, <1>11, <1>12, <1>13 DEF Handler
-----------------------------------------------------------------------------
(* The theorems *)

LEMMA SessionsInit == Init => IInv
<1> SUFFICES ASSUME Init PROVE IInv
  OBVIOUS
<1>1. connected \in [Sessions -> BOOLEAN] /\ \A s \in Sessions : ~connected[s]
  BY Zenon DEF Init
<1>2. TypeOK
  BY <1>1 DEF Init, TypeOK, Paths
<1>3. HandlerKnows
  BY <1>1 DEF Init, HandlerKnows, Connecting, Leaving
<1>4. CurrentIsConnected /\ CurrentIsId /\ SinkIsUsed
  BY IdAssumption, NoneAssumption DEF Init, CurrentIsConnected, CurrentIsId, SinkIsUsed
<1>5. CounterCounts
  <2>1. Counted = {}
    BY <1>1 DEF Counted
  <2>2. IsFiniteSet({}) /\ Cardinality({}) = 0
    BY FS_EmptySet
  <2> QED BY <2>1, <2>2 DEF CounterCounts, Init
<1>6. TableHolds
  BY DEF Init, TableHolds
<1> QED BY <1>2, <1>3, <1>4, <1>5, <1>6 DEF IInv, IceInv

LEMMA SessionsStep ==
    ASSUME OwnIds, IInv, [Next]_vars
    PROVE  IInv'
<1>1. TypeOK' /\ TableHolds'
  BY TypeStep, TableStep DEF IInv
<1>2. ASSUME UNCHANGED iceVars PROVE IceInv'
  BY <1>2 DEF iceVars, IInv, IceInv, HandlerKnows, CurrentIsConnected, SinkIsUsed, CounterCounts, Counted,
     CurrentIsId
<1>3. ASSUME NEW s \in Sessions, Offer(s) \/ SignallingEnds(s) \/ \E p \in Paths : NewSession(s, p)
      PROVE  UNCHANGED iceVars
  BY <1>3 DEF Offer, SignallingEnds, NewSession, ExchangeOffer, ExchangeFails, Takeover, Register, SetAppCurrent
<1>4. ASSUME NEW s \in Sessions, IceConnected(s) \/ IceEnds(s, "failed") \/ Handler(s) PROVE IceInv'
  BY <1>4, HandlerStep DEF IInv
<1>5. ASSUME NEW i \in Ids, CloseTakenOver(i) PROVE UNCHANGED iceVars
  BY <1>5 DEF CloseTakenOver
<1>6. ASSUME UNCHANGED vars PROVE IceInv'
  BY <1>2, <1>6 DEF vars
<1>7. IceInv'
  BY <1>2, <1>3, <1>4, <1>5, <1>6 DEF Next
<1> QED BY <1>1, <1>7 DEF IInv

LEMMA IInvHolds == OwnIds => (Spec => []IInv)
<1> SUFFICES ASSUME OwnIds PROVE Spec => []IInv
  OBVIOUS
<1>1. IInv /\ [Next]_vars => IInv'
  BY SessionsStep
<1> QED BY <1>1, SessionsInit, PTL DEF Spec

\* The end of the last session empties the sink, clears CURRENT_SESSION and brings the counter
\* back to zero, for any number of viewers that connect, fail and take over at any time: while
\* the sink is in use somebody is connected or still has to look whether to detach it.
THEOREM SessionsInvHolds == OwnIds => (Spec => []SessionsInv)
<1> SUFFICES ASSUME OwnIds PROVE Spec => []SessionsInv
  OBVIOUS
<1>1. IInv => SessionsInv
  <2> SUFFICES ASSUME IInv, \A s \in Sessions : handler[s] = "rest" /\ ~connected[s]
               PROVE  sink = None /\ current = None /\ counter = 0
    BY DEF SessionsInv, AllReleased, IInv
  <2>1. sink = None
    BY DEF IInv, IceInv, SinkIsUsed, Leaving
  <2>2. current = None
    BY DEF IInv, IceInv, CurrentIsId, CurrentIsConnected
  <2>3. Counted = {}
    BY DEF Counted
  <2>4. counter = 0
    <3>1. Cardinality({}) = 0
      BY FS_EmptySet
    <3> QED BY <2>3, <3>1 DEF IInv, IceInv, CounterCounts
  <2> QED BY <2>1, <2>2, <2>4
<1> QED BY <1>1, IInvHolds, PTL

\* A peer connection that is open once its offer was answered is in the session table, where
\* remove_session can close it, whichever way the offer came.
THEOREM OpenIsRegisteredHolds == OwnIds => (Spec => []OpenIsRegistered)
<1> SUFFICES ASSUME OwnIds PROVE Spec => []OpenIsRegistered
  OBVIOUS
<1>1. IInv => OpenIsRegistered
  BY DEF IInv, TableHolds, Registered, OpenIsRegistered
<1> QED BY <1>1, IInvHolds, PTL
=============================================================================
