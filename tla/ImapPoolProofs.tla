--------------------------- MODULE ImapPoolProofs ---------------------------
(***************************************************************************)
(* The connection handling of ImapPool for any number of callers,          *)
(* connections and folders: IInv is inductive, and the safety properties   *)
(* follow from it.                                                         *)
(***************************************************************************)
EXTENDS ImapPool, TLAPS

USE DEF NoCall

\* Before any call there is no connection and nothing noted.
LEMMA InitIInv == Init => IInv
  <1> SUFFICES ASSUME Init PROVE IInv
    OBVIOUS
  <1> USE NoneIsNoConnection DEF Init
  <1>1. TypeOK BY DEF TypeOK, PCs, Folders
  <1>2. UsesOK BY DEF UsesOK, Using
  <1>3. OwnedOnce BY DEF OwnedOnce
  <1>4. NoConnectionLeaks BY DEF NoConnectionLeaks
  <1>5. Uncrossed BY DEF Uncrossed, Using
  <1> QED BY <1>1, <1>2, <1>3, <1>4, <1>5 DEF IInv

\* Every step of a call keeps the types.
LEMMA StepTypes == ASSUME TypeOK, NEW t \in Callers, Step(t) PROVE TypeOK'
  <1> USE FoldersAreDistinct, NoneIsNoConnection
      DEF TypeOK, PCs, Goto, Close, Fails, Folders, Alive
  <1>1. CASE TakeNothing(t) BY <1>1 DEF TakeNothing
  <1>2. CASE TakeIdle(t) BY <1>2 DEF TakeIdle
  <1>3. CASE TakeExpired(t) BY <1>3 DEF TakeExpired
  <1>4. CASE Probe(t) BY <1>4 DEF Probe
  <1>5. CASE Dial(t) BY <1>5 DEF Dial
  <1>6. CASE Act(t) BY <1>6 DEF Act
  <1>7. CASE Note(t) BY <1>7 DEF Note
  <1>8. CASE Verify(t) BY <1>8 DEF Verify
  <1>9. CASE Forget(t) BY <1>9 DEF Forget
  <1>10. CASE Settle(t) BY <1>10 DEF Settle
  <1>11. CASE Restore(t) BY <1>11 DEF Restore
  <1>12. CASE Restored(t) BY <1>12 DEF Restored
  <1>13. CASE Cache(t) BY <1>13 DEF Cache
  <1> QED
    BY <1>1, <1>2, <1>3, <1>4, <1>5, <1>6, <1>7, <1>8, <1>9, <1>10, <1>11, <1>12, <1>13
    DEF Step

\* The part of the invariant that says who owns which connection.
Connections ==
  /\ UsesOK
  /\ idle # None => session[idle] # "closed"
  /\ OwnedOnce
  /\ NoConnectionLeaks

\* A caller that gives up its connection closes it.
LEMMA LosesConnection ==
  ASSUME TypeOK, Connections, NEW t \in Callers, op[t].conn # None, Close(op[t].conn),
         op' = [op EXCEPT ![t].conn = None],
         NEW l \in {"dial", "forget"}, Goto(t, l), idle' = idle
  PROVE  Connections'
  <1> USE NoneIsNoConnection DEF TypeOK, Connections
  <1>1. op'[t].conn = None /\ op'[t].to = op[t].to /\ pc'[t] = l BY DEF Goto
  <1>2. \A v \in Callers \ {t} : op'[v] = op[v] /\ pc'[v] = pc[v] BY DEF Goto
  <1>3. /\ op[t].conn \in Conns
        /\ session'[op[t].conn] = "closed"
        /\ \A c \in Conns \ {op[t].conn} : session'[c] = session[c]
    BY DEF Close
  <1>4. \A v \in Callers \ {t} : op[v].conn # op[t].conn BY <1>3 DEF OwnedOnce
  <1>5. idle # op[t].conn BY <1>3 DEF OwnedOnce
  <1>6. UsesOK' BY <1>1, <1>2, <1>3, <1>4 DEF UsesOK, Using
  <1>7. (idle # None => session[idle] # "closed")' BY <1>3, <1>5
  <1>8. OwnedOnce' BY <1>1, <1>2 DEF OwnedOnce
  <1>9. NoConnectionLeaks' BY <1>1, <1>2, <1>3 DEF NoConnectionLeaks
  <1> QED BY <1>6, <1>7, <1>8, <1>9

\* A caller goes on with its connection, which may have another folder selected.
LEMMA KeepsConnection ==
  ASSUME TypeOK, Connections, NEW t \in Callers, op[t].conn # None, Alive(op[t].conn),
         NEW f, f # "closed", session' = [session EXCEPT ![op[t].conn] = f], op' = op,
         NEW l \in Using, Goto(t, l), l \in {"note", "verify"} => op[t].to # None,
         idle' = idle
  PROVE  Connections'
  <1> USE NoneIsNoConnection DEF TypeOK, Connections
  <1>1. pc'[t] = l /\ \A v \in Callers \ {t} : pc'[v] = pc[v] BY DEF Goto
  <1>2. \A c \in Conns : session'[c] = "closed" <=> session[c] = "closed" BY DEF Alive
  <1>3. UsesOK' BY <1>1, <1>2 DEF UsesOK, Using
  <1>4. (idle # None => session[idle] # "closed")' BY <1>2
  <1>5. OwnedOnce' BY DEF OwnedOnce
  <1>6. NoConnectionLeaks' BY <1>2 DEF NoConnectionLeaks
  <1> QED BY <1>3, <1>4, <1>5, <1>6

\* Every step of a call leaves each caller with a connection of its own, open
\* and not cached, exactly while it uses one, and closes the ones it gives up.
LEMMA StepConnections ==
  ASSUME TypeOK, Connections, NEW t \in Callers, Step(t)
  PROVE  Connections'
  <1> USE FoldersAreDistinct, NoneIsNoConnection DEF TypeOK
  <1>a. pc[t] \in Using => op[t].conn # None /\ op[t].conn \in Conns
    BY DEF Connections, UsesOK
  <1>b. Alive(op[t].conn) /\ op[t].conn \in Conns =>
          session = [session EXCEPT ![op[t].conn] = session[op[t].conn]]
    OBVIOUS
  <1>1. CASE TakeNothing(t)
    BY <1>1 DEF TakeNothing, Connections, UsesOK, OwnedOnce, NoConnectionLeaks, Using, Goto
  <1>2. CASE TakeIdle(t)
    <2>1. op'[t].conn = idle /\ op'[t].to = op[t].to /\ pc'[t] = "probe" /\ idle' = None
      BY <1>2 DEF TakeIdle, Goto
    <2>2. \A u \in Callers \ {t} : op'[u] = op[u] /\ pc'[u] = pc[u]
      BY <1>2 DEF TakeIdle, Goto
    <2>3. pc[t] = "take" /\ session' = session /\ idle \in Conns BY <1>2 DEF TakeIdle
    <2>4. UsesOK' BY <2>1, <2>2, <2>3 DEF Connections, UsesOK, Using
    <2>5. OwnedOnce' BY <2>1, <2>2, <2>3 DEF Connections, OwnedOnce
    <2>6. op[t].conn = None BY <2>3 DEF Connections, UsesOK, Using
    <2>7. NoConnectionLeaks'
      BY <2>1, <2>2, <2>3, <2>6 DEF Connections, NoConnectionLeaks
    <2> QED BY <2>1, <2>4, <2>5, <2>7 DEF Connections
  <1>3. CASE TakeExpired(t)
    <2>1. op' = op /\ pc'[t] = "dial" /\ pc[t] = "take" /\ idle' = None /\ idle \in Conns
      BY <1>3 DEF TakeExpired, Goto
    <2>2. \A u \in Callers \ {t} : pc'[u] = pc[u]
      BY <1>3 DEF TakeExpired, Goto
    <2>3. session'[idle] = "closed" /\ \A c \in Conns \ {idle} : session'[c] = session[c]
      BY <1>3, <2>1 DEF TakeExpired, Close
    <2>4. \A u \in Callers : op[u].conn # idle BY <2>1 DEF Connections, OwnedOnce
    <2>5. UsesOK' BY <2>1, <2>2, <2>3, <2>4 DEF Connections, UsesOK, Using
    <2>6. OwnedOnce'
      <3>1. OwnedOnce BY DEF Connections
      <3> QED BY <2>1, <3>1 DEF OwnedOnce
    <2>7. NoConnectionLeaks' BY <2>1, <2>3 DEF Connections, NoConnectionLeaks
    <2> QED BY <2>1, <2>5, <2>6, <2>7 DEF Connections
  <1>4. CASE Probe(t)
    <2>1. op[t].conn # None /\ op[t].conn \in Conns BY <1>4, <1>a DEF Probe, Using
    <2>2. CASE Alive(op[t].conn) /\ Goto(t, "act") /\ UNCHANGED <<session, op>>
      BY <1>4, <1>b, <2>1, <2>2, KeepsConnection DEF Probe, Using, Alive
    <2>3. CASE /\ Close(op[t].conn)
               /\ op' = [op EXCEPT ![t].conn = None] /\ Goto(t, "dial")
      BY <1>4, <2>1, <2>3, LosesConnection DEF Probe
    <2> QED BY <1>4, <2>2, <2>3 DEF Probe
  <1>5. CASE Dial(t)
    <2>1. pc[t] = "dial" /\ idle' = idle /\ op[t].conn = None
      BY <1>5 DEF Dial, Connections, UsesOK, Using
    <2>2. \A u \in Callers \ {t} : op'[u] = op[u] /\ pc'[u] = pc[u] BY <1>5 DEF Dial, Goto
    <2>3. ASSUME NEW c \in Conns, session[c] = "closed",
                 session' = [session EXCEPT ![c] = Configured],
                 op' = [op EXCEPT ![t].conn = c], Goto(t, "act")
          PROVE  Connections'
      <3>1. op'[t].conn = c /\ op'[t].to = op[t].to /\ pc'[t] = "act" BY <2>3 DEF Goto
      <3>2. \A d \in Conns : session[d] # "closed" => session'[d] = session[d] BY <2>3
      <3>3. session'[c] = Configured BY <2>3
      <3>4. c # idle /\ \A u \in Callers : op[u].conn # c
        BY <2>3 DEF Connections, UsesOK
      <3>5. \A d \in Conns : d # c => session'[d] = session[d] BY <2>3
      <3>6. Configured # "closed" BY FolderNames DEF Folders
      <3>7. UsesOK' BY <2>2, <3>1, <3>2, <3>3, <3>6 DEF Connections, UsesOK, Using
      <3>8. OwnedOnce' BY <2>1, <2>2, <3>1, <3>4 DEF Connections, OwnedOnce
      <3>9. NoConnectionLeaks'
        BY <2>1, <2>2, <3>1, <3>5 DEF Connections, NoConnectionLeaks
      <3> QED BY <2>1, <3>2, <3>7, <3>8, <3>9 DEF Connections
    <2>4. CASE op' = [op EXCEPT ![t] = NoCall] /\ Goto(t, "rest") /\ UNCHANGED session
      <3>1. op'[t].conn = None /\ op'[t].to = None /\ pc'[t] = "rest" BY <2>4 DEF Goto
      <3> QED BY <2>1, <2>2, <2>4, <3>1
            DEF Connections, UsesOK, OwnedOnce, NoConnectionLeaks, Using
    <2> QED BY <1>5, <2>3, <2>4 DEF Dial
  <1>6. CASE Act(t)
    <2>1. op[t].conn # None /\ op[t].conn \in Conns BY <1>6, <1>a DEF Act, Using
    <2>2. CASE Alive(op[t].conn) /\ Goto(t, "settle") /\ UNCHANGED <<session, op>>
      BY <1>6, <1>b, <2>1, <2>2, KeepsConnection DEF Act, Using, Alive
    <2>3. CASE /\ Alive(op[t].conn) /\ op[t].to # None
               /\ session' = [session EXCEPT ![op[t].conn] = op[t].to]
               /\ Goto(t, "note") /\ UNCHANGED op
      <3>1. op[t].to # "closed" BY <2>3, FolderNames DEF Folders
      <3> QED BY <1>6, <2>1, <2>3, <3>1, KeepsConnection DEF Act, Using
    <2>4. CASE Fails(t) BY <1>6, <2>1, <2>4, LosesConnection DEF Act, Fails
    <2> QED BY <1>6, <2>2, <2>3, <2>4 DEF Act
  <1>7. CASE Note(t)
    BY <1>7 DEF Note, Connections, UsesOK, OwnedOnce, NoConnectionLeaks, Using, Goto
  <1>8. CASE Verify(t)
    <2>1. op[t].conn # None /\ op[t].conn \in Conns BY <1>8, <1>a DEF Verify, Using
    <2>2. CASE Alive(op[t].conn) /\ Goto(t, "settle") /\ UNCHANGED <<session, op>>
      BY <1>8, <1>b, <2>1, <2>2, KeepsConnection DEF Verify, Using, Alive
    <2>3. CASE Fails(t) BY <1>8, <2>1, <2>3, LosesConnection DEF Verify, Fails
    <2> QED BY <1>8, <2>2, <2>3 DEF Verify
  <1>9. CASE Forget(t)
    <2>1. /\ op'[t].conn = None /\ op'[t].to = None /\ pc'[t] = "rest"
          /\ op[t].conn = None /\ UNCHANGED <<session, idle>>
      BY <1>9 DEF Forget, Goto, Connections, UsesOK, Using
    <2>2. \A u \in Callers \ {t} : op'[u] = op[u] /\ pc'[u] = pc[u]
      BY <1>9 DEF Forget, Goto
    <2> QED BY <2>1, <2>2 DEF Connections, UsesOK, OwnedOnce, NoConnectionLeaks, Using
  <1>10. CASE Settle(t)
    BY <1>10 DEF Settle, Connections, UsesOK, OwnedOnce, NoConnectionLeaks, Using, Goto
  <1>11. CASE Restore(t)
    <2>1. op[t].conn # None /\ op[t].conn \in Conns BY <1>11, <1>a DEF Restore, Using
    <2>2. CASE /\ Alive(op[t].conn)
               /\ session' = [session EXCEPT ![op[t].conn] = Configured]
               /\ Goto(t, "restored") /\ UNCHANGED op
      BY <1>11, <2>1, <2>2, FolderNames, KeepsConnection DEF Restore, Using, Folders
    <2>3. CASE Fails(t) BY <1>11, <2>1, <2>3, LosesConnection DEF Restore, Fails
    <2> QED BY <1>11, <2>2, <2>3 DEF Restore
  <1>12. CASE Restored(t)
    BY <1>12 DEF Restored, Connections, UsesOK, OwnedOnce, NoConnectionLeaks, Using, Goto
  <1>13. CASE Cache(t)
    <2>1. op'[t].conn = None /\ op'[t].to = None /\ pc'[t] = "rest"
      BY <1>13 DEF Cache, Goto
    <2>2. \A u \in Callers \ {t} : op'[u] = op[u] /\ pc'[u] = pc[u]
      BY <1>13 DEF Cache, Goto
    <2>3. op[t].conn # None /\ op[t].conn \in Conns BY <1>13, <1>a DEF Cache, Using
    <2>4. \A u \in Callers \ {t} : op[u].conn # op[t].conn
      BY <2>3 DEF Connections, OwnedOnce
    <2>5. CASE idle = None /\ idle' = op[t].conn /\ UNCHANGED session
      BY <2>1, <2>2, <2>3, <2>4, <2>5
      DEF Connections, UsesOK, OwnedOnce, NoConnectionLeaks, Using
    <2>6. CASE idle # None /\ Close(op[t].conn) /\ UNCHANGED idle
      <3>1. /\ session'[op[t].conn] = "closed" /\ idle # op[t].conn
            /\ \A c \in Conns \ {op[t].conn} : session'[c] = session[c]
        BY <2>3, <2>6 DEF Close, Connections, OwnedOnce
      <3>2. UsesOK' BY <2>1, <2>2, <2>3, <2>4, <3>1 DEF Connections, UsesOK, Using
      <3>3. OwnedOnce' BY <2>1, <2>2, <2>6 DEF Connections, OwnedOnce
      <3>4. NoConnectionLeaks'
        BY <2>1, <2>2, <2>3, <2>6, <3>1 DEF Connections, NoConnectionLeaks
      <3> QED BY <2>6, <3>1, <3>2, <3>3, <3>4 DEF Connections
    <2> QED BY <1>13, <2>5, <2>6 DEF Cache
  <1> QED
    BY <1>1, <1>2, <1>3, <1>4, <1>5, <1>6, <1>7, <1>8, <1>9, <1>10, <1>11, <1>12, <1>13
    DEF Step

\* As long as no move has run beside another call, every step of a call keeps
\* the note truthful and the other connections on the configured folder.
LEMMA StepUncrossed ==
  ASSUME IInv, Uncrossed, NEW t \in Callers, Step(t)
  PROVE  Uncrossed'
  <1> USE FoldersAreDistinct, NoneIsNoConnection
      DEF IInv, TypeOK, UsesOK, OwnedOnce, Uncrossed, Clean, Using, Goto, Close, Fails, Folders, Alive
  <1>1. CASE TakeNothing(t) BY <1>1 DEF TakeNothing
  <1>2. CASE TakeIdle(t) BY <1>2 DEF TakeIdle
  <1>3. CASE TakeExpired(t) BY <1>3 DEF TakeExpired
  <1>4. CASE Probe(t) BY <1>4 DEF Probe
  <1>5. CASE Dial(t) BY <1>5 DEF Dial
  <1>6. CASE Act(t)
    <2>1. CASE Alive(op[t].conn) /\ op[t].to = None /\ Goto(t, "settle") /\ UNCHANGED <<session, op>>
      BY <1>6, <2>1 DEF Act
    <2>2. CASE /\ Alive(op[t].conn) /\ op[t].to # None
             /\ session' = [session EXCEPT ![op[t].conn] = op[t].to]
             /\ Goto(t, "note") /\ UNCHANGED op
      BY <1>6, <2>2 DEF Act
    <2>3. CASE Fails(t)
      BY <1>6, <2>3 DEF Act
    <2> QED BY <1>6, <2>1, <2>2, <2>3 DEF Act
  <1>7. CASE Note(t) BY <1>7 DEF Note
  <1>8. CASE Verify(t)
    <2>1. CASE Alive(op[t].conn) /\ Goto(t, "settle") /\ UNCHANGED <<session, op>>
      BY <1>8, <2>1 DEF Verify
    <2>2. CASE Fails(t)
      BY <1>8, <2>2 DEF Verify
    <2> QED BY <1>8, <2>1, <2>2 DEF Verify
  <1>9. CASE Forget(t) BY <1>9 DEF Forget
  <1>10. CASE Settle(t) BY <1>10 DEF Settle
  <1>11. CASE Restore(t) BY <1>11 DEF Restore
  <1>12. CASE Restored(t) BY <1>12 DEF Restored
  <1>13. CASE Cache(t) BY <1>13 DEF Cache
  <1> QED
    BY <1>1, <1>2, <1>3, <1>4, <1>5, <1>6, <1>7, <1>8, <1>9, <1>10, <1>11, <1>12, <1>13
    DEF Step

\* A new call moves nothing, and a move that meets another call is noted.
LEMMA CallKeeps ==
  ASSUME IInv, NEW t \in Callers, NEW to \in Destinations \cup {None}, Call(t, to)
  PROVE  IInv'
  <1> USE NoneIsNoConnection DEF IInv
  <1>1. /\ pc[t] = "rest" /\ pc' = [pc EXCEPT ![t] = "take"]
        /\ op' = [op EXCEPT ![t].to = to] /\ UNCHANGED <<idle, selected, session>>
    BY DEF Call, Goto
  <1>2. TypeOK' BY <1>1 DEF Call, TypeOK, PCs
  <1>3. op'[t].conn = op[t].conn /\ op'[t].to = to /\ pc'[t] = "take" BY <1>1 DEF TypeOK
  <1>4. \A u \in Callers \ {t} : op'[u] = op[u] /\ pc'[u] = pc[u] BY <1>1 DEF TypeOK
  <1>5. \A u \in Callers : op'[u].conn = op[u].conn BY <1>3, <1>4
  <1>6. UsesOK' BY <1>1, <1>3, <1>4 DEF UsesOK, Using
  <1>7. OwnedOnce' BY <1>1, <1>5 DEF OwnedOnce
  <1>8. NoConnectionLeaks' BY <1>1, <1>5 DEF NoConnectionLeaks
  <1>9. ~crossed' => Uncrossed'
    <2> SUFFICES ASSUME ~crossed' PROVE Uncrossed'
      OBVIOUS
    <2>1. /\ Uncrossed
          /\ \A u \in Callers \ {t} : pc[u] # "rest" => to = None /\ op[u].to = None
      BY DEF Call, TypeOK
    <2>2. (\A u, v \in Callers : u # v /\ pc[u] # "rest" /\ pc[v] # "rest" => op[u].to = None)'
      BY <1>1, <1>3, <1>4, <2>1 DEF Uncrossed
    <2>3. (idle # None => Clean(idle))' BY <1>1, <2>1 DEF Uncrossed, Clean
    <2>4. (selected # None => \E u \in Callers :
             /\ pc[u] \in {"verify", "settle", "restore", "restored", "forget"}
             /\ op[u].to = selected)'
      BY <1>1, <1>3, <1>4, <2>1 DEF Uncrossed
    <2>5. (\A u \in Callers :
             /\ pc[u] \in {"probe", "act", "restored", "cache"} => Clean(op[u].conn)
             /\ pc[u] \in Using /\ op[u].to = None => Clean(op[u].conn)
             /\ pc[u] \in {"verify", "settle"} /\ op[u].to # None => selected = op[u].to)'
      BY <1>1, <1>3, <1>4, <2>1 DEF Uncrossed, Clean, Using
    <2> QED BY <2>2, <2>3, <2>4, <2>5 DEF Uncrossed
  <1> QED BY <1>1, <1>2, <1>6, <1>7, <1>8, <1>9

\* A session the server ends stays with whoever has it.
LEMMA DropKeeps == ASSUME IInv, NEW c \in Conns, Drop(c) PROVE IInv'
  <1> USE NoneIsNoConnection DEF IInv
  <1>1. UNCHANGED <<idle, selected, pc, op, crossed>> BY DEF Drop
  <1>2. /\ session'[c] = "dropped" /\ session[c] # "closed"
        /\ \A d \in Conns \ {c} : session'[d] = session[d]
    BY DEF Drop, Alive, TypeOK
  <1>3. TypeOK' BY DEF Drop, TypeOK
  <1>4. \A d \in Conns : session'[d] = "closed" <=> session[d] = "closed" BY <1>2
  <1>5. UsesOK' BY <1>1, <1>4 DEF UsesOK, TypeOK
  <1>6. (idle # None => session[idle] # "closed")' BY <1>1, <1>4 DEF TypeOK
  <1>7. OwnedOnce' BY <1>1 DEF OwnedOnce
  <1>8. NoConnectionLeaks' BY <1>1, <1>4 DEF NoConnectionLeaks
  <1>9. \A d \in Conns : Clean(d) => Clean(d)' BY <1>2 DEF Clean
  <1>10. ~crossed' => Uncrossed'
    BY <1>1, <1>9 DEF Uncrossed, TypeOK, UsesOK, Using
  <1> QED BY <1>3, <1>5, <1>6, <1>7, <1>8, <1>10

\* The invariant of the connection handling is inductive, and holds in every
\* reachable state whatever the callers, connections and folders.
THEOREM Invariance == Spec => []IInv
  <1>1. IInv /\ [Next]_vars => IInv'
    <2> SUFFICES ASSUME IInv, [Next]_vars PROVE IInv'
      OBVIOUS
    <2>1. ASSUME NEW t \in Callers, Step(t) PROVE IInv'
      <3>1. TypeOK' BY <2>1, StepTypes DEF IInv
      <3>2. Connections' BY <2>1, StepConnections DEF IInv, Connections
      <3>3. crossed' = crossed
        BY <2>1 DEF Step, TakeNothing, TakeIdle, TakeExpired, Probe, Dial, Act, Note, Verify,
                    Forget, Settle, Restore, Restored, Cache
      <3>4. ~crossed' => Uncrossed' BY <2>1, <3>3, StepUncrossed DEF IInv
      <3> QED BY <3>1, <3>2, <3>4 DEF IInv, Connections
    <2>2. ASSUME NEW t \in Callers, NEW to \in Destinations \cup {None}, Call(t, to)
          PROVE  IInv'
      BY <2>2, CallKeeps
    <2>3. ASSUME NEW c \in Conns, Drop(c) PROVE IInv'
      BY <2>3, DropKeeps
    <2>4. CASE UNCHANGED vars
      BY <2>4 DEF vars, IInv, TypeOK, UsesOK, OwnedOnce, NoConnectionLeaks, Uncrossed, Clean
    <2> QED BY <2>1, <2>2, <2>3, <2>4 DEF Next
  <1> QED BY InitIInv, <1>1, PTL DEF Spec

\* Every variable keeps its type.
THEOREM TypeCorrect == Spec => []TypeOK
  <1>1. IInv => TypeOK BY DEF IInv
  <1> QED BY Invariance, <1>1, PTL

\* takeIdle's promise: a connection is in the cache or owned by exactly one
\* caller, never both, and never by two.
THEOREM Ownership == Spec => []OwnedOnce
  <1>1. IInv => OwnedOnce BY DEF IInv
  <1> QED BY Invariance, <1>1, PTL

\* withConn closes or caches every connection it opened, on every path.
THEOREM NoLeaks == Spec => []NoConnectionLeaks
  <1>1. IInv => NoConnectionLeaks BY DEF IInv
  <1> QED BY Invariance, <1>1, PTL

\* Without a move beside another call, commands run in the configured folder.
THEOREM StraysOnlyCrossed == Spec => []OnlyCrossedMovesStray
  <1>1. IInv => OnlyCrossedMovesStray
    BY DEF IInv, OnlyCrossedMovesStray, ConfiguredWhenActing, Uncrossed, Clean
  <1> QED BY Invariance, <1>1, PTL
=============================================================================
