---------------------------- MODULE MaildirProofs ----------------------------
(***************************************************************************)
(* The maildir for any number of callers, messages, names and folders:     *)
(* where file names are not used twice, IInv is inductive and no message   *)
(* that was delivered is ever lost or doubled.                             *)
(***************************************************************************)
EXTENDS Maildir, FiniteSetTheorems, TLAPS

\* At the beginning there is the empty inbox.
LEMMA InitIInv == Init => IInv
  <1> SUFFICES ASSUME Init PROVE IInv
    OBVIOUS
  <1> USE DEF Init
  <1>1. FilesOK BY DEF FilesOK
  <1>2. TreeOK BY DEF TreeOK, Dirs, Top, Subs
  <1>3. LocalsOK BY DEF LocalsOK, PCs, NoCall
  <1>4. AtWork BY DEF AtWork, MessagePCs, FolderPCs, Kinds
  <1>5. OneEach BY DEF OneEach
  <1>6. InSight BY DEF InSight, Sees, Kinds
  <1>7. InboxStays BY DEF InboxStays
  <1> QED BY <1>1, <1>2, <1>3, <1>4, <1>5, <1>6, <1>7 DEF IInv, TypeOK

\* A call that ends knows nothing.
LEMMA FinishLocals ==
  ASSUME LocalsOK, AtWork, NEW t \in Users, Finish(t)
  PROVE  LocalsOK' /\ AtWork'
  <1> USE DEF LocalsOK, Finish, Goto
  <1>1. pc'[t] = "rest" /\ \A u \in Users \ {t} : pc'[u] = pc[u] /\ op'[u] = op[u]
    OBVIOUS
  <1>2. LocalsOK' BY DEF PCs, NoCall
  <1>3. AtWork' BY <1>1 DEF AtWork, MessagePCs, FolderPCs, Kinds
  <1> QED BY <1>2, <1>3

\* A call that goes on to a step that is its own knows what it knew.
LEMMA GotoLocals ==
  ASSUME LocalsOK, AtWork, NEW t \in Users, pc[t] # "rest", NEW l \in PCs, Goto(t, l),
         l \in MessagePCs => pc[t] \in MessagePCs,
         l \in FolderPCs => pc[t] \in FolderPCs,
         l = "prepare" => op[t].kind = "curate",
         \/ op' = op
         \/ \E s \in {"new", "cur"} : op' = [op EXCEPT ![t].sub = s]
         \/ \E S \in SUBSET Subs : op' = [op EXCEPT ![t].listed = S]
  PROVE  LocalsOK' /\ AtWork'
  <1>1. pc' = [pc EXCEPT ![t] = l] /\ pc'[t] = l /\ \A u \in Users \ {t} : pc'[u] = pc[u]
    BY DEF LocalsOK, Goto
  <1>2. /\ \A u \in Users : /\ op'[u].kind = op[u].kind /\ op'[u].dir = op[u].dir
                            /\ op'[u].name = op[u].name /\ op'[u].to = op[u].to
        /\ op' \in [Users -> [kind : Kinds \cup {None}, dir : Top \cup {None},
                              name : Names \cup {None}, to : Top \cup {None},
                              sub : {"new", "cur"}, listed : SUBSET Subs]]
    <2>1. CASE op' = op BY <2>1 DEF LocalsOK
    <2>2. ASSUME NEW s \in {"new", "cur"}, op' = [op EXCEPT ![t].sub = s] PROVE <1>2
      BY <2>2 DEF LocalsOK
    <2>3. ASSUME NEW S \in SUBSET Subs, op' = [op EXCEPT ![t].listed = S] PROVE <1>2
      BY <2>3 DEF LocalsOK
    <2> QED BY <2>1, <2>2, <2>3
  <1>3. LocalsOK' BY <1>1, <1>2 DEF LocalsOK
  <1>4. AtWork' BY <1>1, <1>2 DEF AtWork
  <1> QED BY <1>3, <1>4

\* Every step of a call keeps what the call knows.
LEMMA StepLocals ==
  ASSUME LocalsOK, AtWork, NEW t \in Users, Step(t)
  PROVE  LocalsOK' /\ AtWork'
  <1> DEFINE Goes == \E l \in PCs :
               /\ pc[t] # "rest" /\ Goto(t, l)
               /\ l \in MessagePCs => pc[t] \in MessagePCs
               /\ l \in FolderPCs => pc[t] \in FolderPCs
               /\ l = "prepare" => op[t].kind = "curate"
               /\ \/ op' = op
                  \/ \E s \in {"new", "cur"} : op' = [op EXCEPT ![t].sub = s]
                  \/ \E S \in SUBSET Subs : op' = [op EXCEPT ![t].listed = S]
  <1> SUFFICES Finish(t) \/ Goes BY FinishLocals, GotoLocals
  <1> USE DEF PCs, MessagePCs, FolderPCs, Kinds
  <1>1. CASE MakeNew(t) BY <1>1 DEF MakeNew
  <1>2. CASE MakeCur(t) BY <1>2 DEF MakeCur, AtWork
  <1>3. CASE LookUp(t)
    <2>1. CASE Look(t, {"read", "curate", "move"}, "new", "lookCur") BY <2>1 DEF Look
    <2>2. CASE Look(t, {"lookCur"}, "cur", "unknown") BY <2>2 DEF Look
    <2> QED BY <1>3, <2>1, <2>2 DEF LookUp
  <1>4. CASE Unknown(t) BY <1>4 DEF Unknown
  <1>5. CASE Mark(t) BY <1>5 DEF Mark
  <1>6. CASE MarkStat(t) BY <1>6 DEF MarkStat
  <1>7. CASE Prepare(t) BY <1>7 DEF Prepare
  <1>8. CASE File(t) BY <1>8 DEF File, RenameOrFail
  <1>9. CASE Stat(t) BY <1>9 DEF Stat
  <1>10. CASE Lstat(t) BY <1>10 DEF Lstat
  <1>11. CASE MoveTo(t) BY <1>11 DEF MoveTo, RenameOrFail
  <1>12. CASE ListFolder(t) BY <1>12 DEF ListFolder
  <1>13. ASSUME NEW s \in Subs, Create(t, s) PROVE Finish(t) \/ Goes
    <2> USE DEF Create, Creating, Subs
    <2>1. CASE s = "new" BY <1>13, <2>1
    <2>2. CASE s = "cur" BY <1>13, <2>2
    <2>3. CASE s = "tmp" BY <1>13, <2>3
    <2> QED BY <2>1, <2>2, <2>3
  <1>14. ASSUME NEW s \in Subs, Count(t, s) PROVE Finish(t) \/ Goes
    <2>1. op[t].listed \ {s} \in SUBSET Subs BY DEF LocalsOK
    <2> QED BY <1>14, <2>1 DEF Count
  <1>15. ASSUME NEW s \in Subs \cup {"."}, Remove(t, s) PROVE Finish(t) \/ Goes
    <2> USE DEF Remove, Removing, Subs
    <2>1. CASE s = "." BY <1>15, <2>1
    <2>2. CASE s = "new" BY <1>15, <2>2
    <2>3. CASE s = "cur" BY <1>15, <2>3
    <2>4. CASE s = "tmp" BY <1>15, <2>4
    <2> QED BY <2>1, <2>2, <2>3, <2>4
  <1> QED
    BY <1>1, <1>2, <1>3, <1>4, <1>5, <1>6, <1>7, <1>8, <1>9, <1>10, <1>11, <1>12,
       <1>13, <1>14, <1>15 DEF Step

\* Making a directory disturbs no file.
LEMMA MkdirKeeps ==
  ASSUME FilesOK, TreeOK, NEW d \in Dirs, NEW s \in Subs, MkdirAll(d, s), files' = files
  PROVE  FilesOK' /\ TreeOK'
  <1>1. TreeOK'
    <2>1. d \in Nested => d[1] \in Dirs BY DEF Dirs, Nested, Top
    <2> QED BY <2>1 DEF TreeOK, MkdirAll, Dirs
  <1>2. FilesOK' BY DEF FilesOK, MkdirAll
  <1> QED BY <1>1, <1>2

\* A rename moves the one message it finds, and only replaces itself.
LEMMA RenameKeeps ==
  ASSUME FilesOK, TreeOK, OneEach, tree' = tree, used' = used,
         NEW d, NEW s, NEW n, NEW d2 \in Dirs, NEW s2 \in Subs,
         CanRename(d, s, n, d2, s2), Rename(d, s, n, d2, s2),
         delivered' \subseteq delivered \cup {m \in Msgs : <<d, s, n, m>> \in files}
  PROVE  FilesOK' /\ OneEach'
  <1>1. PICK m \in Msgs : <<d, s, n, m>> \in files BY DEF CanRename, Holds
  <1> DEFINE from == <<d, s, n, m>>
             to == <<d2, s2, n, m>>
  <1>2. from[1] = d /\ from[2] = s /\ from[3] = n /\ from[4] = m
    OBVIOUS
  <1>3. to[1] = d2 /\ to[2] = s2 /\ to[3] = n /\ to[4] = m
    OBVIOUS
  <1>4. n \in Names /\ to \in Dirs \X Subs \X Names \X Msgs BY <1>1 DEF FilesOK
  <1>5. \A f \in files : f[3] = n => f = from BY <1>1, <1>2 DEF OneEach
  <1>6. \A x \in Msgs : <<d, s, n, x>> \in files => x = m BY <1>5
  <1>7. files' = (files \ {from}) \cup {to}
    <2>1. {<<d2, s2, n, x>> : x \in {x \in Msgs : <<d, s, n, x>> \in files}} = {to}
      BY <1>1, <1>6
    <2>2. {f \in files : <<f[1], f[2], f[3]>> \notin {<<d, s, n>>, <<d2, s2, n>>}} = files \ {from}
      BY <1>2, <1>5
    <2> QED BY <2>1, <2>2 DEF Rename
  <1>8. FilesOK'
    <2>1. <<to[1], to[2]>> \in tree BY <1>3 DEF CanRename
    <2>2. \A f \in files \ {from} : f[3] # to[3] BY <1>3, <1>5
    <2> QED BY <1>4, <1>7, <2>1, <2>2 DEF FilesOK
  <1>9. OneEach'
    <2>1. \A f \in files \ {from} : f[3] # to[3] /\ f[4] # to[4]
      BY <1>1, <1>2, <1>3 DEF OneEach
    <2>2. to[3] \in used BY <1>1, <1>2, <1>3 DEF OneEach
    <2>3. \A x \in delivered' : \E f \in files' : f[4] = x
      <3> TAKE x \in delivered'
      <3>1. CASE x = m BY <1>3, <1>7, <3>1
      <3>2. CASE x # m
        <4>1. x \in delivered BY <1>6, <3>2
        <4> QED BY <1>2, <1>7, <3>2, <4>1 DEF OneEach
      <3> QED BY <3>1, <3>2
    <2> QED BY <1>7, <2>1, <2>2, <2>3 DEF OneEach
  <1> QED BY <1>8, <1>9

\* A directory that is removed held nothing.
LEMMA RemoveKeeps ==
  ASSUME FilesOK, TreeOK, NEW t \in Users, NEW s \in Subs \cup {"."}, Remove(t, s)
  PROVE  FilesOK' /\ TreeOK'
  <1> DEFINE d == op[t].dir
  <1>1. CASE Occupied(d, s) BY <1>1 DEF Remove, FilesOK, TreeOK
  <1>2. CASE ~Occupied(d, s)
    <2>1. tree' = tree \ {<<d, s>>} /\ files' = files BY <1>2 DEF Remove
    <2>2. \A f \in files : <<f[1], f[2]>> # <<d, s>>
      <3> SUFFICES ASSUME NEW f \in files, f[1] = d, f[2] = s PROVE FALSE
        OBVIOUS
      <3>1. f[2] \in Subs /\ f[3] \in Names /\ f[4] \in Msgs /\ f = <<f[1], f[2], f[3], f[4]>>
        BY DEF FilesOK
      <3>2. Holds(d, s, f[3]) BY <3>1 DEF Holds
      <3> QED BY <1>2, <3>1, <3>2 DEF Occupied, Empty, Subs
    <2>3. FilesOK' BY <2>1, <2>2 DEF FilesOK
    <2>4. ASSUME NEW p \in tree' PROVE <<p[1], ".">> \in tree'
      <3>1. p \in tree /\ p # <<d, s>> /\ <<p[1], ".">> \in tree BY <2>1, <2>4 DEF TreeOK
      <3>2. ASSUME p[1] = d, s = "." PROVE FALSE
        <4>1. p = <<p[1], p[2]>> /\ p[2] \in Subs \cup {"."} BY <3>1 DEF TreeOK
        <4>2. p[2] \in Subs BY <3>1, <3>2, <4>1
        <4> QED BY <1>2, <3>1, <3>2, <4>1, <4>2 DEF Occupied
      <3> QED BY <2>1, <3>1, <3>2
    <2>5. TreeOK' BY <2>1, <2>4 DEF TreeOK
    <2> QED BY <2>3, <2>5
  <1> QED BY <1>1, <1>2

-----------------------------------------------------------------------------
(* A message that is in its folder all the time is found.                   *)

\* A rename takes a message only from where it found it.
LEMMA RenameSight ==
  ASSUME FilesOK, OneEach, NEW d, NEW s, NEW n, NEW d2, NEW s2,
         CanRename(d, s, n, d2, s2), Rename(d, s, n, d2, s2),
         NEW e, NEW r, NEW k, e # d \/ r # s \/ k # n, Holds(e, r, k)
  PROVE  Holds(e, r, k)'
  <1>1. PICK m \in Msgs : <<e, r, k, m>> \in files BY DEF Holds
  <1>2. PICK x \in Msgs : <<d, s, n, x>> \in files BY DEF CanRename, Holds
  <1> DEFINE f == <<e, r, k, m>>
             g == <<d, s, n, x>>
  <1>3. f[1] = e /\ f[2] = r /\ f[3] = k /\ f[4] = m
    OBVIOUS
  <1>4. g[1] = d /\ g[2] = s /\ g[3] = n /\ g[4] = x
    OBVIOUS
  <1>5. f # g BY <1>3, <1>4
  <1>6. k # n BY <1>1, <1>2, <1>3, <1>4, <1>5 DEF OneEach
  <1>7. f \in files' BY <1>1, <1>3, <1>6 DEF Rename
  <1> QED BY <1>7 DEF Holds

\* What is renamed is at the target.
LEMMA RenameArrives ==
  ASSUME NEW d, NEW s, NEW n, NEW d2, NEW s2,
         CanRename(d, s, n, d2, s2), Rename(d, s, n, d2, s2)
  PROVE  Holds(d2, s2, n)'
  BY DEF CanRename, Rename, Holds

\* A path holds one message, and a name is at one path.
LEMMA OnePath ==
  ASSUME OneEach, NEW d, NEW s, NEW n, NEW e, NEW r, Holds(d, s, n), Holds(e, r, n)
  PROVE  d = e /\ s = r
  <1>1. PICK m \in Msgs : <<d, s, n, m>> \in files BY DEF Holds
  <1>2. PICK x \in Msgs : <<e, r, n, x>> \in files BY DEF Holds
  <1>3. <<d, s, n, m>>[3] = <<e, r, n, x>>[3]
    OBVIOUS
  <1>4. <<d, s, n, m>> = <<e, r, n, x>> BY <1>1, <1>2, <1>3 DEF OneEach
  <1> QED BY <1>4

\* No call loses sight of its message by what another call does: either the
\* message stays where it is looked for, or the call is excused.
LEMMA OthersSight ==
  ASSUME IInv, NEW t \in Users, Step(t), NEW u \in Users \ gone', u # t
  PROVE  Sees(u)'
  <1> PICK d, n : d = op[u].dir /\ n = op[u].name
    OBVIOUS
  <1> DEFINE Still == /\ Holds(d, "cur", n) => Holds(d, "cur", n)'
                      /\ In(d, n) => In(d, n)'
                      /\ <<d, "cur">> \in tree => <<d, "cur">> \in tree'
  <1>1. pc'[u] = pc[u] /\ op'[u] = op[u]
    BY DEF Step, IInv, TypeOK, LocalsOK, Finish, Goto, MakeNew, MakeCur, LookUp, Look, Unknown,
           Mark, MarkStat, Prepare, File, RenameOrFail, Stat, Lstat, MoveTo, ListFolder, Create,
           Count, Remove
  <1>2. CASE pc[u] = "rest" BY <1>1, <1>2 DEF Sees, Kinds
  <1>3. CASE pc[u] # "rest"
    <2>1. u \notin gone
      BY <1>1, <1>3 DEF Step, Excuse, MakeNew, MakeCur, LookUp, Look, Unknown, Mark, MarkStat,
             Prepare, File, RenameOrFail, Stat, Lstat, MoveTo, ListFolder, Create, Count, Remove
    <2>2. Sees(u) BY <2>1 DEF IInv, InSight
    <2>3. SUFFICES Still
      BY <1>1, <2>2 DEF Sees, In, Holds
    <2>4. ASSUME files' = files, tree \subseteq tree' PROVE Still
      BY <2>4 DEF In, Holds
    <2>5. CASE Mark(t)
      <3> PICK e, k : e = op[t].dir /\ k = op[t].name
        OBVIOUS
      <3>1. CASE ~CanRename(e, "new", k, e, "cur") BY <1>1, <2>4, <3>1, <2>5 DEF Mark
      <3>2. CASE CanRename(e, "new", k, e, "cur")
        <4>1. Rename(e, "new", k, e, "cur") /\ tree' = tree BY <2>5, <3>2 DEF Mark
        <4>2. Holds(e, "cur", k)' BY <3>2, <4>1, RenameArrives
        <4>3. Holds(d, "cur", n) => Holds(d, "cur", n)'
          BY <3>2, <4>1, RenameSight DEF IInv, TypeOK
        <4>4. CASE d = e /\ n = k BY <4>1, <4>2, <4>3, <4>4 DEF In
        <4>5. CASE d # e \/ n # k
          <5>1. Holds(d, "new", n) => Holds(d, "new", n)'
            BY <3>2, <4>1, <4>5, RenameSight DEF IInv, TypeOK
          <5> QED BY <4>1, <4>3, <5>1 DEF In
        <4> QED BY <4>4, <4>5
      <3> QED BY <3>1, <3>2
    <2>6. ASSUME NEW d2, NEW s2, RenameOrFail(t, d2, s2), tree' = tree PROVE Still
      <3> PICK e, k, s : e = op[t].dir /\ k = op[t].name /\ s = op[t].sub
        OBVIOUS
      <3>1. CASE ~CanRename(e, s, k, d2, s2) BY <2>4, <2>6, <3>1 DEF RenameOrFail
      <3>2. CASE CanRename(e, s, k, d2, s2)
        <4>1. Rename(e, s, k, d2, s2) /\ (d # e \/ n # k)
          BY <1>1, <1>3, <2>6, <3>2 DEF RenameOrFail, Excuse
        <4>2. \A r : Holds(d, r, n) => Holds(d, r, n)'
          BY <3>2, <4>1, RenameSight DEF IInv, TypeOK
        <4> QED BY <2>6, <4>2 DEF In
      <3> QED BY <3>1, <3>2
    <2>7. ASSUME NEW s \in Subs \cup {"."}, Remove(t, s) PROVE Still
      <3>1. d # op[t].dir BY <1>1, <1>3, <2>7 DEF Remove, Excuse
      <3>2. files' = files BY <2>7 DEF Remove
      <3>3. <<d, "cur">> \in tree => <<d, "cur">> \in tree' BY <2>7, <3>1 DEF Remove
      <3> QED BY <3>2, <3>3 DEF In, Holds
    <2>8. CASE MakeNew(t) BY <2>4, <2>8 DEF MakeNew, MkdirAll
    <2>9. CASE MakeCur(t) BY <2>4, <2>9 DEF MakeCur, MkdirAll
    <2>10. CASE Prepare(t) BY <2>4, <2>10 DEF Prepare, MkdirAll
    <2>11. ASSUME NEW s \in Subs, Create(t, s) PROVE Still
      BY <2>4, <2>11 DEF Create, MkdirAll
    <2>12. CASE File(t) BY <2>6, <2>12 DEF File
    <2>13. CASE MoveTo(t) BY <2>6, <2>13 DEF MoveTo
    <2>14. CASE LookUp(t) BY <2>4, <2>14 DEF LookUp, Look
    <2>15. CASE Unknown(t) BY <2>4, <2>15 DEF Unknown
    <2>16. CASE MarkStat(t) BY <2>4, <2>16 DEF MarkStat
    <2>17. CASE Stat(t) BY <2>4, <2>17 DEF Stat
    <2>18. CASE Lstat(t) BY <2>4, <2>18 DEF Lstat
    <2>19. CASE ListFolder(t) BY <2>4, <2>19 DEF ListFolder
    <2>20. ASSUME NEW s \in Subs, Count(t, s) PROVE Still BY <2>4, <2>20 DEF Count
    <2> QED
      BY <2>5, <2>7, <2>8, <2>9, <2>10, <2>11, <2>12, <2>13, <2>14, <2>15, <2>16, <2>17,
         <2>18, <2>19, <2>20 DEF Step
  <1> QED BY <1>2, <1>3

\* A call that finds its message in its folder comes to an end or goes on where
\* the message is.
LEMMA OwnSight ==
  ASSUME IInv, NEW t \in Users \ gone', Step(t)
  PROVE  Sees(t)'
  <1> USE DEF Kinds, MessagePCs, FolderPCs, PCs
  <1> DEFINE Away == {"rest", "prepare", "file", "stat", "lstat", "moveTo"} \cup FolderPCs
  <1>0. pc \in [Users -> PCs] /\ op \in [Users -> [kind : Kinds \cup {None}, dir : Top \cup {None},
                name : Names \cup {None}, to : Top \cup {None}, sub : {"new", "cur"},
                listed : SUBSET Subs]]
    BY DEF IInv, TypeOK, LocalsOK
  <1>1. ASSUME pc'[t] \in Away PROVE Sees(t)' BY <1>1 DEF Sees
  <1>2. ASSUME pc[t] # "rest", NEW us, Excuse(us), pc'[t] # "rest" PROVE Sees(t)
    <2>1. t \notin gone BY <1>2 DEF Excuse
    <2> QED BY <2>1 DEF IInv, InSight
  <1>3. CASE MakeNew(t)
    <2>1. pc'[t] = "makeCur" /\ op' = op /\ files' = files BY <1>0, <1>3 DEF MakeNew, Goto
    <2>2. Sees(t) BY <1>2, <1>3, <2>1 DEF MakeNew
    <2> QED BY <1>3, <2>1, <2>2 DEF MakeNew, Sees, In, Holds
  <1>4. CASE MakeCur(t)
    <2>1. pc'[t] = op[t].kind /\ op' = op /\ files' = files BY <1>0, <1>4 DEF MakeCur, Goto
    <2>2. op[t].kind \in Kinds BY <1>4 DEF MakeCur, IInv, AtWork
    <2>3. Sees(t) BY <1>2, <1>4, <2>1, <2>2 DEF MakeCur
    <2>4. <<op[t].dir, "cur">> \in tree' BY <1>4 DEF MakeCur, MkdirAll
    <2> QED BY <1>4, <2>1, <2>2, <2>3, <2>4 DEF MakeCur, Sees, In, Holds
  <1>5. CASE LookUp(t)
    <2>1. CASE Look(t, {"read", "curate", "move"}, "new", "lookCur")
      <3>1. CASE pc'[t] \in Away BY <1>1, <3>1
      <3>2. CASE pc'[t] \notin Away
        <4>1. /\ ~Holds(op[t].dir, "new", op[t].name) /\ pc'[t] = "lookCur"
              /\ op' = op /\ files' = files
          BY <1>0, <2>1, <3>2 DEF Look, Goto, Finish
        <4>2. Sees(t) BY <1>2, <2>1, <4>1 DEF Look
        <4> QED BY <2>1, <4>1, <4>2 DEF Look, Sees, In, Holds
      <3> QED BY <3>1, <3>2
    <2>2. CASE Look(t, {"lookCur"}, "cur", "unknown")
      <3>1. CASE pc'[t] \in Away BY <1>1, <3>1
      <3>2. CASE pc'[t] \notin Away
        <4>1. ~Holds(op[t].dir, "cur", op[t].name) /\ pc'[t] # "rest"
          BY <1>0, <2>2, <3>2 DEF Look, Goto, Finish
        <4>2. Sees(t) BY <1>2, <2>2, <4>1 DEF Look
        <4> QED BY <2>2, <4>1, <4>2 DEF Look, Sees
      <3> QED BY <3>1, <3>2
    <2> QED BY <1>5, <2>1, <2>2 DEF LookUp
  <1>6. CASE Mark(t)
    <2>1. CASE pc'[t] \in Away BY <1>1, <2>1
    <2>2. CASE pc'[t] \notin Away
      <3>1. /\ ~CanRename(op[t].dir, "new", op[t].name, op[t].dir, "cur")
            /\ pc'[t] = "markStat" /\ op' = op /\ files' = files /\ tree' = tree
        BY <1>0, <1>6, <2>2 DEF Mark, Goto, Finish
      <3>2. Sees(t) BY <1>2, <1>6, <3>1 DEF Mark
      <3>3. Holds(op[t].dir, "cur", op[t].name)
        BY <1>6, <3>1, <3>2 DEF Mark, Sees, CanRename, In
      <3> QED BY <3>1, <3>3 DEF Sees, Holds
    <2> QED BY <2>1, <2>2
  <1>7. CASE MarkStat(t)
    <2>1. CASE pc'[t] \in Away BY <1>1, <2>1
    <2>2. CASE pc'[t] \notin Away
      <3>1. ~Holds(op[t].dir, "cur", op[t].name) /\ pc'[t] # "rest"
        BY <1>0, <1>7, <2>2 DEF MarkStat, Goto, Finish
      <3>2. Sees(t) BY <1>2, <1>7, <3>1 DEF MarkStat
      <3> QED BY <1>7, <3>1, <3>2 DEF MarkStat, Sees
    <2> QED BY <2>1, <2>2
  <1>8. CASE Unknown(t) BY <1>0, <1>1, <1>8 DEF Unknown, Finish, Goto
  <1>9. CASE Prepare(t) BY <1>0, <1>1, <1>9 DEF Prepare, Goto
  <1>10. CASE File(t) BY <1>0, <1>1, <1>10 DEF File, RenameOrFail, Finish, Goto
  <1>11. CASE Stat(t) BY <1>0, <1>1, <1>11 DEF Stat, Finish, Goto
  <1>12. CASE Lstat(t) BY <1>0, <1>1, <1>12 DEF Lstat, Finish, Goto
  <1>13. CASE MoveTo(t) BY <1>0, <1>1, <1>13 DEF MoveTo, RenameOrFail, Finish, Goto
  <1>14. CASE ListFolder(t) BY <1>0, <1>1, <1>14 DEF ListFolder, Finish, Goto
  <1>15. ASSUME NEW s \in Subs, Create(t, s) PROVE Sees(t)'
    <2> USE DEF Create, Creating, Subs
    <2>1. CASE s = "new" BY <1>0, <1>1, <1>15, <2>1 DEF Goto
    <2>2. CASE s = "cur" BY <1>0, <1>1, <1>15, <2>2 DEF Goto
    <2>3. CASE s = "tmp" BY <1>0, <1>1, <1>15, <2>3 DEF Finish, Goto
    <2> QED BY <2>1, <2>2, <2>3
  <1>16. ASSUME NEW s \in Subs, Count(t, s) PROVE Sees(t)'
    BY <1>0, <1>1, <1>16 DEF Count, Finish, Goto
  <1>17. ASSUME NEW s \in Subs \cup {"."}, Remove(t, s) PROVE Sees(t)'
    <2> USE DEF Remove, Removing, Subs
    <2>1. CASE s = "." BY <1>0, <1>1, <1>17, <2>1 DEF Finish, Goto
    <2>2. CASE s = "new" BY <1>0, <1>1, <1>17, <2>2 DEF Finish, Goto
    <2>3. CASE s = "cur" BY <1>0, <1>1, <1>17, <2>3 DEF Finish, Goto
    <2>4. CASE s = "tmp" BY <1>0, <1>1, <1>17, <2>4 DEF Finish, Goto
    <2> QED BY <2>1, <2>2, <2>3, <2>4
  <1> QED
    BY <1>3, <1>4, <1>5, <1>6, <1>7, <1>8, <1>9, <1>10, <1>11, <1>12, <1>13, <1>14, <1>15,
       <1>16, <1>17 DEF Step

\* Only folders are removed, and the inbox is none.
LEMMA StepInbox ==
  ASSUME IInv, NEW t \in Users, Step(t)
  PROVE  InboxStays'
  <1>1. ASSUME NEW s \in Subs \cup {"."}, Remove(t, s) PROVE InboxStays'
    <2>1. Removing[s] \in FolderPCs
      <3> USE DEF Removing, FolderPCs, Subs
      <3>1. CASE s = "." BY <3>1
      <3>2. CASE s = "new" BY <3>2
      <3>3. CASE s = "cur" BY <3>3
      <3>4. CASE s = "tmp" BY <3>4
      <3> QED BY <3>1, <3>2, <3>3, <3>4
    <2>2. op[t].dir # Inbox
      BY <1>1, <2>1, FoldersAreDistinct DEF Remove, IInv, AtWork
    <2> QED BY <1>1, <2>2 DEF Remove, IInv, InboxStays
  <1>2. CASE \E s \in Subs \cup {"."} : Remove(t, s) BY <1>1, <1>2
  <1>3. CASE ~\E s \in Subs \cup {"."} : Remove(t, s)
    <2>1. tree \subseteq tree'
      BY <1>3 DEF Step, MkdirAll, MakeNew, MakeCur, LookUp, Look, Unknown, Mark, MarkStat,
             Prepare, File, Stat, Lstat, MoveTo, ListFolder, Create, Count
    <2> QED BY <2>1 DEF IInv, InboxStays
  <1> QED BY <1>2, <1>3

-----------------------------------------------------------------------------
(* The invariant, and what follows from it.                                 *)

\* Every step of a call keeps the invariant.
LEMMA StepIInv ==
  ASSUME IInv, NEW t \in Users, Step(t)
  PROVE  IInv'
  <1> USE DEF IInv, TypeOK
  <1>0. InSight' /\ InboxStays' BY OthersSight, OwnSight, StepInbox DEF InSight
  <1>1. LocalsOK' /\ AtWork' BY StepLocals
  <1>2. delivered' = delivered /\ used' = used /\ gone' \subseteq Users
    BY DEF Step, history, Excuse, MakeNew, MakeCur, LookUp, Look, Unknown, Mark, MarkStat,
           Prepare, File, RenameOrFail, Stat, Lstat, MoveTo, ListFolder, Create, Count, Remove
  <1> DEFINE d == op[t].dir
  <1>3. pc[t] # "rest" => d \in Top /\ d \in Dirs BY DEF AtWork, Dirs
  <1>4. files' = files => OneEach' BY <1>2 DEF OneEach
  <1>5. ASSUME NEW e \in Dirs, NEW s \in Subs, MkdirAll(e, s), files' = files PROVE IInv'
    BY <1>0, <1>1, <1>2, <1>4, <1>5, MkdirKeeps
  <1>6. ASSUME NEW s, NEW n, NEW d2 \in Dirs, NEW s2 \in Subs,
               CanRename(d, s, n, d2, s2), Rename(d, s, n, d2, s2), tree' = tree
        PROVE  IInv'
    <2>1. FilesOK' /\ OneEach' BY <1>2, <1>6, RenameKeeps
    <2> QED BY <1>0, <1>1, <1>2, <1>6, <2>1 DEF TreeOK
  <1>7. ASSUME tree' = tree, files' = files PROVE IInv'
    BY <1>0, <1>1, <1>2, <1>4, <1>7 DEF FilesOK, TreeOK
  <1>8. CASE MakeNew(t) BY <1>3, <1>5, <1>8 DEF MakeNew, Subs
  <1>9. CASE MakeCur(t) BY <1>3, <1>5, <1>9 DEF MakeCur, Subs
  <1>10. CASE Prepare(t)
    <2>1. Hidden(d, op[t].to) \in Dirs
      BY <1>3, <1>10 DEF Prepare, AtWork, MessagePCs, Hidden, Dirs, Nested, Top
    <2> QED BY <1>5, <1>10, <2>1 DEF Prepare, Subs
  <1>11. ASSUME NEW s \in Subs, Create(t, s) PROVE IInv'
    <2>1. pc[t] # "rest"
      <3>1. Creating[s] # "rest"
        <4>1. Creating["new"] # "rest" BY DEF Creating
        <4>2. Creating["cur"] # "rest" BY DEF Creating
        <4>3. Creating["tmp"] # "rest" BY DEF Creating
        <4> QED BY <4>1, <4>2, <4>3 DEF Subs
      <3> QED BY <1>11, <3>1 DEF Create
    <2>2. MkdirAll(d, s) /\ files' = files BY <1>11 DEF Create
    <2> QED BY <1>3, <1>5, <2>1, <2>2
  <1>12. CASE Mark(t)
    <2>1. d \in Dirs BY <1>3, <1>12 DEF Mark
    <2> QED BY <1>6, <1>7, <1>12, <2>1 DEF Mark, Subs
  <1>13. ASSUME NEW d2, NEW s2 \in Subs, RenameOrFail(t, d2, s2), tree' = tree PROVE IInv'
    <2>1. CanRename(d, op[t].sub, op[t].name, d2, s2) => d2 \in Dirs
      BY DEF CanRename, TreeOK
    <2> QED BY <1>6, <1>7, <1>13, <2>1 DEF RenameOrFail
  <1>14. CASE File(t) BY <1>13, <1>14 DEF File, Subs
  <1>15. CASE MoveTo(t)
    <2>1. op[t].sub \in Subs BY DEF LocalsOK, Subs
    <2> QED BY <1>13, <1>15, <2>1 DEF MoveTo
  <1>16. ASSUME NEW s \in Subs \cup {"."}, Remove(t, s) PROVE IInv'
    <2>1. FilesOK' /\ TreeOK' BY <1>16, RemoveKeeps
    <2>2. files' = files BY <1>16 DEF Remove
    <2> QED BY <1>0, <1>1, <1>2, <1>4, <2>1, <2>2
  <1>17. CASE LookUp(t) BY <1>7, <1>17 DEF LookUp, Look
  <1>18. CASE Unknown(t) BY <1>7, <1>18 DEF Unknown
  <1>19. CASE MarkStat(t) BY <1>7, <1>19 DEF MarkStat
  <1>20. CASE Stat(t) BY <1>7, <1>20 DEF Stat
  <1>21. CASE Lstat(t) BY <1>7, <1>21 DEF Lstat
  <1>22. CASE ListFolder(t) BY <1>7, <1>22 DEF ListFolder
  <1>23. ASSUME NEW s \in Subs, Count(t, s) PROVE IInv' BY <1>7, <1>23 DEF Count
  <1> QED
    BY <1>8, <1>9, <1>10, <1>11, <1>12, <1>14, <1>15, <1>16, <1>17, <1>18, <1>19,
       <1>20, <1>21, <1>22, <1>23 DEF Step

\* A call begins with what it will know.
LEMMA CallIInv ==
  ASSUME IInv, NEW t \in Users,
         \/ \E d \in Folders : CreateFolder(t, d) \/ DeleteFolder(t, d)
         \/ \E kind \in Kinds, d \in Top, n \in Names, to \in Top \cup {None} :
              Call(t, kind, d, n, to)
  PROVE  IInv'
  <1> USE DEF IInv, TypeOK, history
  <1>1. /\ UNCHANGED <<files, tree, delivered, used>> /\ gone' \subseteq Users
    BY DEF CreateFolder, DeleteFolder, FolderCall, Call, Excuse
  <1>2. FilesOK' /\ TreeOK' /\ OneEach' /\ InboxStays'
    BY <1>1 DEF FilesOK, TreeOK, OneEach, InboxStays
  <1>5. ASSUME NEW u \in Users \ gone', u # t, pc'[u] = pc[u], op'[u] = op[u],
               pc[u] # "rest" => u \notin gone
        PROVE  Sees(u)'
    <2>1. CASE pc[u] = "rest" BY <1>5, <2>1 DEF Sees, Kinds
    <2>2. CASE pc[u] # "rest" BY <1>1, <1>5, <2>2 DEF InSight, Sees, In, Holds
    <2> QED BY <2>1, <2>2
  <1>3. CASE \E d \in Folders : CreateFolder(t, d) \/ DeleteFolder(t, d)
    <2>1. PICK d \in Folders, l \in {"create new", "list"} : FolderCall(t, l, d)
      BY <1>3 DEF CreateFolder, DeleteFolder
    <2>2. LocalsOK'
      <3>1. pc' \in [Users -> PCs] BY <2>1 DEF LocalsOK, FolderCall, Goto, PCs, FolderPCs
      <3>2. d \in Top BY DEF Top
      <3> QED BY <2>1, <3>1, <3>2 DEF LocalsOK, FolderCall
    <2>3. pc'[t] = l /\ op'[t].dir = d /\ \A u \in Users \ {t} : pc'[u] = pc[u] /\ op'[u] = op[u]
      BY <2>1 DEF LocalsOK, FolderCall, Goto
    <2>4. AtWork' BY <2>3 DEF AtWork, MessagePCs, FolderPCs, Kinds, Top
    <2>5. pc'[t] # "unknown" /\ pc'[t] # "mark" /\ Sees(t)' BY <2>3 DEF Sees, Kinds
    <2>6. InSight' BY <1>5, <2>1, <2>3, <2>5 DEF InSight, FolderCall, Excuse
    <2> QED BY <1>1, <1>2, <2>2, <2>4, <2>6
  <1>4. ASSUME NEW kind \in Kinds, NEW d \in Top, NEW n \in Names, NEW to \in Top \cup {None},
               Call(t, kind, d, n, to)
        PROVE  IInv'
    <2> DEFINE o == [op[t] EXCEPT !.kind = kind, !.dir = d, !.name = n, !.to = to]
    <2>0. op' = [op EXCEPT ![t] = o] BY <1>4 DEF Call
    <2>a. /\ o.dir = d /\ o.kind = kind /\ o.name = n /\ o.to = to
          /\ o \in [kind : Kinds \cup {None}, dir : Top \cup {None}, name : Names \cup {None},
                    to : Top \cup {None}, sub : {"new", "cur"}, listed : SUBSET Subs]
      BY DEF LocalsOK
    <2>b. PICK l \in {kind, "makeNew"} : pc' = [pc EXCEPT ![t] = l] BY <1>4 DEF Call, Goto
    <2>1. LocalsOK'
      <3> HIDE DEF o
      <3>1. pc' \in [Users -> PCs] BY <2>b DEF LocalsOK, PCs, MessagePCs
      <3> QED BY <2>0, <2>a, <3>1 DEF LocalsOK
    <2>2. /\ pc'[t] \in {kind, "makeNew"}
          /\ op'[t].dir = d /\ op'[t].kind = kind /\ op'[t].name = n /\ op'[t].to = to
          /\ \A u \in Users \ {t} : pc'[u] = pc[u] /\ op'[u] = op[u]
      <3> HIDE DEF o
      <3> QED BY <2>0, <2>a, <2>b DEF LocalsOK
    <2>3. kind = "curate" => to \in Curated BY <1>4 DEF Call
    <2>4. AtWork' BY <2>2, <2>3 DEF AtWork, FolderPCs, Kinds
    <2>5. ASSUME t \notin gone' PROVE Sees(t)'
      <3>1. In(d, n) BY <1>4, <2>5 DEF Call
      <3>2. kind = "mark" /\ pc'[t] = kind => <<d, "cur">> \in tree
        BY <1>4, <2>2 DEF Call, InboxStays, LocalsOK, Goto
      <3> QED BY <1>1, <2>2, <3>1, <3>2 DEF Sees, Kinds, In, Holds
    <2>6. InSight' BY <1>4, <1>5, <2>2, <2>5 DEF InSight, Call
    <2> QED BY <1>1, <1>2, <2>1, <2>4, <2>6
  <1> QED BY <1>3, <1>4

\* A message arrives under a name that was never used.
LEMMA DeliveryIInv ==
  ASSUME IInv, FreshNames, NEW d \in {Inbox} \cup Folders, NEW n \in Names,
         Deliver(d, n) \/ \E m \in Msgs : Stage(d, n, m)
  PROVE  IInv'
  <1> USE DEF IInv, TypeOK
  <1>1. LocalsOK' /\ AtWork' /\ tree' = tree /\ gone' = gone
    BY DEF Deliver, Stage, LocalsOK, AtWork
  <1>2. TreeOK' BY <1>1 DEF TreeOK
  <1>3. d \in Dirs BY DEF Dirs, Top
  <1>6. InboxStays' BY <1>1 DEF InboxStays
  <1>7. ASSUME \A e, k : /\ Holds(e, "cur", k) => Holds(e, "cur", k)'
                         /\ In(e, k) => In(e, k)'
        PROVE  InSight'
    <2> SUFFICES ASSUME NEW u \in Users \ gone' PROVE Sees(u)'
      BY DEF InSight
    <2>1. pc' = pc /\ op' = op /\ Sees(u)
      BY <1>1 DEF Deliver, Stage, InSight
    <2> QED BY <1>1, <1>7, <2>1 DEF Sees, In, Holds
  <1>4. CASE Deliver(d, n)
    <2>1. used' = used /\ delivered' \subseteq Msgs
          /\ delivered' \subseteq delivered \cup {m \in Msgs : <<d, "tmp", n, m>> \in files}
      BY <1>4 DEF Deliver
    <2>2. FilesOK' /\ OneEach' BY <1>1, <1>3, <1>4, <2>1, RenameKeeps DEF Deliver, Subs
    <2>3. \A e, r, k : Holds(e, r, k) /\ r # "tmp" => Holds(e, r, k)'
      BY <1>4, RenameSight DEF Deliver
    <2>4. InSight' BY <1>7, <2>3 DEF In
    <2> QED BY <1>1, <1>2, <1>6, <2>1, <2>2, <2>4
  <1>5. ASSUME NEW m \in Msgs, Stage(d, n, m) PROVE IInv'
    <2> DEFINE f == <<d, "tmp", n, m>>
    <2>1. f[1] = d /\ f[2] = "tmp" /\ f[3] = n /\ f[4] = m
      OBVIOUS
    <2>2. files' = files \cup {f} /\ used' = used \cup {n} /\ delivered' = delivered
      BY <1>5 DEF Stage
    <2>3. n \notin used /\ (\A g \in files : g[4] # m) /\ <<d, "tmp">> \in tree
      BY <1>5 DEF Stage
    <2>4. \A g \in files : g[3] # n BY <2>3 DEF OneEach
    <2>5. f \in Dirs \X Subs \X Names \X Msgs BY <1>3 DEF Subs
    <2>6. FilesOK' BY <1>1, <2>1, <2>2, <2>3, <2>4, <2>5 DEF FilesOK
    <2>7. OneEach' BY <2>1, <2>2, <2>3, <2>4 DEF OneEach
    <2>8. InSight' BY <1>7, <2>2 DEF In, Holds
    <2> QED BY <1>1, <1>2, <1>6, <2>2, <2>6, <2>7, <2>8
  <1> QED BY <1>4, <1>5

\* Where no name is used twice, IInv holds in every state.
THEOREM Invariance == ASSUME FreshNames PROVE Spec => []IInv
  <1>1. ASSUME IInv, [Next]_vars PROVE IInv'
    <2>1. CASE UNCHANGED vars
      BY <1>1, <2>1 DEF vars, history, IInv, TypeOK, FilesOK, TreeOK, LocalsOK, AtWork,
                          OneEach, InSight, Sees, In, Holds, InboxStays
    <2>2. CASE Next BY <1>1, <2>2, StepIInv, CallIInv, DeliveryIInv DEF Next
    <2> QED BY <1>1, <2>1, <2>2
  <1> QED BY <1>1, InitIInv, PTL DEF Spec

\* Every variable keeps its type and every file its directory.
THEOREM TypeCorrect == ASSUME FreshNames PROVE Spec => []TypeOK
  <1>1. IInv => TypeOK BY DEF IInv
  <1> QED BY <1>1, Invariance, PTL

\* However many callers mark, move, archive and remove folders: a message that
\* was delivered stays, in exactly one place, if no file name is used twice.
THEOREM NothingDestroyed == ASSUME FreshNames PROVE Spec => []NeverDestroyed
  <1>1. ASSUME IInv PROVE NeverDestroyed
    <2> SUFFICES ASSUME NEW m \in delivered
                 PROVE  Cardinality({f \in files : f[4] = m}) = 1
      BY DEF NeverDestroyed
    <2>1. PICK f \in files : f[4] = m BY <1>1 DEF IInv, OneEach
    <2>2. {g \in files : g[4] = m} = {f} BY <1>1, <2>1 DEF IInv, OneEach
    <2> QED BY <2>2, FS_Singleton
  <1> QED BY <1>1, Invariance, PTL

\* However many callers mark, move, archive and remove folders: a call answers
\* that there is no such message only if the message was not in the folder all
\* the time of the call, or the folder was being removed (locate, Fetch, MarkSeen).
THEOREM NothingMissed == ASSUME FreshNames PROVE Spec => []NotMissed
  <1>1. IInv => NotMissed BY DEF IInv, InSight, Sees, NotMissed
  <1> QED BY <1>1, Invariance, PTL

=============================================================================
