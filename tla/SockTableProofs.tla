-------------------------- MODULE SockTableProofs --------------------------
(***************************************************************************)
(* Proofs about SockTable for every set of threads, every size of the      *)
(* table, every number of descriptors and of pairs.                        *)
(***************************************************************************)
EXTENDS SockTable, FiniteSetTheorems, WellFoundedInduction, TLAPS

(* The objects of a socketpair() call, apart from NoObj.                    *)
LEMMA ObjFields ==
    /\ NoObj \notin Objs
    /\ \A o \in Objs : /\ o[1] \in 1 .. MaxPairs /\ o[1] # Closed /\ o[2] \in Sides
                       /\ o = <<o[1], o[2]>>
    /\ \A k \in 1 .. MaxPairs : <<k, 0>> \in Objs /\ <<k, 1>> \in Objs
BY TableAssumption DEF Objs, NoObj, Sides, Closed

(* Two of the objects of a call are all of them.                            *)
LEMMA TwoSides ==
    ASSUME NEW o \in Objs, NEW p \in Objs, NEW q \in Objs,
           o[1] = p[1], o[1] = q[1], o # p
    PROVE  q = o \/ q = p
<1>1. o = <<o[1], o[2]>> /\ p = <<o[1], p[2]>> /\ q = <<o[1], q[2]>>
  BY ObjFields, Zenon
<1>2. o[2] \in 0 .. 1 /\ p[2] \in 0 .. 1 /\ q[2] \in 0 .. 1
  BY ObjFields DEF Sides
<1>3. o[2] # p[2]
  BY <1>1, Zenon
<1>4. q[2] = o[2] \/ q[2] = p[2]
  BY <1>2, <1>3
<1> QED
  BY <1>1, <1>4, Zenon

(* The thread of a step is the only one that moves.                         *)
LEMMA OthersStay ==
    ASSUME TypeOK, NEW t \in Threads,
           \/ Socketpair(t) \/ Check0(t) \/ Add0(t) \/ Check1(t) \/ Add1(t)
           \/ \E f \in Fds : MyClose(t, f)
           \/ Close(t) \/ ReadPaired(t) \/ Unpair(t) \/ Forget(t) \/ Delete(t)
    PROVE  \A u \in Threads : u # t =>
               /\ pc'[u] = pc[u] /\ obj'[u] = obj[u] /\ des'[u] = des[u]
               /\ Opening(u)' = Opening(u) /\ Closing(u)' = Closing(u)
               /\ ObjsOf(u)' = ObjsOf(u)
<1>1. \A u \in Threads : u # t => pc'[u] = pc[u] /\ obj'[u] = obj[u] /\ des'[u] = des[u]
  BY DEF TypeOK, ThreadTypeOK, Socketpair, Check0, Add0, Check1, Add1, MyClose, Close, ReadPaired,
         Unpair, Forget, Delete, Goto, Return
<1> QED
  BY <1>1 DEF Opening, Closing, ObjsOf

(* Who works on what.                                                       *)
LEMMA OpeningApart ==
    ASSUME TableInv, NEW t \in Threads, NEW u \in Threads, t # u,
           Opening(t), Opening(u)
    PROVE  /\ des[u][1] # des[t][1] /\ des[u][1] # des[t][2]
           /\ des[u][2] # des[t][1] /\ des[u][2] # des[t][2]
<1>1. OpeningOwns(t) /\ OpeningOwns(u)
  BY DEF TableInv, Owns
<1>2. {obj[t][1], obj[t][2]} \cap {obj[u][1], obj[u][2]} = {}
  BY DEF TableInv, ObjsApart, ObjsOf
<1>3. {obj[t][1], obj[t][2], obj[u][1], obj[u][2]} \subseteq Objs
  BY <1>1 DEF OpeningOwns, TableInv, TypeOK
<1>4. obj[t][1][1] # obj[u][1][1]
  BY <1>1, <1>2, <1>3, TwoSides DEF OpeningOwns
<1> QED
  BY <1>1, <1>4 DEF OpeningOwns

LEMMA OpeningClosingApart ==
    ASSUME TableInv, NEW t \in Threads, NEW u \in Threads, Opening(t), Closing(u)
    PROVE  /\ obj[u][1] # obj[t][1] /\ obj[u][1] # obj[t][2]
           /\ pc[u] = "close" => des[u][1] # des[t][1] /\ des[u][1] # des[t][2]
<1>1. OpeningOwns(t) /\ ClosingOwns(u)
  BY DEF TableInv, Owns
<1>2. {obj[t][1], obj[t][2]} \cap {obj[u][1]} = {}
  BY DEF TableInv, ObjsApart, ObjsOf, Opening, Closing
<1>3. {obj[t][1], obj[t][2], obj[u][1]} \subseteq Objs
  BY <1>1 DEF OpeningOwns, ClosingOwns, TableInv, TypeOK, InTable
<1>4. obj[t][1][1] # obj[u][1][1]
  BY <1>1, <1>2, <1>3, TwoSides DEF OpeningOwns
<1> QED
  BY <1>1, <1>2, <1>4 DEF OpeningOwns, ClosingOwns

LEMMA ClosingApart ==
    ASSUME TableInv, NEW t \in Threads, NEW u \in Threads, t # u, Closing(t), Closing(u)
    PROVE  des[u][1] # des[t][1] /\ obj[u][1] # obj[t][1]
<1>1. ClosingOwns(t) /\ ClosingOwns(u)
  BY DEF TableInv, Owns
<1>2. obj[u][1] # obj[t][1]
  BY DEF TableInv, ObjsApart, ObjsOf, Opening, Closing
<1> QED
  BY <1>1, <1>2 DEF ClosingOwns

(* What a thread inside mySocketpair can rely on.                           *)
LEMMA OpeningFacts ==
    ASSUME TableInv, NEW t \in Threads, Opening(t)
    PROVE  /\ OpeningOwns(t)
           /\ obj[t][1] \in Objs /\ obj[t][1] # NoObj
           /\ obj[t][2] \in Objs /\ obj[t][2] # NoObj
           /\ \A u \in Threads : pc[u] = "delete" =>
                  obj[u][1] # obj[t][1] /\ obj[u][1] # obj[t][2]
<1>1. OpeningOwns(t)
  BY DEF TableInv, Owns
<1>2. obj[t][1] \in Objs /\ obj[t][2] \in Objs
  BY <1>1 DEF OpeningOwns, TableInv, TypeOK
<1>3. ASSUME NEW u \in Threads, pc[u] = "delete"
      PROVE  obj[u][1] # obj[t][1] /\ obj[u][1] # obj[t][2]
  <2>1. u # t
    BY <1>3 DEF Opening
  <2>2. {obj[t][1], obj[t][2]} \cap {obj[u][1]} = {}
    BY <1>3, <2>1 DEF TableInv, ObjsApart, ObjsOf, Opening
  <2> QED
    BY <2>2
<1> QED
  BY <1>1, <1>2, <1>3, ObjFields

(* What a thread inside myClose can rely on, up to its last statement.      *)
LEMMA ClosingFacts ==
    ASSUME TableInv, NEW t \in Threads, Closing(t)
    PROVE  /\ ClosingOwns(t)
           /\ obj[t][1] \in Objs /\ obj[t][1] \in live /\ objFd[obj[t][1]] = des[t][1]
           /\ \A u \in Threads : pc[u] = "delete" => obj[u][1] # obj[t][1]
<1>1. ClosingOwns(t)
  BY DEF TableInv, Owns
<1>2. obj[t][1] \in live /\ objFd[obj[t][1]] = des[t][1]
  BY <1>1 DEF ClosingOwns, TableInv, TypeOK, EntryOwn, InTable
<1>3. ASSUME NEW u \in Threads, pc[u] = "delete"
      PROVE  obj[u][1] # obj[t][1]
  <2>1. u # t
    BY <1>3 DEF Closing
  <2>2. {obj[t][1]} \cap {obj[u][1]} = {}
    BY <1>3, <2>1 DEF TableInv, ObjsApart, ObjsOf, Opening, Closing
  <2> QED
    BY <2>2
<1> QED
  BY <1>1, <1>2, <1>3 DEF TableInv, TypeOK

(* What a step of another thread must leave alone.                          *)
LEMMA KeepOpening ==
    ASSUME NEW u \in Threads, OpeningOwns(u),
           pc'[u] = pc[u], obj'[u] = obj[u], des'[u] = des[u],
           obj[u][1] \in live', obj[u][2] \in live',
           des[u][1] \notin held', des[u][2] \notin held',
           conn'[des[u][1]] = conn[des[u][1]], conn'[des[u][2]] = conn[des[u][2]],
           objFd'[obj[u][1]] = objFd[obj[u][1]], objFd'[obj[u][2]] = objFd[obj[u][2]],
           DOMAIN sockList' = DOMAIN sockList,
           pc[u] # "check0" => sockList'[des[u][1]] = sockList[des[u][1]],
           pc[u] = "add1" => sockList'[des[u][2]] = sockList[des[u][2]]
    PROVE  OpeningOwns(u)'
BY DEF OpeningOwns, InTable

LEMMA KeepClosing ==
    ASSUME NEW u \in Threads, ClosingOwns(u),
           pc'[u] = pc[u], obj'[u] = obj[u], des'[u] = des[u],
           des[u][1] \notin held',
           (conn'[des[u][1]] = obj[u][1][1]) = (conn[des[u][1]] = obj[u][1][1]),
           DOMAIN sockList' = DOMAIN sockList,
           sockList'[des[u][1]] = sockList[des[u][1]]
    PROVE  ClosingOwns(u)'
BY DEF ClosingOwns, InTable

(* A step that takes up no object keeps the threads apart.                  *)
LEMMA KeepApart ==
    ASSUME ObjsApart, NEW t \in Threads, ObjsOf(t)' \subseteq ObjsOf(t),
           \A u \in Threads : u # t => ObjsOf(u)' = ObjsOf(u)
    PROVE  ObjsApart'
<1> SUFFICES ASSUME NEW u \in Threads, NEW v \in Threads, u # v
             PROVE  ObjsOf(u)' \cap ObjsOf(v)' = {}
  BY Zenon DEF ObjsApart
<1>1. ObjsOf(u) \cap ObjsOf(v) = {}
  BY Zenon DEF ObjsApart
<1>2. ObjsOf(u)' \subseteq ObjsOf(u) /\ ObjsOf(v)' \subseteq ObjsOf(v)
  BY Zenon
<1> QED
  BY <1>1, <1>2, Zenon


(* The types of what a thread is doing, when it returns or goes on.         *)
LEMMA ReturnType ==
    ASSUME ThreadTypeOK, NEW t \in Threads, Return(t)
    PROVE  ThreadTypeOK'
<1> DEFINE D == (Fds \cup {-1}) \X (Fds \cup {-1})
           S == (Objs \cup {NoObj}) \X (Objs \cup {NoObj})
<1>1. des \in [Threads -> D] /\ obj \in [Threads -> S] /\ pc \in [Threads -> Statements]
  BY DEF ThreadTypeOK
<1>2. <<-1, -1>> \in D /\ <<NoObj, NoObj>> \in S /\ "idle" \in Statements
  BY DEF Statements
<1>3. /\ des' = [des EXCEPT ![t] = <<-1, -1>>]
      /\ obj' = [obj EXCEPT ![t] = <<NoObj, NoObj>>]
      /\ pc' = [pc EXCEPT ![t] = "idle"]
  BY DEF Return, Goto
<1> HIDE DEF D, S
<1>4. des' \in [Threads -> D] /\ obj' \in [Threads -> S] /\ pc' \in [Threads -> Statements]
  BY <1>1, <1>2, <1>3
<1> QED
  BY <1>4, Zenon DEF ThreadTypeOK, D, S

LEMMA GotoType ==
    ASSUME ThreadTypeOK, NEW t \in Threads, NEW s \in Statements, Goto(t, s),
           UNCHANGED <<des, obj>>
    PROVE  ThreadTypeOK'
BY DEF ThreadTypeOK, Goto

-----------------------------------------------------------------------------
(* mySocketpair.  The first entry is looked at, ...                         *)
LEMMA Check0Step ==
    ASSUME TableInv, NEW t \in Threads, Check0(t)
    PROVE  TableInv'
<1>1. \A u \in Threads : u # t =>
          /\ pc'[u] = pc[u] /\ obj'[u] = obj[u] /\ des'[u] = des[u]
          /\ Opening(u)' = Opening(u) /\ Closing(u)' = Closing(u)
          /\ ObjsOf(u)' = ObjsOf(u)
  BY OthersStay DEF TableInv
<1>2. Opening(t) /\ OpeningOwns(t) /\ obj[t][1] \in Objs /\ obj[t][2] \in Objs
      /\ obj[t][1] # NoObj /\ obj[t][2] # NoObj
  BY OpeningFacts DEF Check0, Opening
<1>3. TypeOK'
  <2>1. ThreadTypeOK'
    BY GotoType, ReturnType DEF TableInv, TypeOK, Check0, Statements
  <2> QED
    BY <2>1 DEF TableInv, TypeOK, Check0
<1>4. LiveMade' /\ EntryOwn'
  BY DEF TableInv, LiveMade, EntryOwn, Check0
<1>5. \A u \in Threads : Owns(u)'
  <2> SUFFICES ASSUME NEW u \in Threads
               PROVE  /\ Opening(u)' => OpeningOwns(u)'
                      /\ Closing(u)' => ClosingOwns(u)'
                      /\ pc'[u] = "delete" => DeletingOwns(u)'
    BY Zenon DEF Owns
  <2>1. CASE u = t
    BY <1>2, <2>1 DEF OpeningOwns, Opening, Closing, TableInv, TypeOK, ThreadTypeOK,
                      Check0, CanAdd, Goto, Return, InTable
  <2>2. ASSUME u # t, Opening(u) PROVE OpeningOwns(u)'
    BY <1>1, <2>2, OpeningFacts, KeepOpening DEF OpeningOwns, Check0
  <2>3. ASSUME u # t, Closing(u) PROVE ClosingOwns(u)'
    BY <1>1, <2>3, ClosingFacts, KeepClosing DEF ClosingOwns, Check0
  <2>4. ASSUME u # t, pc[u] = "delete" PROVE DeletingOwns(u)'
    BY <1>1, <2>4 DEF Owns, DeletingOwns, TableInv, Check0
  <2> QED
    BY <1>1, <2>1, <2>2, <2>3, <2>4
<1>6. ObjsApart'
  <2>1. ObjsOf(t)' \subseteq ObjsOf(t)
    BY DEF ObjsOf, Opening, TableInv, TypeOK, ThreadTypeOK, Check0, Goto, Return
  <2> QED
    BY <1>1, <2>1, KeepApart, Zenon DEF TableInv
<1>7. EntryInUse'
  <2> SUFFICES ASSUME NEW f \in DOMAIN sockList', sockList'[f] # NoObj
               PROVE  \/ f \in held'
                      \/ \E u \in Threads : pc'[u] \in {"check1", "add1"} /\ des'[u][1] = f
                      \/ \E u \in Threads : Closing(u)' /\ des'[u][1] = f
    BY Zenon DEF EntryInUse
  <2>1. \/ f \in held'
        \/ \E u \in Threads : u # t /\ pc[u] \in {"check1", "add1"} /\ des[u][1] = f
        \/ \E u \in Threads : u # t /\ Closing(u) /\ des[u][1] = f
    BY DEF TableInv, EntryInUse, Check0, Closing
  <2>2. ASSUME NEW u \in Threads, u # t, pc[u] \in {"check1", "add1"}, des[u][1] = f
        PROVE  pc'[u] \in {"check1", "add1"} /\ des'[u][1] = f
    BY <1>1, <2>2
  <2>3. ASSUME NEW u \in Threads, u # t, Closing(u), des[u][1] = f
        PROVE  Closing(u)' /\ des'[u][1] = f
    BY <1>1, <2>3
  <2> QED
    BY <2>1, <2>2, <2>3 DEF TableInv, EntryInUse
<1>8. HeldHasEntry'
  BY DEF HeldHasEntry, TableInv, Check0, InTable
<1> QED
  BY <1>3, <1>4, <1>5, <1>6, <1>7, <1>8 DEF TableInv

(* ... and filled: it was found empty, and nobody else has the descriptor.  *)
LEMMA Add0Step ==
    ASSUME TableInv, NEW t \in Threads, Add0(t)
    PROVE  TableInv'
<1>1. \A u \in Threads : u # t =>
          /\ pc'[u] = pc[u] /\ obj'[u] = obj[u] /\ des'[u] = des[u]
          /\ Opening(u)' = Opening(u) /\ Closing(u)' = Closing(u)
          /\ ObjsOf(u)' = ObjsOf(u)
  BY OthersStay DEF TableInv
<1>2. Opening(t) /\ OpeningOwns(t) /\ obj[t][1] \in Objs /\ obj[t][2] \in Objs
      /\ obj[t][1] # NoObj /\ obj[t][2] # NoObj
  BY OpeningFacts DEF Add0, Opening
<1>3. TypeOK'
  <2>1. ThreadTypeOK'
    BY GotoType DEF TableInv, TypeOK, Add0, Statements
  <2>2. sockList' \in [0 .. Capacity - 1 -> Objs \cup {NoObj}]
    BY <1>2 DEF TableInv, TypeOK, Add0
  <2>3. \A f \in DOMAIN sockList' : sockList'[f] \in live' \cup {NoObj}
    BY <1>2 DEF TableInv, TypeOK, Add0, OpeningOwns
  <2> QED
    BY <2>1, <2>2, <2>3 DEF TableInv, TypeOK, Add0
<1>4. LiveMade' /\ EntryOwn'
  <2>1. LiveMade'
    BY DEF TableInv, LiveMade, Add0
  <2>2. EntryOwn'
    BY <1>2 DEF TableInv, TypeOK, EntryOwn, OpeningOwns, Add0
  <2> QED
    BY <2>1, <2>2
<1>5. \A u \in Threads : Owns(u)'
  <2> SUFFICES ASSUME NEW u \in Threads
               PROVE  /\ Opening(u)' => OpeningOwns(u)'
                      /\ Closing(u)' => ClosingOwns(u)'
                      /\ pc'[u] = "delete" => DeletingOwns(u)'
    BY Zenon DEF Owns
  <2>1. CASE u = t
    BY <1>2, <2>1 DEF OpeningOwns, Opening, Closing, TableInv, TypeOK, ThreadTypeOK,
                      Add0, Goto, InTable
  <2>2. ASSUME u # t, Opening(u) PROVE OpeningOwns(u)'
    BY <1>1, <1>2, <2>2, OpeningFacts, OpeningApart, KeepOpening
       DEF OpeningOwns, TableInv, TypeOK, Add0, InTable
  <2>3. ASSUME u # t, Closing(u) PROVE ClosingOwns(u)'
    BY <1>1, <1>2, <2>3, ClosingFacts, KeepClosing
       DEF OpeningOwns, ClosingOwns, TableInv, TypeOK, Add0, InTable
  <2>4. ASSUME u # t, pc[u] = "delete" PROVE DeletingOwns(u)'
    BY <1>1, <1>2, <2>4, OpeningFacts DEF Owns, DeletingOwns, TableInv, TypeOK, Add0
  <2> QED
    BY <1>1, <2>1, <2>2, <2>3, <2>4
<1>6. ObjsApart'
  <2>1. ObjsOf(t)' \subseteq ObjsOf(t)
    BY DEF ObjsOf, Opening, TableInv, TypeOK, ThreadTypeOK, Add0, Goto
  <2> QED
    BY <1>1, <2>1, KeepApart, Zenon DEF TableInv
<1>7. EntryInUse'
  <2> SUFFICES ASSUME NEW f \in DOMAIN sockList', sockList'[f] # NoObj
               PROVE  \/ f \in held'
                      \/ \E u \in Threads : pc'[u] \in {"check1", "add1"} /\ des'[u][1] = f
                      \/ \E u \in Threads : Closing(u)' /\ des'[u][1] = f
    BY Zenon DEF EntryInUse
  <2>0. pc'[t] = "check1" /\ des'[t] = des[t]
    BY DEF TableInv, TypeOK, ThreadTypeOK, Add0, Goto
  <2>1. \/ f \in held'
        \/ f = des[t][1]
        \/ \E u \in Threads : u # t /\ pc[u] \in {"check1", "add1"} /\ des[u][1] = f
        \/ \E u \in Threads : u # t /\ Closing(u) /\ des[u][1] = f
    BY DEF TableInv, TypeOK, EntryInUse, Add0, Closing
  <2>2. ASSUME NEW u \in Threads, u # t, pc[u] \in {"check1", "add1"}, des[u][1] = f
        PROVE  pc'[u] \in {"check1", "add1"} /\ des'[u][1] = f
    BY <1>1, <2>2
  <2>3. ASSUME NEW u \in Threads, u # t, Closing(u), des[u][1] = f
        PROVE  Closing(u)' /\ des'[u][1] = f
    BY <1>1, <2>3
  <2> QED
    BY <2>0, <2>1, <2>2, <2>3 DEF TableInv, EntryInUse
<1>8. HeldHasEntry'
  BY <1>2 DEF HeldHasEntry, TableInv, TypeOK, Add0, InTable, OpeningOwns
<1> QED
  BY <1>3, <1>4, <1>5, <1>6, <1>7, <1>8 DEF TableInv

(* The second entry is looked at, and the first emptied when it is taken.   *)
LEMMA Check1Step ==
    ASSUME TableInv, NEW t \in Threads, Check1(t)
    PROVE  TableInv'
<1>1. \A u \in Threads : u # t =>
          /\ pc'[u] = pc[u] /\ obj'[u] = obj[u] /\ des'[u] = des[u]
          /\ Opening(u)' = Opening(u) /\ Closing(u)' = Closing(u)
          /\ ObjsOf(u)' = ObjsOf(u)
  BY OthersStay DEF TableInv
<1>2. Opening(t) /\ OpeningOwns(t) /\ obj[t][1] \in Objs /\ obj[t][2] \in Objs
      /\ obj[t][1] # NoObj /\ obj[t][2] # NoObj
  BY OpeningFacts DEF Check1, Opening
<1>3. TypeOK'
  <2>1. ThreadTypeOK'
    BY GotoType, ReturnType DEF TableInv, TypeOK, Check1, Statements
  <2>2. sockList' \in [0 .. Capacity - 1 -> Objs \cup {NoObj}]
    BY DEF TableInv, TypeOK, Check1
  <2>3. \A f \in DOMAIN sockList' : sockList'[f] \in live' \cup {NoObj}
    BY DEF TableInv, TypeOK, Check1
  <2> QED
    BY <2>1, <2>2, <2>3 DEF TableInv, TypeOK, Check1
<1>4. LiveMade' /\ EntryOwn'
  <2>1. LiveMade'
    BY DEF TableInv, LiveMade, Check1
  <2>2. EntryOwn'
    BY <1>2 DEF TableInv, TypeOK, EntryOwn, OpeningOwns, Check1
  <2> QED
    BY <2>1, <2>2
<1>5. \A u \in Threads : Owns(u)'
  <2> SUFFICES ASSUME NEW u \in Threads
               PROVE  /\ Opening(u)' => OpeningOwns(u)'
                      /\ Closing(u)' => ClosingOwns(u)'
                      /\ pc'[u] = "delete" => DeletingOwns(u)'
    BY Zenon DEF Owns
  <2>1. CASE u = t
    <3>1. CASE CanAdd(des[t][2])
      BY <1>2, <2>1, <3>1 DEF OpeningOwns, Opening, Closing, TableInv, TypeOK, ThreadTypeOK,
                        Check1, CanAdd, Goto, InTable
    <3>2. CASE ~CanAdd(des[t][2])
      BY <2>1, <3>2 DEF Opening, Closing, TableInv, TypeOK, ThreadTypeOK, Check1, Return, Goto
    <3> QED
      BY <3>1, <3>2
  <2>2. ASSUME u # t, Opening(u) PROVE OpeningOwns(u)'
    <3>1. OpeningOwns(u) /\ des[u][1] # des[t][1] /\ des[u][2] # des[t][1]
      BY <1>2, <2>2, OpeningFacts, OpeningApart
    <3>2. \A f \in DOMAIN sockList : f # des[t][1] => sockList'[f] = sockList[f]
      BY DEF TableInv, TypeOK, Check1
    <3>3. DOMAIN sockList' = DOMAIN sockList
      BY DEF TableInv, TypeOK, Check1
    <3>4. UNCHANGED <<conn, objFd, live, held>>
      BY DEF Check1
    <3> QED
      BY <1>1, <2>2, <3>1, <3>2, <3>3, <3>4, KeepOpening DEF OpeningOwns, InTable, Opening
  <2>3. ASSUME u # t, Closing(u) PROVE ClosingOwns(u)'
    <3>1. ClosingOwns(u) /\ obj[u][1] # obj[t][1]
      BY <1>2, <2>3, ClosingFacts, OpeningClosingApart
    <3>2. sockList[des[t][1]] = obj[t][1]
      BY <1>2 DEF OpeningOwns, Check1
    <3>3. des[u][1] # des[t][1]
      BY <3>1, <3>2 DEF ClosingOwns
    <3>4. \A f \in DOMAIN sockList : f # des[t][1] => sockList'[f] = sockList[f]
      BY DEF TableInv, TypeOK, Check1
    <3>5. DOMAIN sockList' = DOMAIN sockList
      BY DEF TableInv, TypeOK, Check1
    <3>6. UNCHANGED <<conn, held>>
      BY DEF Check1
    <3> QED
      BY <1>1, <2>3, <3>1, <3>3, <3>4, <3>5, <3>6, KeepClosing DEF ClosingOwns, InTable
  <2>4. ASSUME u # t, pc[u] = "delete" PROVE DeletingOwns(u)'
    <3>1. DeletingOwns(u) /\ obj[u][1] \in Objs
      BY <2>4 DEF TableInv, TypeOK, Owns, DeletingOwns
    <3>2. \A f \in DOMAIN sockList' : f \in DOMAIN sockList /\ sockList'[f] \in {sockList[f], NoObj}
      BY DEF TableInv, TypeOK, Check1
    <3> QED
      BY <1>1, <2>4, <3>1, <3>2, ObjFields DEF DeletingOwns, Check1
  <2> QED
    BY <1>1, <2>1, <2>2, <2>3, <2>4
<1>6. ObjsApart'
  <2>1. ObjsOf(t)' \subseteq ObjsOf(t)
    BY DEF ObjsOf, Opening, TableInv, TypeOK, ThreadTypeOK, Check1, Goto, Return
  <2> QED
    BY <1>1, <2>1, KeepApart, Zenon DEF TableInv
<1>7. EntryInUse'
  <2> SUFFICES ASSUME NEW f \in DOMAIN sockList', sockList'[f] # NoObj
               PROVE  \/ f \in held'
                      \/ \E u \in Threads : pc'[u] \in {"check1", "add1"} /\ des'[u][1] = f
                      \/ \E u \in Threads : Closing(u)' /\ des'[u][1] = f
    BY Zenon DEF EntryInUse
  <2>0. f \in DOMAIN sockList /\ sockList[f] = sockList'[f]
    BY DEF TableInv, TypeOK, Check1
  <2>1. \/ f \in held'
        \/ f = des[t][1] /\ pc'[t] = "add1" /\ des'[t] = des[t]
        \/ \E u \in Threads : u # t /\ pc[u] \in {"check1", "add1"} /\ des[u][1] = f
        \/ \E u \in Threads : u # t /\ Closing(u) /\ des[u][1] = f
    BY <2>0 DEF TableInv, TypeOK, ThreadTypeOK, EntryInUse, Check1, Closing, Goto, InTable
  <2>2. ASSUME NEW u \in Threads, u # t, pc[u] \in {"check1", "add1"}, des[u][1] = f
        PROVE  pc'[u] \in {"check1", "add1"} /\ des'[u][1] = f
    BY <1>1, <2>2
  <2>3. ASSUME NEW u \in Threads, u # t, Closing(u), des[u][1] = f
        PROVE  Closing(u)' /\ des'[u][1] = f
    BY <1>1, <2>3
  <2> QED
    BY <2>1, <2>2, <2>3 DEF TableInv, EntryInUse
<1>8. HeldHasEntry'
  BY <1>2 DEF HeldHasEntry, TableInv, TypeOK, Check1, InTable, OpeningOwns
<1> QED
  BY <1>3, <1>4, <1>5, <1>6, <1>7, <1>8 DEF TableInv

(* The second entry is filled and the client gets both descriptors.         *)
LEMMA Add1Step ==
    ASSUME TableInv, NEW t \in Threads, Add1(t)
    PROVE  TableInv'
<1>1. \A u \in Threads : u # t =>
          /\ pc'[u] = pc[u] /\ obj'[u] = obj[u] /\ des'[u] = des[u]
          /\ Opening(u)' = Opening(u) /\ Closing(u)' = Closing(u)
          /\ ObjsOf(u)' = ObjsOf(u)
  BY OthersStay DEF TableInv
<1>2. Opening(t) /\ OpeningOwns(t) /\ obj[t][1] \in Objs /\ obj[t][2] \in Objs
      /\ obj[t][1] # NoObj /\ obj[t][2] # NoObj
  BY OpeningFacts DEF Add1, Opening
<1>3. TypeOK'
  <2>1. ThreadTypeOK'
    BY ReturnType DEF TableInv, TypeOK, Add1
  <2>2. sockList' \in [0 .. Capacity - 1 -> Objs \cup {NoObj}]
    BY <1>2 DEF TableInv, TypeOK, Add1
  <2>3. \A f \in DOMAIN sockList' : sockList'[f] \in live' \cup {NoObj}
    BY <1>2 DEF TableInv, TypeOK, Add1, OpeningOwns
  <2>4. held' \subseteq Fds
    BY <1>2 DEF TableInv, TypeOK, Add1, OpeningOwns
  <2> QED
    BY <2>1, <2>2, <2>3, <2>4 DEF TableInv, TypeOK, Add1
<1>4. LiveMade' /\ EntryOwn'
  <2>1. LiveMade'
    BY DEF TableInv, LiveMade, Add1
  <2>2. EntryOwn'
    BY <1>2 DEF TableInv, TypeOK, EntryOwn, OpeningOwns, Add1
  <2> QED
    BY <2>1, <2>2
<1>5. \A u \in Threads : Owns(u)'
  <2> SUFFICES ASSUME NEW u \in Threads
               PROVE  /\ Opening(u)' => OpeningOwns(u)'
                      /\ Closing(u)' => ClosingOwns(u)'
                      /\ pc'[u] = "delete" => DeletingOwns(u)'
    BY Zenon DEF Owns
  <2>1. CASE u = t
    BY <2>1 DEF Opening, Closing, TableInv, TypeOK, ThreadTypeOK, Add1, Return, Goto
  <2>2. ASSUME u # t, Opening(u) PROVE OpeningOwns(u)'
    <3>1. /\ OpeningOwns(u)
          /\ des[u][1] # des[t][1] /\ des[u][2] # des[t][1]
          /\ des[u][1] # des[t][2] /\ des[u][2] # des[t][2]
      BY <1>2, <2>2, OpeningFacts, OpeningApart
    <3>2. \A f \in DOMAIN sockList : f # des[t][2] => sockList'[f] = sockList[f]
      BY DEF TableInv, TypeOK, Add1
    <3>3. DOMAIN sockList' = DOMAIN sockList
      BY DEF TableInv, TypeOK, Add1
    <3>4. UNCHANGED <<conn, objFd, live>> /\ held' = held \cup {des[t][1], des[t][2]}
      BY DEF Add1
    <3> QED
      BY <1>1, <2>2, <3>1, <3>2, <3>3, <3>4, KeepOpening DEF OpeningOwns, InTable, Opening
  <2>3. ASSUME u # t, Closing(u) PROVE ClosingOwns(u)'
    <3>1. ClosingOwns(u) /\ obj[u][1] # obj[t][1] /\ obj[u][1] # NoObj
      BY <1>2, <2>3, ClosingFacts, OpeningClosingApart DEF ClosingOwns
    <3>2. sockList[des[t][1]] = obj[t][1] /\ sockList[des[t][2]] = NoObj
      BY <1>2 DEF OpeningOwns, Add1
    <3>3. des[u][1] # des[t][1] /\ des[u][1] # des[t][2]
      BY <3>1, <3>2 DEF ClosingOwns
    <3>4. \A f \in DOMAIN sockList : f # des[t][2] => sockList'[f] = sockList[f]
      BY DEF TableInv, TypeOK, Add1
    <3>5. DOMAIN sockList' = DOMAIN sockList
      BY DEF TableInv, TypeOK, Add1
    <3>6. UNCHANGED conn /\ held' = held \cup {des[t][1], des[t][2]}
      BY DEF Add1
    <3> QED
      BY <1>1, <2>3, <3>1, <3>3, <3>4, <3>5, <3>6, KeepClosing DEF ClosingOwns, InTable
  <2>4. ASSUME u # t, pc[u] = "delete" PROVE DeletingOwns(u)'
    <3>1. DeletingOwns(u) /\ obj[u][1] # obj[t][2]
      BY <1>2, <2>4, OpeningFacts DEF TableInv, Owns
    <3>2. \A f \in DOMAIN sockList' : f \in DOMAIN sockList /\ sockList'[f] \in {sockList[f], obj[t][2]}
      BY DEF TableInv, TypeOK, Add1
    <3> QED
      BY <1>1, <2>4, <3>1, <3>2 DEF DeletingOwns, Add1
  <2> QED
    BY <1>1, <2>1, <2>2, <2>3, <2>4
<1>6. ObjsApart'
  <2>1. ObjsOf(t)' \subseteq ObjsOf(t)
    <3>1. pc'[t] = "idle"
      BY DEF TableInv, TypeOK, ThreadTypeOK, Add1, Return, Goto
    <3> QED
      BY <3>1 DEF ObjsOf, Opening
  <2> QED
    BY <1>1, <2>1, KeepApart, Zenon DEF TableInv
<1>7. EntryInUse'
  <2> SUFFICES ASSUME NEW f \in DOMAIN sockList', sockList'[f] # NoObj
               PROVE  \/ f \in held'
                      \/ \E u \in Threads : pc'[u] \in {"check1", "add1"} /\ des'[u][1] = f
                      \/ \E u \in Threads : Closing(u)' /\ des'[u][1] = f
    BY Zenon DEF EntryInUse
  <2>1. \/ f \in held'
        \/ \E u \in Threads : u # t /\ pc[u] \in {"check1", "add1"} /\ des[u][1] = f
        \/ \E u \in Threads : u # t /\ Closing(u) /\ des[u][1] = f
    <3>1. CASE f = des[t][1] \/ f = des[t][2]
      BY <3>1 DEF Add1
    <3>2. CASE f # des[t][1] /\ f # des[t][2]
      <4>1. f \in DOMAIN sockList /\ sockList[f] # NoObj
        BY <3>2 DEF TableInv, TypeOK, Add1
      <4> QED
        BY <3>2, <4>1 DEF TableInv, EntryInUse, Add1, Closing
    <3> QED
      BY <3>1, <3>2
  <2>2. ASSUME NEW u \in Threads, u # t, pc[u] \in {"check1", "add1"}, des[u][1] = f
        PROVE  pc'[u] \in {"check1", "add1"} /\ des'[u][1] = f
    BY <1>1, <2>2
  <2>3. ASSUME NEW u \in Threads, u # t, Closing(u), des[u][1] = f
        PROVE  Closing(u)' /\ des'[u][1] = f
    BY <1>1, <2>3
  <2> QED
    BY <2>1, <2>2, <2>3 DEF TableInv, EntryInUse
<1>8. HeldHasEntry'
  <2> SUFFICES ASSUME NEW f \in held'
               PROVE  /\ InTable(f)'
                      /\ sockList'[f] \in live'
                      /\ objFd'[sockList'[f]] = f
                      /\ sockList'[f][1] = conn'[f]
    BY Zenon DEF HeldHasEntry
  <2>1. /\ DOMAIN sockList' = DOMAIN sockList
        /\ sockList'[des[t][2]] = obj[t][2]
        /\ \A g \in DOMAIN sockList : g # des[t][2] => sockList'[g] = sockList[g]
    BY <1>2 DEF TableInv, TypeOK, Add1, OpeningOwns, InTable
  <2>2. UNCHANGED <<conn, objFd, live>> /\ held' = held \cup {des[t][1], des[t][2]}
    BY DEF Add1
  <2>3. CASE f = des[t][1]
    BY <1>2, <2>1, <2>2, <2>3 DEF OpeningOwns, InTable, Add1
  <2>4. CASE f = des[t][2]
    BY <1>2, <2>1, <2>2, <2>4 DEF OpeningOwns, InTable, Add1
  <2>5. CASE f \in held /\ f # des[t][2]
    BY <1>2, <2>1, <2>2, <2>5 DEF HeldHasEntry, TableInv, InTable
  <2> QED
    BY <2>2, <2>3, <2>4, <2>5
<1> QED
  BY <1>3, <1>4, <1>5, <1>6, <1>7, <1>8 DEF TableInv

(* myClose.  The descriptor is free again; its entry is still filled.       *)
LEMMA CloseStep ==
    ASSUME TableInv, NEW t \in Threads, Close(t)
    PROVE  TableInv'
<1>1. \A u \in Threads : u # t =>
          /\ pc'[u] = pc[u] /\ obj'[u] = obj[u] /\ des'[u] = des[u]
          /\ Opening(u)' = Opening(u) /\ Closing(u)' = Closing(u)
          /\ ObjsOf(u)' = ObjsOf(u)
  BY OthersStay DEF TableInv
<1>2. Closing(t) /\ ClosingOwns(t) /\ obj[t][1] \in Objs /\ obj[t][1] \in live
      /\ objFd[obj[t][1]] = des[t][1]
  BY ClosingFacts DEF Close, Closing
<1>3. TypeOK'
  <2>1. ThreadTypeOK'
    BY GotoType DEF TableInv, TypeOK, Close, Statements
  <2>2. conn' \in [Fds -> 0 .. MaxPairs]
    <3>1. Closed \in 0 .. MaxPairs
      BY TableAssumption DEF Closed
    <3> QED
      BY <3>1 DEF TableInv, TypeOK, Close
  <2> QED
    BY <2>1, <2>2 DEF TableInv, TypeOK, Close
<1>4. LiveMade' /\ EntryOwn'
  BY DEF TableInv, LiveMade, EntryOwn, Close
<1>5. \A u \in Threads : Owns(u)'
  <2> SUFFICES ASSUME NEW u \in Threads
               PROVE  /\ Opening(u)' => OpeningOwns(u)'
                      /\ Closing(u)' => ClosingOwns(u)'
                      /\ pc'[u] = "delete" => DeletingOwns(u)'
    BY Zenon DEF Owns
  <2>1. CASE u = t
    <3>1. pc[t] = "close" /\ pc'[t] = "paired" /\ UNCHANGED <<sockList, held, des, obj>>
      BY DEF TableInv, TypeOK, ThreadTypeOK, Close, Goto
    <3>2. des[t][1] \in Fds
      BY <1>2 DEF TableInv, TypeOK, ClosingOwns, InTable
    <3>3. conn'[des[t][1]] = Closed
      BY <3>2 DEF TableInv, TypeOK, Close
    <3>4. obj[t][1][1] # Closed
      BY <1>2, ObjFields
    <3> QED
      BY <1>2, <2>1, <3>1, <3>3, <3>4 DEF ClosingOwns, Opening, InTable
  <2>2. ASSUME u # t, Opening(u) PROVE OpeningOwns(u)'
    <3>1. OpeningOwns(u) /\ des[u][1] # des[t][1] /\ des[u][2] # des[t][1]
      BY <1>2, <2>2, OpeningFacts, OpeningClosingApart DEF Close
    <3>2. \A f \in Fds : f # des[t][1] => conn'[f] = conn[f]
      BY DEF TableInv, TypeOK, Close
    <3>3. UNCHANGED <<sockList, objFd, live, held>>
      BY DEF Close
    <3> QED
      BY <1>1, <2>2, <3>1, <3>2, <3>3, KeepOpening DEF OpeningOwns
  <2>3. ASSUME u # t, Closing(u) PROVE ClosingOwns(u)'
    <3>1. ClosingOwns(u) /\ des[u][1] # des[t][1]
      BY <1>2, <2>3, ClosingFacts, ClosingApart
    <3>2. conn'[des[u][1]] = conn[des[u][1]]
      BY <3>1 DEF TableInv, TypeOK, Close
    <3>3. UNCHANGED <<sockList, held>>
      BY DEF Close
    <3> QED
      BY <1>1, <2>3, <3>1, <3>2, <3>3, KeepClosing DEF ClosingOwns
  <2>4. ASSUME u # t, pc[u] = "delete" PROVE DeletingOwns(u)'
    BY <1>1, <2>4 DEF TableInv, Owns, DeletingOwns, Close
  <2> QED
    BY <1>1, <2>1, <2>2, <2>3, <2>4
<1>6. ObjsApart'
  <2>1. ObjsOf(t)' \subseteq ObjsOf(t)
    BY DEF ObjsOf, Opening, TableInv, TypeOK, ThreadTypeOK, Close, Goto
  <2> QED
    BY <1>1, <2>1, KeepApart, Zenon DEF TableInv
<1>7. EntryInUse'
  <2> SUFFICES ASSUME NEW f \in DOMAIN sockList', sockList'[f] # NoObj
               PROVE  \/ f \in held'
                      \/ \E u \in Threads : pc'[u] \in {"check1", "add1"} /\ des'[u][1] = f
                      \/ \E u \in Threads : Closing(u)' /\ des'[u][1] = f
    BY Zenon DEF EntryInUse
  <2>0. f \in DOMAIN sockList /\ sockList[f] = sockList'[f]
    BY DEF TableInv, TypeOK, Close
  <2>1. \/ f \in held'
        \/ f = des[t][1] /\ Closing(t)' /\ des'[t] = des[t]
        \/ \E u \in Threads : u # t /\ pc[u] \in {"check1", "add1"} /\ des[u][1] = f
        \/ \E u \in Threads : u # t /\ Closing(u) /\ des[u][1] = f
    BY <2>0 DEF TableInv, TypeOK, ThreadTypeOK, EntryInUse, Close, Closing, Goto
  <2>2. ASSUME NEW u \in Threads, u # t, pc[u] \in {"check1", "add1"}, des[u][1] = f
        PROVE  pc'[u] \in {"check1", "add1"} /\ des'[u][1] = f
    BY <1>1, <2>2
  <2>3. ASSUME NEW u \in Threads, u # t, Closing(u), des[u][1] = f
        PROVE  Closing(u)' /\ des'[u][1] = f
    BY <1>1, <2>3
  <2> QED
    BY <2>1, <2>2, <2>3 DEF TableInv, EntryInUse
<1>8. HeldHasEntry'
  <2>1. des[t][1] \notin held
    BY <1>2 DEF ClosingOwns
  <2>2. \A f \in Fds : f # des[t][1] => conn'[f] = conn[f]
    BY DEF TableInv, TypeOK, Close
  <2>3. held \subseteq Fds /\ HeldHasEntry /\ UNCHANGED <<sockList, objFd, live, held>>
    BY DEF TableInv, TypeOK, Close
  <2> QED
    BY <2>1, <2>2, <2>3 DEF HeldHasEntry, InTable
<1> QED
  BY <1>3, <1>4, <1>5, <1>6, <1>7, <1>8 DEF TableInv

(* The statements that deal with the other end touch no entry.              *)
LEMMA ReadPairedStep ==
    ASSUME TableInv, NEW t \in Threads, ReadPaired(t)
    PROVE  TableInv'
<1>1. \A u \in Threads : u # t =>
          /\ pc'[u] = pc[u] /\ obj'[u] = obj[u] /\ des'[u] = des[u]
          /\ Opening(u)' = Opening(u) /\ Closing(u)' = Closing(u)
          /\ ObjsOf(u)' = ObjsOf(u)
  BY OthersStay DEF TableInv
<1>2. Closing(t) /\ ClosingOwns(t) /\ obj[t][1] \in Objs /\ obj[t][1] \in live
      /\ objFd[obj[t][1]] = des[t][1]
  BY ClosingFacts DEF ReadPaired, Closing
<1>3. TypeOK'
  <2>1. ThreadTypeOK'
    <3>1. pairedFd[obj[t][1]] \in Fds \cup {-1}
      BY <1>2 DEF TableInv, TypeOK
    <3>2. des' \in [Threads -> (Fds \cup {-1}) \X (Fds \cup {-1})]
      BY <3>1 DEF TableInv, TypeOK, ThreadTypeOK, ReadPaired
    <3> QED
      BY <3>2 DEF TableInv, TypeOK, ThreadTypeOK, ReadPaired, Goto, Statements
  <2> QED
    BY <2>1 DEF TableInv, TypeOK, ReadPaired
<1>4. LiveMade' /\ EntryOwn'
  BY DEF TableInv, LiveMade, EntryOwn, ReadPaired
<1>5. \A u \in Threads : Owns(u)'
  <2> SUFFICES ASSUME NEW u \in Threads
               PROVE  /\ Opening(u)' => OpeningOwns(u)'
                      /\ Closing(u)' => ClosingOwns(u)'
                      /\ pc'[u] = "delete" => DeletingOwns(u)'
    BY Zenon DEF Owns
  <2>1. CASE u = t
    <3>1. /\ Closing(t)' /\ pc[t] # "close" /\ pc'[t] # "close" /\ des'[t][1] = des[t][1]
          /\ UNCHANGED <<conn, sockList, held, obj>>
      BY DEF TableInv, TypeOK, ThreadTypeOK, ReadPaired, Goto, Closing
    <3> QED
      BY <1>2, <2>1, <3>1 DEF ClosingOwns, Opening, Closing, InTable
  <2>2. ASSUME u # t, Opening(u) PROVE OpeningOwns(u)'
    BY <1>1, <2>2, OpeningFacts, KeepOpening DEF OpeningOwns, ReadPaired
  <2>3. ASSUME u # t, Closing(u) PROVE ClosingOwns(u)'
    BY <1>1, <2>3, ClosingFacts, KeepClosing DEF ClosingOwns, ReadPaired
  <2>4. ASSUME u # t, pc[u] = "delete" PROVE DeletingOwns(u)'
    BY <1>1, <2>4 DEF TableInv, Owns, DeletingOwns, ReadPaired
  <2> QED
    BY <1>1, <2>1, <2>2, <2>3, <2>4
<1>6. ObjsApart'
  <2>1. ObjsOf(t)' \subseteq ObjsOf(t)
    BY DEF ObjsOf, Opening, TableInv, TypeOK, ThreadTypeOK, ReadPaired, Goto
  <2> QED
    BY <1>1, <2>1, KeepApart, Zenon DEF TableInv
<1>7. EntryInUse'
  <2> SUFFICES ASSUME NEW f \in DOMAIN sockList', sockList'[f] # NoObj
               PROVE  \/ f \in held'
                      \/ \E u \in Threads : pc'[u] \in {"check1", "add1"} /\ des'[u][1] = f
                      \/ \E u \in Threads : Closing(u)' /\ des'[u][1] = f
    BY Zenon DEF EntryInUse
  <2>0. f \in DOMAIN sockList /\ sockList[f] = sockList'[f]
    BY DEF TableInv, TypeOK, ReadPaired
  <2>1. \/ f \in held'
        \/ f = des[t][1] /\ Closing(t)' /\ des'[t][1] = des[t][1]
        \/ \E u \in Threads : u # t /\ pc[u] \in {"check1", "add1"} /\ des[u][1] = f
        \/ \E u \in Threads : u # t /\ Closing(u) /\ des[u][1] = f
    BY <2>0 DEF TableInv, TypeOK, ThreadTypeOK, EntryInUse, ReadPaired, Closing, Goto
  <2>2. ASSUME NEW u \in Threads, u # t, pc[u] \in {"check1", "add1"}, des[u][1] = f
        PROVE  pc'[u] \in {"check1", "add1"} /\ des'[u][1] = f
    BY <1>1, <2>2
  <2>3. ASSUME NEW u \in Threads, u # t, Closing(u), des[u][1] = f
        PROVE  Closing(u)' /\ des'[u][1] = f
    BY <1>1, <2>3
  <2> QED
    BY <2>1, <2>2, <2>3 DEF TableInv, EntryInUse
<1>8. HeldHasEntry'
  BY DEF HeldHasEntry, TableInv, ReadPaired, InTable
<1> QED
  BY <1>3, <1>4, <1>5, <1>6, <1>7, <1>8 DEF TableInv

LEMMA UnpairStep ==
    ASSUME TableInv, NEW t \in Threads, Unpair(t)
    PROVE  TableInv'
<1>1. \A u \in Threads : u # t =>
          /\ pc'[u] = pc[u] /\ obj'[u] = obj[u] /\ des'[u] = des[u]
          /\ Opening(u)' = Opening(u) /\ Closing(u)' = Closing(u)
          /\ ObjsOf(u)' = ObjsOf(u)
  BY OthersStay DEF TableInv
<1>2. Closing(t) /\ ClosingOwns(t) /\ obj[t][1] \in Objs /\ obj[t][1] \in live
      /\ objFd[obj[t][1]] = des[t][1]
  BY ClosingFacts DEF Unpair, Closing
<1>3. TypeOK'
  <2>1. ThreadTypeOK'
    BY GotoType DEF TableInv, TypeOK, Unpair, Statements
  <2>2. pairedFd' \in [Objs -> Fds \cup {-1}]
    BY DEF TableInv, TypeOK, Unpair
  <2> QED
    BY <2>1, <2>2 DEF TableInv, TypeOK, Unpair
<1>4. LiveMade' /\ EntryOwn'
  BY DEF TableInv, LiveMade, EntryOwn, Unpair
<1>5. \A u \in Threads : Owns(u)'
  <2> SUFFICES ASSUME NEW u \in Threads
               PROVE  /\ Opening(u)' => OpeningOwns(u)'
                      /\ Closing(u)' => ClosingOwns(u)'
                      /\ pc'[u] = "delete" => DeletingOwns(u)'
    BY Zenon DEF Owns
  <2>1. CASE u = t
    <3>1. /\ Closing(t)' /\ pc[t] # "close" /\ pc'[t] # "close" /\ des'[t][1] = des[t][1]
          /\ UNCHANGED <<conn, sockList, held, obj>>
      BY DEF TableInv, TypeOK, ThreadTypeOK, Unpair, Goto, Closing
    <3> QED
      BY <1>2, <2>1, <3>1 DEF ClosingOwns, Opening, Closing, InTable
  <2>2. ASSUME u # t, Opening(u) PROVE OpeningOwns(u)'
    BY <1>1, <2>2, OpeningFacts, KeepOpening DEF OpeningOwns, Unpair
  <2>3. ASSUME u # t, Closing(u) PROVE ClosingOwns(u)'
    BY <1>1, <2>3, ClosingFacts, KeepClosing DEF ClosingOwns, Unpair
  <2>4. ASSUME u # t, pc[u] = "delete" PROVE DeletingOwns(u)'
    BY <1>1, <2>4 DEF TableInv, Owns, DeletingOwns, Unpair
  <2> QED
    BY <1>1, <2>1, <2>2, <2>3, <2>4
<1>6. ObjsApart'
  <2>1. ObjsOf(t)' \subseteq ObjsOf(t)
    BY DEF ObjsOf, Opening, TableInv, TypeOK, ThreadTypeOK, Unpair, Goto
  <2> QED
    BY <1>1, <2>1, KeepApart, Zenon DEF TableInv
<1>7. EntryInUse'
  <2> SUFFICES ASSUME NEW f \in DOMAIN sockList', sockList'[f] # NoObj
               PROVE  \/ f \in held'
                      \/ \E u \in Threads : pc'[u] \in {"check1", "add1"} /\ des'[u][1] = f
                      \/ \E u \in Threads : Closing(u)' /\ des'[u][1] = f
    BY Zenon DEF EntryInUse
  <2>0. f \in DOMAIN sockList /\ sockList[f] = sockList'[f]
    BY DEF TableInv, TypeOK, Unpair
  <2>1. \/ f \in held'
        \/ f = des[t][1] /\ Closing(t)' /\ des'[t][1] = des[t][1]
        \/ \E u \in Threads : u # t /\ pc[u] \in {"check1", "add1"} /\ des[u][1] = f
        \/ \E u \in Threads : u # t /\ Closing(u) /\ des[u][1] = f
    BY <2>0 DEF TableInv, TypeOK, ThreadTypeOK, EntryInUse, Unpair, Closing, Goto
  <2>2. ASSUME NEW u \in Threads, u # t, pc[u] \in {"check1", "add1"}, des[u][1] = f
        PROVE  pc'[u] \in {"check1", "add1"} /\ des'[u][1] = f
    BY <1>1, <2>2
  <2>3. ASSUME NEW u \in Threads, u # t, Closing(u), des[u][1] = f
        PROVE  Closing(u)' /\ des'[u][1] = f
    BY <1>1, <2>3
  <2> QED
    BY <2>1, <2>2, <2>3 DEF TableInv, EntryInUse
<1>8. HeldHasEntry'
  BY DEF HeldHasEntry, TableInv, Unpair, InTable
<1> QED
  BY <1>3, <1>4, <1>5, <1>6, <1>7, <1>8 DEF TableInv

(* The entry is emptied: it is still the one of the object being closed.    *)
LEMMA ForgetStep ==
    ASSUME TableInv, NEW t \in Threads, Forget(t)
    PROVE  TableInv'
<1>1. \A u \in Threads : u # t =>
          /\ pc'[u] = pc[u] /\ obj'[u] = obj[u] /\ des'[u] = des[u]
          /\ Opening(u)' = Opening(u) /\ Closing(u)' = Closing(u)
          /\ ObjsOf(u)' = ObjsOf(u)
  BY OthersStay DEF TableInv
<1>2. Closing(t) /\ ClosingOwns(t) /\ obj[t][1] \in Objs /\ obj[t][1] \in live
      /\ objFd[obj[t][1]] = des[t][1]
  BY ClosingFacts DEF Forget, Closing
<1>3. TypeOK'
  <2>1. ThreadTypeOK'
    BY GotoType DEF TableInv, TypeOK, Forget, Statements
  <2>2. sockList' \in [0 .. Capacity - 1 -> Objs \cup {NoObj}]
    BY DEF TableInv, TypeOK, Forget
  <2>3. \A f \in DOMAIN sockList' : sockList'[f] \in live' \cup {NoObj}
    BY DEF TableInv, TypeOK, Forget
  <2> QED
    BY <2>1, <2>2, <2>3 DEF TableInv, TypeOK, Forget
<1>4. LiveMade' /\ EntryOwn'
  BY DEF TableInv, TypeOK, LiveMade, EntryOwn, Forget
<1>5. \A u \in Threads : Owns(u)'
  <2> SUFFICES ASSUME NEW u \in Threads
               PROVE  /\ Opening(u)' => OpeningOwns(u)'
                      /\ Closing(u)' => ClosingOwns(u)'
                      /\ pc'[u] = "delete" => DeletingOwns(u)'
    BY Zenon DEF Owns
  <2>1. CASE u = t
    <3>1. pc'[t] = "delete" /\ UNCHANGED <<live, obj>>
      BY DEF TableInv, TypeOK, ThreadTypeOK, Forget, Goto
    <3>2. \A f \in DOMAIN sockList' : /\ f \in DOMAIN sockList
             /\ sockList'[f] = IF f = des[t][1] THEN NoObj ELSE sockList[f]
      BY <1>2 DEF TableInv, TypeOK, Forget
    <3>3. \A f \in DOMAIN sockList : f # des[t][1] => sockList[f] # obj[t][1]
      BY <1>2, ObjFields DEF TableInv, EntryOwn
    <3> QED
      BY <1>2, <2>1, <3>1, <3>2, <3>3, ObjFields DEF DeletingOwns, Opening, Closing
  <2>2. ASSUME u # t, Opening(u) PROVE OpeningOwns(u)'
    <3>1. OpeningOwns(u) /\ obj[t][1] # obj[u][1] /\ obj[t][1] # NoObj
      BY <1>2, <2>2, OpeningFacts, OpeningClosingApart, ObjFields
    <3>2. \A f \in DOMAIN sockList : sockList[f] # obj[t][1] => sockList'[f] = sockList[f]
      BY <1>2 DEF TableInv, TypeOK, Forget, ClosingOwns
    <3>3. DOMAIN sockList' = DOMAIN sockList
      BY DEF TableInv, TypeOK, Forget
    <3>4. UNCHANGED <<conn, objFd, live, held>>
      BY DEF Forget
    <3>5. pc[u] # "check0" => sockList'[des[u][1]] = sockList[des[u][1]]
      BY <2>2, <3>1, <3>2 DEF OpeningOwns, InTable, Opening
    <3>6. pc[u] = "add1" => sockList'[des[u][2]] = sockList[des[u][2]]
      BY <3>1, <3>2 DEF OpeningOwns, InTable
    <3> QED
      BY <1>1, <2>2, <3>1, <3>3, <3>4, <3>5, <3>6, KeepOpening DEF OpeningOwns
  <2>3. ASSUME u # t, Closing(u) PROVE ClosingOwns(u)'
    <3>1. ClosingOwns(u) /\ des[u][1] # des[t][1]
      BY <1>2, <2>3, ClosingFacts, ClosingApart
    <3>2. sockList'[des[u][1]] = sockList[des[u][1]] /\ DOMAIN sockList' = DOMAIN sockList
      BY <1>2, <3>1 DEF TableInv, TypeOK, Forget, ClosingOwns, InTable
    <3>3. UNCHANGED <<conn, held>>
      BY DEF Forget
    <3> QED
      BY <1>1, <2>3, <3>1, <3>2, <3>3, KeepClosing DEF ClosingOwns
  <2>4. ASSUME u # t, pc[u] = "delete" PROVE DeletingOwns(u)'
    <3>1. DeletingOwns(u) /\ obj[u][1] \in Objs
      BY <2>4 DEF TableInv, TypeOK, Owns, DeletingOwns
    <3>2. \A f \in DOMAIN sockList' : f \in DOMAIN sockList /\ sockList'[f] \in {sockList[f], NoObj}
      BY DEF TableInv, TypeOK, Forget
    <3> QED
      BY <1>1, <2>4, <3>1, <3>2, ObjFields DEF DeletingOwns, Forget
  <2> QED
    BY <1>1, <2>1, <2>2, <2>3, <2>4
<1>6. ObjsApart'
  <2>1. ObjsOf(t)' \subseteq ObjsOf(t)
    BY DEF ObjsOf, Opening, TableInv, TypeOK, ThreadTypeOK, Forget, Goto
  <2> QED
    BY <1>1, <2>1, KeepApart, Zenon DEF TableInv
<1>7. EntryInUse'
  <2> SUFFICES ASSUME NEW f \in DOMAIN sockList', sockList'[f] # NoObj
               PROVE  \/ f \in held'
                      \/ \E u \in Threads : pc'[u] \in {"check1", "add1"} /\ des'[u][1] = f
                      \/ \E u \in Threads : Closing(u)' /\ des'[u][1] = f
    BY Zenon DEF EntryInUse
  <2>1. \/ f \in held'
        \/ \E u \in Threads : u # t /\ pc[u] \in {"check1", "add1"} /\ des[u][1] = f
        \/ \E u \in Threads : u # t /\ Closing(u) /\ des[u][1] = f
    <3>1. f # des[t][1] /\ f \in DOMAIN sockList /\ sockList[f] # NoObj
      BY <1>2 DEF TableInv, TypeOK, Forget
    <3> QED
      BY <3>1 DEF TableInv, EntryInUse, Forget, Closing
  <2>2. ASSUME NEW u \in Threads, u # t, pc[u] \in {"check1", "add1"}, des[u][1] = f
        PROVE  pc'[u] \in {"check1", "add1"} /\ des'[u][1] = f
    BY <1>1, <2>2
  <2>3. ASSUME NEW u \in Threads, u # t, Closing(u), des[u][1] = f
        PROVE  Closing(u)' /\ des'[u][1] = f
    BY <1>1, <2>3
  <2> QED
    BY <2>1, <2>2, <2>3 DEF TableInv, EntryInUse
<1>8. HeldHasEntry'
  <2>1. \A f \in DOMAIN sockList : f # des[t][1] => sockList'[f] = sockList[f]
    BY <1>2 DEF TableInv, TypeOK, Forget
  <2>2. DOMAIN sockList' = DOMAIN sockList /\ UNCHANGED <<conn, objFd, live, held>>
    BY DEF TableInv, TypeOK, Forget
  <2>3. des[t][1] \notin held /\ HeldHasEntry
    BY <1>2 DEF ClosingOwns, TableInv
  <2> QED
    BY <2>1, <2>2, <2>3 DEF HeldHasEntry, InTable
<1> QED
  BY <1>3, <1>4, <1>5, <1>6, <1>7, <1>8 DEF TableInv

(* The object is deleted: no entry and no other thread has it.              *)
LEMMA DeleteStep ==
    ASSUME TableInv, NEW t \in Threads, Delete(t)
    PROVE  TableInv'
<1>1. \A u \in Threads : u # t =>
          /\ pc'[u] = pc[u] /\ obj'[u] = obj[u] /\ des'[u] = des[u]
          /\ Opening(u)' = Opening(u) /\ Closing(u)' = Closing(u)
          /\ ObjsOf(u)' = ObjsOf(u)
  BY OthersStay DEF TableInv
<1>2. pc[t] = "delete" /\ DeletingOwns(t)
  BY DEF TableInv, Owns, Delete
<1>3. TypeOK'
  <2>1. ThreadTypeOK'
    BY ReturnType DEF TableInv, TypeOK, Delete
  <2> QED
    BY <1>2, <2>1 DEF TableInv, TypeOK, Delete, DeletingOwns
<1>4. LiveMade' /\ EntryOwn'
  BY DEF TableInv, LiveMade, EntryOwn, Delete
<1>5. \A u \in Threads : Owns(u)'
  <2> SUFFICES ASSUME NEW u \in Threads
               PROVE  /\ Opening(u)' => OpeningOwns(u)'
                      /\ Closing(u)' => ClosingOwns(u)'
                      /\ pc'[u] = "delete" => DeletingOwns(u)'
    BY Zenon DEF Owns
  <2>1. CASE u = t
    BY <2>1 DEF Opening, Closing, TableInv, TypeOK, ThreadTypeOK, Delete, Return, Goto
  <2>2. ASSUME u # t, Opening(u) PROVE OpeningOwns(u)'
    <3>1. OpeningOwns(u) /\ obj[t][1] # obj[u][1] /\ obj[t][1] # obj[u][2]
      BY <1>2, <2>2, OpeningFacts
    <3>2. live' = live \ {obj[t][1]} /\ UNCHANGED <<conn, sockList, objFd, held>>
      BY DEF Delete
    <3> QED
      BY <1>1, <2>2, <3>1, <3>2, KeepOpening DEF OpeningOwns
  <2>3. ASSUME u # t, Closing(u) PROVE ClosingOwns(u)'
    BY <1>1, <2>3, ClosingFacts, KeepClosing DEF ClosingOwns, Delete
  <2>4. ASSUME u # t, pc[u] = "delete" PROVE DeletingOwns(u)'
    <3>1. DeletingOwns(u)
      BY <2>4 DEF TableInv, Owns
    <3>2. {obj[t][1]} \cap {obj[u][1]} = {}
      BY <1>2, <2>4 DEF TableInv, ObjsApart, ObjsOf, Opening
    <3> QED
      BY <1>1, <2>4, <3>1, <3>2 DEF DeletingOwns, Delete
  <2> QED
    BY <1>1, <2>1, <2>2, <2>3, <2>4
<1>6. ObjsApart'
  <2>1. ObjsOf(t)' \subseteq ObjsOf(t)
    <3>1. pc'[t] = "idle"
      BY DEF TableInv, TypeOK, ThreadTypeOK, Delete, Return, Goto
    <3> QED
      BY <3>1 DEF ObjsOf, Opening
  <2> QED
    BY <1>1, <2>1, KeepApart, Zenon DEF TableInv
<1>7. EntryInUse'
  <2> SUFFICES ASSUME NEW f \in DOMAIN sockList', sockList'[f] # NoObj
               PROVE  \/ f \in held'
                      \/ \E u \in Threads : pc'[u] \in {"check1", "add1"} /\ des'[u][1] = f
                      \/ \E u \in Threads : Closing(u)' /\ des'[u][1] = f
    BY Zenon DEF EntryInUse
  <2>0. f \in DOMAIN sockList /\ sockList[f] = sockList'[f]
    BY DEF TableInv, TypeOK, Delete
  <2>1. \/ f \in held'
        \/ \E u \in Threads : u # t /\ pc[u] \in {"check1", "add1"} /\ des[u][1] = f
        \/ \E u \in Threads : u # t /\ Closing(u) /\ des[u][1] = f
    BY <2>0 DEF TableInv, EntryInUse, Delete, Closing
  <2>2. ASSUME NEW u \in Threads, u # t, pc[u] \in {"check1", "add1"}, des[u][1] = f
        PROVE  pc'[u] \in {"check1", "add1"} /\ des'[u][1] = f
    BY <1>1, <2>2
  <2>3. ASSUME NEW u \in Threads, u # t, Closing(u), des[u][1] = f
        PROVE  Closing(u)' /\ des'[u][1] = f
    BY <1>1, <2>3
  <2> QED
    BY <2>1, <2>2, <2>3 DEF TableInv, EntryInUse
<1>8. HeldHasEntry'
  BY <1>2 DEF HeldHasEntry, TableInv, Delete, DeletingOwns, InTable
<1> QED
  BY <1>3, <1>4, <1>5, <1>6, <1>7, <1>8 DEF TableInv

(* The object of a held descriptor is nobody's.                             *)
LEMMA HeldApart ==
    ASSUME TableInv, NEW f \in held, NEW u \in Threads
    PROVE  sockList[f] \notin ObjsOf(u)
<1>1. /\ f \in DOMAIN sockList /\ sockList[f] \in live /\ sockList[f] # NoObj
      /\ objFd[sockList[f]] = f
  <2>1. InTable(f) /\ sockList[f] \in live /\ objFd[sockList[f]] = f
    BY DEF TableInv, HeldHasEntry
  <2> QED
    BY <2>1, ObjFields DEF InTable, TableInv, TypeOK
<1>2. CASE Opening(u)
  BY <1>1, <1>2, OpeningFacts DEF OpeningOwns, ObjsOf
<1>3. CASE Closing(u)
  BY <1>1, <1>3, ClosingFacts DEF ClosingOwns, ObjsOf, Opening, Closing
<1>4. CASE pc[u] = "delete"
  BY <1>1, <1>4 DEF TableInv, Owns, DeletingOwns, ObjsOf, Opening
<1>5. CASE pc[u] = "idle"
  BY <1>5 DEF ObjsOf, Opening
<1> QED
  BY <1>2, <1>3, <1>4, <1>5 DEF TableInv, TypeOK, ThreadTypeOK, Statements, Opening, Closing

(* The client hands a descriptor to myClose.                                *)
LEMMA MyCloseStep ==
    ASSUME TableInv, NEW t \in Threads, NEW f \in Fds, MyClose(t, f)
    PROVE  TableInv'
<1>1. \A u \in Threads : u # t =>
          /\ pc'[u] = pc[u] /\ obj'[u] = obj[u] /\ des'[u] = des[u]
          /\ Opening(u)' = Opening(u) /\ Closing(u)' = Closing(u)
          /\ ObjsOf(u)' = ObjsOf(u)
  BY OthersStay DEF TableInv
<1>2. /\ f \in held /\ f \in DOMAIN sockList /\ sockList[f] \in live
      /\ sockList[f] \in Objs /\ sockList[f] # NoObj
      /\ objFd[sockList[f]] = f /\ conn[f] = sockList[f][1]
  <2>1. f \in held
    BY DEF MyClose
  <2>2. InTable(f) /\ sockList[f] \in live /\ objFd[sockList[f]] = f /\ conn[f] = sockList[f][1]
    BY <2>1 DEF TableInv, HeldHasEntry
  <2> QED
    BY <2>1, <2>2, ObjFields DEF InTable, TableInv, TypeOK
<1>3. /\ pc[t] = "idle" /\ pc'[t] = "close"
      /\ des'[t] = <<f, f>> /\ obj'[t] = <<sockList[f], sockList[f]>>
  BY DEF MyClose, Goto, TableInv, TypeOK, ThreadTypeOK
<1>4. held' = held \ {f} /\ UNCHANGED <<conn, pairs, sockList, objFd, pairedFd, live>>
  BY DEF MyClose
<1>5. TypeOK'
  <2>1. pc' \in [Threads -> Statements]
    BY DEF MyClose, Goto, TableInv, TypeOK, ThreadTypeOK, Statements
  <2>2. des' \in [Threads -> (Fds \cup {-1}) \X (Fds \cup {-1})]
    BY DEF MyClose, TableInv, TypeOK, ThreadTypeOK
  <2>3. obj' \in [Threads -> (Objs \cup {NoObj}) \X (Objs \cup {NoObj})]
    BY <1>2 DEF MyClose, TableInv, TypeOK, ThreadTypeOK
  <2> QED
    BY <1>4, <2>1, <2>2, <2>3 DEF TableInv, TypeOK, ThreadTypeOK
<1>6. LiveMade' /\ EntryOwn'
  BY <1>4 DEF TableInv, LiveMade, EntryOwn
<1>7. \A u \in Threads : Owns(u)'
  <2> SUFFICES ASSUME NEW u \in Threads
               PROVE  /\ Opening(u)' => OpeningOwns(u)'
                      /\ Closing(u)' => ClosingOwns(u)'
                      /\ pc'[u] = "delete" => DeletingOwns(u)'
    BY Zenon DEF Owns
  <2>1. CASE u = t
    BY <1>2, <1>3, <1>4, <2>1 DEF ClosingOwns, Opening, InTable
  <2>2. ASSUME u # t, Opening(u) PROVE OpeningOwns(u)'
    BY <1>1, <1>4, <2>2, OpeningFacts, KeepOpening DEF OpeningOwns
  <2>3. ASSUME u # t, Closing(u) PROVE ClosingOwns(u)'
    BY <1>1, <1>4, <2>3, ClosingFacts, KeepClosing DEF ClosingOwns
  <2>4. ASSUME u # t, pc[u] = "delete" PROVE DeletingOwns(u)'
    BY <1>1, <1>4, <2>4 DEF TableInv, Owns, DeletingOwns
  <2> QED
    BY <1>1, <2>1, <2>2, <2>3, <2>4
<1>8. ObjsApart'
  <2>1. ObjsOf(t)' = {sockList[f]}
    BY <1>3 DEF ObjsOf, Opening
  <2> SUFFICES ASSUME NEW u \in Threads, NEW v \in Threads, u # v
               PROVE  ObjsOf(u)' \cap ObjsOf(v)' = {}
    BY Zenon DEF ObjsApart
  <2>2. CASE u = t
    BY <1>1, <1>2, <2>1, <2>2, HeldApart
  <2>3. CASE v = t
    BY <1>1, <1>2, <2>1, <2>3, HeldApart
  <2>4. CASE u # t /\ v # t
    BY <1>1, <2>4, Zenon DEF TableInv, ObjsApart
  <2> QED
    BY <2>2, <2>3, <2>4
<1>9. EntryInUse'
  <2> SUFFICES ASSUME NEW g \in DOMAIN sockList', sockList'[g] # NoObj
               PROVE  \/ g \in held'
                      \/ \E u \in Threads : pc'[u] \in {"check1", "add1"} /\ des'[u][1] = g
                      \/ \E u \in Threads : Closing(u)' /\ des'[u][1] = g
    BY Zenon DEF EntryInUse
  <2>1. \/ g \in held'
        \/ g = f /\ Closing(t)' /\ des'[t][1] = f
        \/ \E u \in Threads : u # t /\ pc[u] \in {"check1", "add1"} /\ des[u][1] = g
        \/ \E u \in Threads : u # t /\ Closing(u) /\ des[u][1] = g
    BY <1>3, <1>4 DEF TableInv, EntryInUse, Closing
  <2>2. ASSUME NEW u \in Threads, u # t, pc[u] \in {"check1", "add1"}, des[u][1] = g
        PROVE  pc'[u] \in {"check1", "add1"} /\ des'[u][1] = g
    BY <1>1, <2>2
  <2>3. ASSUME NEW u \in Threads, u # t, Closing(u), des[u][1] = g
        PROVE  Closing(u)' /\ des'[u][1] = g
    BY <1>1, <2>3
  <2> QED
    BY <2>1, <2>2, <2>3
<1>10. HeldHasEntry'
  BY <1>4 DEF TableInv, HeldHasEntry, InTable
<1> QED
  BY <1>5, <1>6, <1>7, <1>8, <1>9, <1>10 DEF TableInv

-----------------------------------------------------------------------------
(* The kernel's choice is one of the free descriptors.                      *)
LEMMA LowestIn ==
    ASSUME NEW S \in SUBSET Nat, S # {}
    PROVE  Lowest(S) \in S
<1>1. PICK x \in S : \A y \in S : <<y, x>> \notin OpToRel(<, Nat)
  BY NatLessThanWellFounded, WFMin
<1>2. ASSUME NEW y \in S, ~(x <= y)
      PROVE  FALSE
  <2>1. y < x /\ x \in Nat /\ y \in Nat
    BY <1>2
  <2>2. <<y, x>> \in Nat \X Nat /\ <<y, x>>[1] < <<y, x>>[2]
    BY <2>1
  <2>3. <<y, x>> \in OpToRel(<, Nat)
    BY <2>2, Zenon DEF OpToRel
  <2> QED
    BY <1>1, <2>3
<1> QED
  BY <1>2, Zenon DEF Lowest

LEMMA TwoFree ==
    ASSUME NEW S \in SUBSET Fds, Cardinality(S) >= 2
    PROVE  S # {} /\ S \ {Lowest(S)} # {}
<1>1. IsFiniteSet(Fds)
  BY FS_Interval, TableAssumption DEF Fds
<1>2. IsFiniteSet(S)
  BY <1>1, FS_Subset
<1>3. S # {}
  BY FS_EmptySet
<1>4. ASSUME S \ {Lowest(S)} = {}
      PROVE  FALSE
  <2>1. S = {Lowest(S)}
    BY <1>3, <1>4
  <2>2. Cardinality(S) = 1
    BY <2>1, FS_Singleton, Zenon
  <2> QED
    BY <2>2
<1> QED
  BY <1>3, <1>4

(* socketpair() and the two new objects.                                    *)
LEMMA SocketpairStep ==
    ASSUME TableInv, NEW t \in Threads, Socketpair(t)
    PROVE  TableInv'
<1> DEFINE k  == pairs + 1
           f0 == Lowest({f \in Fds : Free(f)})
           f1 == Lowest({f \in Fds : Free(f)} \ {f0})
           o0 == <<k, 0>>
           o1 == <<k, 1>>
<1>1. \A u \in Threads : u # t =>
          /\ pc'[u] = pc[u] /\ obj'[u] = obj[u] /\ des'[u] = des[u]
          /\ Opening(u)' = Opening(u) /\ Closing(u)' = Closing(u)
          /\ ObjsOf(u)' = ObjsOf(u)
  BY OthersStay DEF TableInv
<1>2. f0 \in Fds /\ f1 \in Fds /\ f0 # f1 /\ conn[f0] = Closed /\ conn[f1] = Closed
  <2> DEFINE free == {f \in Fds : Free(f)}
  <2>1. free \in SUBSET Fds /\ free \in SUBSET Nat
    BY TableAssumption DEF Fds
  <2>2. Cardinality(free) >= 2
    BY DEF Socketpair
  <2>3. f0 \in free
    BY <2>1, <2>2, TwoFree, LowestIn
  <2>4. f1 \in free \ {f0}
    <3>1. free \ {f0} # {}
      BY <2>1, <2>2, TwoFree
    <3>2. free \ {f0} \in SUBSET Nat
      BY <2>1
    <3> QED
      BY <3>1, <3>2, LowestIn
  <2> QED
    BY <2>3, <2>4 DEF Free
<1>3. /\ k \in 1 .. MaxPairs /\ k # Closed /\ o0 \in Objs /\ o1 \in Objs /\ o0 # o1
      /\ o0[1] = k /\ o1[1] = k
      /\ \A o \in live : o \in Objs /\ o # o0 /\ o # o1 /\ o[1] # k /\ o[1] # Closed
  <2>1. k \in 1 .. MaxPairs
    BY TableAssumption DEF Socketpair, TableInv, TypeOK
  <2>2. o0[1] = k /\ o1[1] = k /\ o0 # o1
    OBVIOUS
  <2>3. o0 \in Objs /\ o1 \in Objs
    BY <2>1, ObjFields
  <2>4. \A o \in live : o \in Objs /\ o[1] # k /\ o[1] # Closed
    <3>1. TAKE o \in live
    <3>2. o \in Objs /\ o[1] <= pairs
      BY DEF TableInv, TypeOK, LiveMade
    <3>3. o[1] \in Nat /\ o[1] # Closed
      BY <3>2, ObjFields
    <3> QED
      BY <3>2, <3>3 DEF TableInv, TypeOK
  <2> HIDE DEF k
  <2>5. k # Closed
    BY <2>1 DEF Closed
  <2> HIDE DEF o0, o1
  <2> QED
    BY <2>1, <2>2, <2>3, <2>4, <2>5
<1>4. /\ pc[t] = "idle" /\ pairs' = k
      /\ conn' = [conn EXCEPT ![f0] = k, ![f1] = k]
      /\ objFd' = [objFd EXCEPT ![o0] = f0, ![o1] = f1]
      /\ pairedFd' = [pairedFd EXCEPT ![o0] = f1, ![o1] = f0]
      /\ live' = live \cup {o0, o1}
      /\ des' = [des EXCEPT ![t] = <<f0, f1>>]
      /\ obj' = [obj EXCEPT ![t] = <<o0, o1>>]
      /\ pc' = [pc EXCEPT ![t] = "check0"]
      /\ UNCHANGED <<sockList, held>>
  BY DEF Socketpair, Goto
<1> HIDE DEF k, f0, f1, o0, o1
<1>5. TypeOK'
  <2>1. pc' \in [Threads -> Statements]
    BY <1>4 DEF TableInv, TypeOK, ThreadTypeOK, Statements
  <2>2. des' \in [Threads -> (Fds \cup {-1}) \X (Fds \cup {-1})]
    BY <1>2, <1>4 DEF TableInv, TypeOK, ThreadTypeOK
  <2>3. obj' \in [Threads -> (Objs \cup {NoObj}) \X (Objs \cup {NoObj})]
    BY <1>3, <1>4 DEF TableInv, TypeOK, ThreadTypeOK
  <2>4. k \in 0 .. MaxPairs
    BY <1>3
  <2>5. conn' \in [Fds -> 0 .. MaxPairs] /\ pairs' \in 0 .. MaxPairs
    BY <1>4, <2>4 DEF TableInv, TypeOK
  <2>6. objFd' \in [Objs -> Fds \cup {-1}] /\ pairedFd' \in [Objs -> Fds \cup {-1}]
    BY <1>2, <1>4 DEF TableInv, TypeOK
  <2> QED
    BY <1>3, <1>4, <2>1, <2>2, <2>3, <2>5, <2>6 DEF TableInv, TypeOK, ThreadTypeOK
<1>6. LiveMade' /\ EntryOwn'
  <2>1. LiveMade'
    <3> SUFFICES ASSUME NEW o \in live'
                 PROVE  o[1] <= pairs'
      BY Zenon DEF LiveMade
    <3>1. CASE o \in live
      <4>1. o[1] <= pairs /\ o[1] \in Nat
        BY <1>3, <3>1, ObjFields DEF TableInv, LiveMade
      <4> QED
        BY <1>4, <4>1 DEF TableInv, TypeOK, k
    <3>2. CASE o \in {o0, o1}
      BY <1>3, <1>4, <3>2
    <3> QED
      BY <1>4, <3>1, <3>2
  <2>2. \A o \in live : objFd'[o] = objFd[o]
    BY <1>3, <1>4 DEF TableInv, TypeOK
  <2>3. EntryOwn'
    BY <1>4, <2>2 DEF TableInv, TypeOK, EntryOwn
  <2> QED
    BY <2>1, <2>3
<1>7. \A o \in live : objFd'[o] = objFd[o]
  BY <1>3, <1>4 DEF TableInv, TypeOK
<1>8. \A f \in Fds : conn[f] # Closed => conn'[f] = conn[f] /\ f # f0 /\ f # f1
  BY <1>2, <1>4 DEF TableInv, TypeOK
<1>9. \A f \in held : f \in Fds /\ conn[f] # Closed /\ conn'[f] = conn[f]
  <2> SUFFICES ASSUME NEW f \in held
               PROVE  f \in Fds /\ conn[f] # Closed
    BY <1>8
  <2>1. f \in Fds /\ sockList[f] \in live /\ sockList[f][1] = conn[f]
    BY DEF TableInv, TypeOK, HeldHasEntry
  <2> QED
    BY <1>3, <2>1
<1>10. \A u \in Threads : Owns(u)'
  <2> SUFFICES ASSUME NEW u \in Threads
               PROVE  /\ Opening(u)' => OpeningOwns(u)'
                      /\ Closing(u)' => ClosingOwns(u)'
                      /\ pc'[u] = "delete" => DeletingOwns(u)'
    BY Zenon DEF Owns
  <2>1. CASE u = t
    <3>1. /\ pc'[t] = "check0"
          /\ obj'[t][1] = o0 /\ obj'[t][2] = o1 /\ des'[t][1] = f0 /\ des'[t][2] = f1
      BY <1>4 DEF TableInv, TypeOK, ThreadTypeOK
    <3>2. conn'[f0] = k /\ conn'[f1] = k /\ objFd'[o0] = f0 /\ objFd'[o1] = f1
      BY <1>2, <1>3, <1>4 DEF TableInv, TypeOK
    <3>3. f0 \notin held' /\ f1 \notin held'
      BY <1>2, <1>4, <1>9
    <3> QED
      BY <1>2, <1>3, <1>4, <2>1, <3>1, <3>2, <3>3 DEF OpeningOwns, Closing
  <2>2. ASSUME u # t, Opening(u) PROVE OpeningOwns(u)'
    <3>1. OpeningOwns(u) /\ obj[u][1] \in live /\ obj[u][2] \in live
      BY <2>2, OpeningFacts DEF OpeningOwns
    <3>2. conn'[des[u][1]] = conn[des[u][1]] /\ conn'[des[u][2]] = conn[des[u][2]]
      BY <1>3, <1>8, <3>1 DEF OpeningOwns
    <3> QED
      BY <1>1, <1>4, <1>7, <2>2, <3>1, <3>2, KeepOpening DEF OpeningOwns
  <2>3. ASSUME u # t, Closing(u) PROVE ClosingOwns(u)'
    <3>1. ClosingOwns(u) /\ obj[u][1] \in live /\ des[u][1] \in Fds
      <4>1. ClosingOwns(u) /\ obj[u][1] \in live /\ des[u][1] \in Fds \cup {-1}
        BY <2>3, ClosingFacts DEF TableInv, TypeOK, ThreadTypeOK
      <4>2. des[u][1] \in 0 .. Capacity - 1
        BY <4>1 DEF ClosingOwns, InTable, TableInv, TypeOK
      <4> QED
        BY <4>1, <4>2, TableAssumption
    <3>2. obj[u][1][1] # k /\ obj[u][1][1] # Closed
      BY <1>3, <3>1
    <3>3. \/ conn'[des[u][1]] = conn[des[u][1]]
          \/ conn'[des[u][1]] = k /\ conn[des[u][1]] = Closed
      <4>1. \A f \in Fds : conn'[f] = conn[f] \/ (conn'[f] = k /\ conn[f] = Closed)
        BY <1>2, <1>4 DEF TableInv, TypeOK
      <4> QED
        BY <3>1, <4>1
    <3> QED
      BY <1>1, <1>4, <2>3, <3>1, <3>2, <3>3, KeepClosing DEF ClosingOwns
  <2>4. ASSUME u # t, pc[u] = "delete" PROVE DeletingOwns(u)'
    BY <1>1, <1>4, <2>4 DEF TableInv, Owns, DeletingOwns
  <2> QED
    BY <1>1, <2>1, <2>2, <2>3, <2>4, <1>4 DEF Opening, Closing
<1>11. ObjsApart'
  <2>1. ObjsOf(t)' = {o0, o1}
    BY <1>4 DEF ObjsOf, Opening, TableInv, TypeOK, ThreadTypeOK
  <2>2. \A u \in Threads : o0 \notin ObjsOf(u) /\ o1 \notin ObjsOf(u)
    <3>1. TAKE u \in Threads
    <3>2. ObjsOf(u) \subseteq live
      <4>1. CASE Opening(u)
        BY <4>1, OpeningFacts DEF OpeningOwns, ObjsOf
      <4>2. CASE Closing(u)
        BY <4>2, ClosingFacts DEF ObjsOf, Opening, Closing
      <4>3. CASE pc[u] = "delete"
        BY <4>3 DEF TableInv, Owns, DeletingOwns, ObjsOf, Opening
      <4>4. CASE pc[u] = "idle"
        BY <4>4 DEF ObjsOf, Opening
      <4> QED
        BY <4>1, <4>2, <4>3, <4>4
           DEF TableInv, TypeOK, ThreadTypeOK, Statements, Opening, Closing
    <3> QED
      BY <1>3, <3>2
  <2> SUFFICES ASSUME NEW u \in Threads, NEW v \in Threads, u # v
               PROVE  ObjsOf(u)' \cap ObjsOf(v)' = {}
    BY Zenon DEF ObjsApart
  <2>3. CASE u = t
    BY <1>1, <2>1, <2>2, <2>3
  <2>4. CASE v = t
    BY <1>1, <2>1, <2>2, <2>4
  <2>5. CASE u # t /\ v # t
    BY <1>1, <2>5, Zenon DEF TableInv, ObjsApart
  <2> QED
    BY <2>3, <2>4, <2>5
<1>12. EntryInUse'
  <2> SUFFICES ASSUME NEW f \in DOMAIN sockList', sockList'[f] # NoObj
               PROVE  \/ f \in held'
                      \/ \E u \in Threads : pc'[u] \in {"check1", "add1"} /\ des'[u][1] = f
                      \/ \E u \in Threads : Closing(u)' /\ des'[u][1] = f
    BY Zenon DEF EntryInUse
  <2>1. \/ f \in held'
        \/ \E u \in Threads : u # t /\ pc[u] \in {"check1", "add1"} /\ des[u][1] = f
        \/ \E u \in Threads : u # t /\ Closing(u) /\ des[u][1] = f
    BY <1>4 DEF TableInv, EntryInUse, Closing
  <2>2. ASSUME NEW u \in Threads, u # t, pc[u] \in {"check1", "add1"}, des[u][1] = f
        PROVE  pc'[u] \in {"check1", "add1"} /\ des'[u][1] = f
    BY <1>1, <2>2
  <2>3. ASSUME NEW u \in Threads, u # t, Closing(u), des[u][1] = f
        PROVE  Closing(u)' /\ des'[u][1] = f
    BY <1>1, <2>3
  <2> QED
    BY <2>1, <2>2, <2>3
<1>13. HeldHasEntry'
  BY <1>4, <1>7, <1>9 DEF TableInv, HeldHasEntry, InTable
<1> QED
  BY <1>5, <1>6, <1>10, <1>11, <1>12, <1>13 DEF TableInv

-----------------------------------------------------------------------------
(* The invariant holds at the start, ...                                    *)
LEMMA InitTable == Init => TableInv
<1> SUFFICES ASSUME Init
             PROVE  TableInv
  OBVIOUS
<1>1. Closed \in 0 .. MaxPairs
  BY TableAssumption DEF Closed
<1>2. ThreadTypeOK
  BY DEF Init, ThreadTypeOK, Statements
<1>3. TypeOK
  BY <1>1, <1>2, TableAssumption DEF Init, TypeOK
<1>4. LiveMade /\ EntryOwn /\ EntryInUse /\ HeldHasEntry
  BY DEF Init, LiveMade, EntryOwn, EntryInUse, HeldHasEntry
<1>5. (\A t \in Threads : Owns(t)) /\ ObjsApart
  BY DEF Init, Owns, Opening, Closing, ObjsApart, ObjsOf
<1> QED
  BY <1>3, <1>4, <1>5 DEF TableInv

LEMMA StutterTable == TableInv /\ UNCHANGED vars => TableInv'
<1> SUFFICES ASSUME TableInv, UNCHANGED vars
             PROVE  TableInv'
  OBVIOUS
<1>1. UNCHANGED <<conn, pairs, sockList, objFd, pairedFd, live, held, pc, des, obj>>
  BY DEF vars
<1>2. TypeOK' /\ LiveMade' /\ EntryOwn' /\ HeldHasEntry'
  BY <1>1 DEF TableInv, TypeOK, ThreadTypeOK, LiveMade, EntryOwn, HeldHasEntry, InTable
<1>3. \A t \in Threads : Owns(t)' = Owns(t)
  BY <1>1 DEF Owns, OpeningOwns, ClosingOwns, DeletingOwns, Opening, Closing, InTable
<1>4. \A t \in Threads : ObjsOf(t)' = ObjsOf(t)
  BY <1>1 DEF ObjsOf, Opening
<1>5. ObjsApart'
  BY <1>4, Zenon DEF TableInv, ObjsApart
<1>6. EntryInUse'
  BY <1>1 DEF TableInv, EntryInUse, Closing
<1> QED
  BY <1>2, <1>3, <1>5, <1>6 DEF TableInv

(* ... and every step keeps it.                                             *)
LEMMA TableStep == TableInv /\ [Next]_vars => TableInv'
BY StutterTable, SocketpairStep, Check0Step, Add0Step, Check1Step, Add1Step, MyCloseStep,
   CloseStep, ReadPairedStep, UnpairStep, ForgetStep, DeleteStep DEF Next

(* The table's invariant holds for every number of threads, entries,        *)
(* descriptors and pairs.                                                   *)
THEOREM TableCorrect == Spec => []TableInv
<1>1. Init => TableInv
  BY InitTable
<1>2. TableInv /\ [Next]_vars => TableInv'
  BY TableStep
<1> QED
  BY <1>1, <1>2, PTL DEF Spec

(* A descriptor in the client's hands has its own object in the table       *)
(* (myIO.cpp:120-135, 252-280), however descriptors are reused.             *)
THEOREM HeldSafe == Spec => []HeldHasEntry
<1>1. TableInv => HeldHasEntry
  BY DEF TableInv
<1> QED
  BY <1>1, TableCorrect, PTL

(* A pair that does not fit the table is refused, and no other is, but for  *)
(* one whose former entry a myClose is about to empty (myIO.cpp:124, 197).  *)
THEOREM FailureSafe == Spec => FailsForAReason
<1> DEFINE Reason ==
      \A t \in Threads :
          pc[t] \in {"check0", "check1"} /\ pc'[t] = "idle" =>
              LET f == IF pc[t] = "check0" THEN des[t][1] ELSE des[t][2]
              IN  \/ ~InTable(f)
                  \/ \E u \in Threads : pc[u] \in {"paired", "unpair", "forget"} /\ des[u][1] = f
<1>1. TableInv /\ [Next]_vars => [Reason]_vars
  <2> SUFFICES ASSUME TableInv, Next
               PROVE  Reason
    OBVIOUS
  <2> SUFFICES ASSUME NEW t \in Threads, pc[t] \in {"check0", "check1"}, pc'[t] = "idle",
                      NEW f, f = IF pc[t] = "check0" THEN des[t][1] ELSE des[t][2],
                      InTable(f)
               PROVE  \E u \in Threads : pc[u] \in {"paired", "unpair", "forget"} /\ des[u][1] = f
    OBVIOUS
  <2>1. OpeningOwns(t) /\ Opening(t) /\ f \notin held
    BY OpeningFacts DEF Opening, OpeningOwns
  <2>2. sockList[f] # NoObj
    <3>1. PICK u \in Threads :
              \/ Socketpair(u) \/ Check0(u) \/ Add0(u) \/ Check1(u) \/ Add1(u)
              \/ \E g \in Fds : MyClose(u, g)
              \/ Close(u) \/ ReadPaired(u) \/ Unpair(u) \/ Forget(u) \/ Delete(u)
      BY DEF Next
    <3>2. u = t
      BY <3>1, OthersStay DEF TableInv
    <3>3. Check0(t) \/ Check1(t)
      BY <3>1, <3>2 DEF Socketpair, Add0, Add1, MyClose, Close, ReadPaired, Unpair,
                        Forget, Delete
    <3>4. ~CanAdd(f)
      BY <3>3 DEF Check0, Check1, Goto, TableInv, TypeOK, ThreadTypeOK
    <3> QED
      BY <3>4 DEF CanAdd
  <2>3. ASSUME NEW u \in Threads, pc[u] \in {"check1", "add1"}, des[u][1] = f
        PROVE  FALSE
    <3>1. CASE u = t
      BY <2>1, <2>3, <3>1 DEF OpeningOwns
    <3>2. CASE u # t
      BY <2>1, <2>3, <3>2, OpeningApart DEF Opening
    <3> QED
      BY <3>1, <3>2
  <2>4. PICK u \in Threads : Closing(u) /\ des[u][1] = f
    BY <2>1, <2>2, <2>3 DEF TableInv, EntryInUse, InTable
  <2>5. pc[u] # "close"
    BY <2>1, <2>4, OpeningClosingApart
  <2> QED
    BY <2>4, <2>5 DEF Closing
<1> QED
  BY <1>1, TableCorrect, PTL DEF Spec, FailsForAReason
=============================================================================
