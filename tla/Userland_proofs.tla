-------------------------- MODULE Userland_proofs --------------------------
(***************************************************************************)
(* wait() and exit() share the queue of the parent without any protection. *)
(* As long as every program has one child at a time, this is enough: for   *)
(* any number of processes and any capacity of the queue, a child that is  *)
(* being added finds the queue empty, and a parent that takes from it finds*)
(* nobody adding.                                                          *)
(*                                                                         *)
(* The shell, for any line and any size of its buffer, and memmove(), for  *)
(* any memory and any arguments, do what they promise.  So do the editor,  *)
(* for any lines and any size of its buffer, the content of a file in      *)
(* memory, for any calls that do not change it at the same time, and the   *)
(* mounted directories, for any names, paths and number of processes.      *)
(***************************************************************************)
EXTENDS MCUserland, FiniteSetTheorems, SequenceTheorems, WellFoundedInduction, TLAPS

OneChild == ProcessAssumption /\ MaxLive \in {0, 1} /\ IsFiniteSet(Process)

-----------------------------------------------------------------------------
(* Slots *)

LEMMA Slots ==
    ASSUME ProcessAssumption, NEW slot \in 0 .. Size - 1
    PROVE  /\ Following(slot) \in 0 .. Size - 1
           /\ FrontSlot(slot, 1) \in 0 .. Size - 1
           /\ FrontSlot(Following(slot), 1) = slot
<1>1. /\ Size \in Nat \ {0} /\ slot \in Nat /\ slot < Size
  BY DEF ProcessAssumption
<1>2. CASE slot + 1 < Size
  <2>1. Following(slot) = slot + 1
    BY <1>1, <1>2 DEF Following
  <2>2. (slot + Size) % Size = slot
    BY <1>1, SMT
  <2>3. FrontSlot(slot + 1, 1) = slot
    <3>1. slot + 1 - 1 + Size = slot + Size
      BY <1>1
    <3>. QED  BY <2>2, <3>1 DEF FrontSlot
  <2>. QED  BY <1>1, <1>2, <2>1, <2>3 DEF FrontSlot
<1>3. CASE slot + 1 = Size
  <2>1. Following(slot) = 0
    BY <1>1, <1>3 DEF Following
  <2>2. FrontSlot(0, 1) = slot
    <3>1. 0 - 1 + Size = slot
      BY <1>1, <1>3
    <3>2. slot % Size = slot
      BY <1>1
    <3>. QED  BY <3>1, <3>2 DEF FrontSlot
  <2>. QED  BY <1>1, <1>3, <2>1, <2>2 DEF FrontSlot
<1>. QED  BY <1>1, <1>2, <1>3

-----------------------------------------------------------------------------
(* The initial states *)

LEMMA InitInv == ProcessAssumption /\ Init => Inv
<1>. SUFFICES ASSUME ProcessAssumption, Init PROVE Inv
  OBVIOUS
<1>1. TypeOK
  <2>1. 0 \in 0 .. Size - 1 /\ 0 \in 0 .. Size
    BY DEF ProcessAssumption
  <2>. QED  BY <2>1 DEF Init, TypeOK, Enqueuing, Reporting, Dequeuing
<1>2. \A p \in Process : at[p] \in {"user", "new"} /\ m_parent[p] = NoProcess /\ m_size[p] = 0
  BY DEF Init
<1>3. NoProcess \notin Process /\ reaped = {}
  BY DEF Init, ProcessAssumption
<1>4. LifeInv
  BY <1>2, <1>3 DEF LifeInv, Enqueuing, Reporting
<1>5. SpawnInv /\ AddInv /\ TakeInv
  BY <1>2 DEF SpawnInv, AddInv, TakeInv, Enqueuing, Dequeuing
<1>6. HoldInv
  BY <1>2, <1>3 DEF HoldInv, Reporting
<1>. QED  BY <1>1, <1>4, <1>5, <1>6 DEF Inv

-----------------------------------------------------------------------------
(* What a step leaves alone *)

\* A queue whose elements and zombies stay holds them as before.
LEMMA HoldStep ==
    ASSUME HoldInv,
           m_parent' = m_parent, reaped' = reaped,
           \A c \in Process : /\ (at'[c] \in Enqueuing <=> at[c] \in Enqueuing)
                             /\ (at'[c] \in Reporting <=> at[c] \in Reporting),
           \A p \in Process :
               (\A c \in Process : m_parent[c] = p => at[c] \notin Enqueuing)
                   => m_size'[p] = m_size[p] /\ m_offset'[p] = m_offset[p] /\ m_data'[p] = m_data[p]
    PROVE  HoldInv'
<1>. SUFFICES ASSUME NEW p \in Process, \A c \in Process : m_parent'[c] = p => at'[c] \notin Enqueuing
              PROVE  /\ m_size'[p] \in {0, 1} /\ (m_size'[p] = 1 => Newest(p)' \in Process)
                     /\ \A c \in Process :
                           m_parent'[c] = p /\ at'[c] \in Reporting /\ c \notin reaped'
                               <=> m_size'[p] = 1 /\ c = Newest(p)'
  BY DEF HoldInv
<1>1. \A c \in Process : m_parent[c] = p => at[c] \notin Enqueuing
  OBVIOUS
<1>2. m_size'[p] = m_size[p] /\ m_offset'[p] = m_offset[p] /\ m_data'[p] = m_data[p]
  BY <1>1
<1>3. Newest(p)' = Newest(p)
  BY <1>2 DEF Newest
<1>4. /\ m_size[p] \in {0, 1} /\ (m_size[p] = 1 => Newest(p) \in Process)
      /\ \A c \in Process :
            m_parent[c] = p /\ at[c] \in Reporting /\ c \notin reaped <=> m_size[p] = 1 /\ c = Newest(p)
  BY <1>1 DEF HoldInv
<1>. QED  BY <1>2, <1>3, <1>4

-----------------------------------------------------------------------------
(* posix_spawn *)

\* A program that has no child left to wait for creates one.
LEMMA SpawnStep ==
    ASSUME OneChild, Inv, NEW p \in Process, NEW c \in Process, PosixSpawn(p, c)
    PROVE  Inv'
<1>1. /\ at[p] = "user" /\ at[c] = "new" /\ p # c
      /\ at' = [at EXCEPT ![p] = "set_parent", ![c] = "user"]
      /\ local' = [local EXCEPT ![p] = c]
      /\ UNCHANGED <<m_parent, m_offset, m_size, m_data, register, reaped, crashed>>
  BY DEF PosixSpawn, At, queueVars
<1>2. /\ at'[p] = "set_parent" /\ at'[c] = "user" /\ local'[p] = c
      /\ \A q \in Process \ {p} : local'[q] = local[q]
      /\ \A q \in Process \ {p, c} : at'[q] = at[q]
  BY <1>1 DEF Inv, TypeOK
<1>3. \A d \in Process : m_parent[d] = p => d \in reaped
  <2>1. IsFiniteSet(Live(p))
    BY FS_Subset DEF Live, OneChild
  <2>2. Cardinality(Live(p)) = 0
    <3>1. Cardinality(Live(p)) \in Nat
      BY <2>1, FS_CardinalityType
    <3>2. Cardinality(Live(p)) < MaxLive /\ MaxLive \in {0, 1}
      BY DEF PosixSpawn, OneChild
    <3>. QED  BY <3>1, <3>2
  <2>3. Live(p) = {}
    BY <2>1, <2>2, FS_EmptySet
  <2>. QED  BY <2>3 DEF Live
<1>4. \A q \in Process : at'[q] \in Enqueuing \cup Reporting \cup Dequeuing \/
                         at[q] \in Enqueuing \cup Reporting \cup Dequeuing
                             => at'[q] = at[q] /\ local'[q] = local[q]
  BY <1>1, <1>2 DEF Enqueuing, Reporting, Dequeuing
<1>5. TypeOK'
  BY <1>1 DEF Inv, TypeOK
<1>6. LifeInv'
  BY <1>1, <1>2, <1>4 DEF Inv, LifeInv
<1>7. SpawnInv'
  <2>1. m_parent[c] = NoProcess
    BY <1>1 DEF Inv, LifeInv
  <2>2. \A q \in Process \ {p} : at'[q] = "set_parent" => at[q] = "set_parent" /\ local[q] # c
    BY <1>1, <1>2 DEF Inv, SpawnInv
  <2>3. ASSUME NEW q \in Process \ {p}, at'[q] = "set_parent"
        PROVE  /\ local'[q] \in Process /\ at'[local'[q]] # "new"
               /\ m_parent'[local'[q]] = NoProcess
               /\ \A d \in Process : m_parent'[d] = q => d \in reaped'
               /\ \A o \in Process \ {q} : at'[o] = "set_parent" => local'[o] # local'[q]
    <3>1. /\ at[q] = "set_parent" /\ local[q] # c /\ local'[q] = local[q]
      BY <1>2, <2>2, <2>3
    <3>2. /\ local[q] \in Process /\ at[local[q]] # "new" /\ m_parent[local[q]] = NoProcess
          /\ \A d \in Process : m_parent[d] = q => d \in reaped
          /\ \A o \in Process \ {q} : at[o] = "set_parent" => local[o] # local[q]
      BY <3>1 DEF Inv, SpawnInv
    <3>3. at'[local[q]] # "new"
      BY <1>2, <3>2
    <3>4. \A o \in Process \ {q} : at'[o] = "set_parent" => local'[o] # local'[q]
      BY <1>2, <2>2, <3>1, <3>2
    <3>. QED  BY <1>1, <3>1, <3>2, <3>3, <3>4
  <2>4. \A q \in Process \ {p} : at'[q] = "set_parent" => local'[q] # c
    BY <1>2, <2>2
  <2>5. /\ local'[p] \in Process /\ at'[local'[p]] # "new" /\ m_parent'[local'[p]] = NoProcess
        /\ \A d \in Process : m_parent'[d] = p => d \in reaped'
        /\ \A o \in Process \ {p} : at'[o] = "set_parent" => local'[o] # local'[p]
    BY <1>1, <1>2, <1>3, <2>1, <2>4
  <2>. QED  BY <2>3, <2>5 DEF SpawnInv
<1>8. AddInv'
  BY <1>1, <1>4 DEF Inv, AddInv, Newest
<1>9. HoldInv'
  BY <1>1, <1>4, HoldStep DEF Inv
<1>10. TakeInv'
  BY <1>1, <1>4 DEF Inv, TakeInv, Newest
<1>. QED  BY <1>5, <1>6, <1>7, <1>8, <1>9, <1>10 DEF Inv

\* The child may have called wait() or exit() before it has a parent, and then reports
\* to nobody.
LEMMA AdoptStep ==
    ASSUME ProcessAssumption, Inv, NEW p \in Process, SetParent(p)
    PROVE  Inv'
<1>0. PICK c \in Process : c = local[p]
  BY DEF SetParent, At, Inv, SpawnInv
<1>1. /\ at[p] = "set_parent" /\ at' = [at EXCEPT ![p] = "user"]
      /\ m_parent' = [m_parent EXCEPT ![c] = p]
      /\ m_offset' = m_offset /\ m_size' = m_size /\ m_data' = m_data
      /\ local' = local /\ register' = register /\ reaped' = reaped /\ crashed' = crashed
  BY <1>0 DEF SetParent, At, Go, queueVars
<1>2. /\ at'[p] = "user" /\ \A q \in Process \ {p} : at'[q] = at[q]
      /\ m_parent'[c] = p /\ \A q \in Process \ {c} : m_parent'[q] = m_parent[q]
  BY <1>1 DEF Inv, TypeOK
<1>3. /\ at[c] # "new" /\ m_parent[c] = NoProcess
      /\ \A d \in Process : m_parent[d] = p => d \in reaped
      /\ \A q \in Process \ {p} : at[q] = "set_parent" => local[q] # c
  BY <1>0, <1>1 DEF Inv, SpawnInv
<1>4. at[c] \notin Enqueuing \cup Reporting /\ at'[c] \notin Enqueuing \cup Reporting
  BY <1>2, <1>3 DEF Inv, LifeInv, Enqueuing, Reporting
<1>5. \A q \in Process : /\ (at'[q] \in Enqueuing \/ at[q] \in Enqueuing => at'[q] = at[q])
                         /\ (at'[q] \in Reporting \/ at[q] \in Reporting => at'[q] = at[q])
                         /\ (at'[q] \in Dequeuing => at'[q] = at[q])
  BY <1>1, <1>2 DEF Enqueuing, Reporting, Dequeuing
<1>6. \A q \in Process : at'[q] \in Enqueuing \cup Reporting =>
          q # c /\ m_parent'[q] = m_parent[q] /\ at'[q] = at[q]
  BY <1>2, <1>4, <1>5
<1>7. TypeOK'
  BY <1>1 DEF Inv, TypeOK
<1>8. LifeInv'
  <2>1. \A q \in Process : at'[q] = "new" => m_parent'[q] = NoProcess
    BY <1>2, <1>3 DEF Inv, LifeInv
  <2>2. \A q \in Process : at'[q] \in Enqueuing \cup Reporting => m_parent'[q] # NoProcess
    BY <1>6 DEF Inv, LifeInv
  <2>3. \A q \in reaped' : q \in Process /\ at'[q] \in Reporting
    BY <1>1, <1>2, <1>5 DEF Inv, LifeInv, Reporting
  <2>4. ASSUME NEW d \in Process \ reaped', NEW e \in Process \ reaped', m_parent'[d] = m_parent'[e]
        PROVE  m_parent'[d] = NoProcess \/ d = e
    BY <1>1, <1>2, <1>3, <2>4 DEF Inv, LifeInv
  <2>. QED  BY <2>1, <2>2, <2>3, <2>4 DEF LifeInv
<1>9. SpawnInv'
  <2>1. ASSUME NEW q \in Process, at'[q] = "set_parent"
        PROVE  /\ local'[q] \in Process /\ at'[local'[q]] # "new"
               /\ m_parent'[local'[q]] = NoProcess
               /\ \A d \in Process : m_parent'[d] = q => d \in reaped'
               /\ \A o \in Process \ {q} : at'[o] = "set_parent" => local'[o] # local'[q]
    <3>1. q # p /\ at[q] = "set_parent" /\ local[q] # c /\ local[q] \in Process
      BY <1>2, <1>3, <2>1 DEF Inv, SpawnInv
    <3>. QED  BY <1>1, <1>2, <3>1 DEF Inv, SpawnInv
  <2>. QED  BY <2>1 DEF SpawnInv
<1>10. AddInv'
  BY <1>1, <1>6 DEF Inv, AddInv, Newest
<1>11. HoldInv'
  <2>1. \A q, d \in Process : (m_parent'[d] = q /\ at'[d] \in Enqueuing)
                                 <=> (m_parent[d] = q /\ at[d] \in Enqueuing)
    BY <1>2, <1>4, <1>5
  <2>2. \A q, d \in Process : (m_parent'[d] = q /\ at'[d] \in Reporting)
                                 <=> (m_parent[d] = q /\ at[d] \in Reporting)
    BY <1>2, <1>4, <1>5
  <2>. QED  BY <1>1, <2>1, <2>2 DEF Inv, HoldInv, Newest
<1>12. TakeInv'
  BY <1>1, <1>5 DEF Inv, TakeInv, Newest
<1>. QED  BY <1>7, <1>8, <1>9, <1>10, <1>11, <1>12 DEF Inv

-----------------------------------------------------------------------------
(* exit *)

\* A child that was not reaped is the only one that may be in the queue of its parent.
LEMMA OnlyChild ==
    ASSUME ProcessAssumption, Inv, NEW c \in Process, m_parent[c] # NoProcess, c \notin reaped
    PROVE  /\ m_parent[c] \in Process
           /\ \A d \in Process : m_parent[d] = m_parent[c] /\ at[d] \in Enqueuing => d = c
           /\ \A d \in Process : m_parent[d] = m_parent[c] /\ at[d] \in Reporting /\ d \notin reaped
                                     => d = c
<1>1. \A d \in Process : at[d] \in Enqueuing => d \notin reaped
  BY DEF Inv, LifeInv, Enqueuing, Reporting
<1>. QED  BY <1>1 DEF Inv, TypeOK, LifeInv

LEMMA NotReaped ==
    ASSUME Inv, NEW c \in Process, at[c] \notin Reporting
    PROVE  c \notin reaped
BY DEF Inv, LifeInv

LEMMA ExitStep ==
    ASSUME ProcessAssumption, Inv, NEW c \in Process, Exit(c)
    PROVE  Inv'
<1>1. /\ at[c] = "user"
      /\ at' = [at EXCEPT ![c] = IF m_parent[c] = NoProcess THEN "unreported" ELSE "room"]
      /\ m_parent' = m_parent /\ m_offset' = m_offset /\ m_size' = m_size /\ m_data' = m_data
      /\ local' = local /\ register' = register /\ reaped' = reaped /\ crashed' = crashed
  BY DEF Exit, At, Go, queueVars
<1>2. /\ at'[c] = (IF m_parent[c] = NoProcess THEN "unreported" ELSE "room")
      /\ \A q \in Process \ {c} : at'[q] = at[q]
  BY <1>1 DEF Inv, TypeOK
<1>3. c \notin reaped
  BY <1>1, NotReaped DEF Reporting
<1>4. TypeOK'
  BY <1>1 DEF Inv, TypeOK, Enqueuing
<1>5. LifeInv'
  BY <1>1, <1>2, <1>3 DEF Inv, LifeInv, Enqueuing, Reporting
<1>6. SpawnInv'
  BY <1>1, <1>2 DEF Inv, SpawnInv
<1>7. TakeInv'
  BY <1>1, <1>2 DEF Inv, TakeInv, Newest, Dequeuing
<1>8. CASE m_parent[c] = NoProcess
  <2>1. \A q \in Process : /\ (at'[q] \in Enqueuing <=> at[q] \in Enqueuing)
                           /\ (at'[q] \in Reporting <=> at[q] \in Reporting)
                           /\ (at'[q] \in Enqueuing => at'[q] = at[q])
    BY <1>1, <1>2, <1>8 DEF Enqueuing, Reporting
  <2>2. AddInv'
    BY <1>1, <2>1 DEF Inv, AddInv, Newest
  <2>3. HoldInv'
    BY <1>1, <2>1, HoldStep DEF Inv
  <2>. QED  BY <1>4, <1>5, <1>6, <1>7, <2>2, <2>3 DEF Inv
<1>9. CASE m_parent[c] # NoProcess
  <2>0. PICK p \in Process : p = m_parent[c]
    BY <1>3, <1>9, OnlyChild
  <2>1. /\ \A d \in Process : m_parent[d] = p => at[d] \notin Enqueuing
        /\ \A d \in Process : m_parent[d] = p /\ at[d] \in Reporting => d \in reaped
    BY <1>1, <1>3, <1>9, <2>0, OnlyChild DEF Enqueuing, Reporting
  <2>2. m_size[p] = 0
    BY <2>0, <2>1 DEF Inv, HoldInv
  <2>3. at'[c] = "room"
    BY <1>2, <1>9
  <2>4. \A d \in Process : at'[d] \in Reporting <=> at[d] \in Reporting
    BY <1>1, <1>2, <2>3 DEF Reporting
  <2>5. AddInv'
    BY <1>1, <1>2, <2>0, <2>2, <2>3 DEF Inv, AddInv, Newest
  <2>6. HoldInv'
    <3>1. ASSUME NEW q \in Process, \A d \in Process : m_parent'[d] = q => at'[d] \notin Enqueuing
          PROVE  \A d \in Process : m_parent[d] = q => at[d] \notin Enqueuing
      BY <1>1, <1>2, <3>1, <2>3 DEF Enqueuing
    <3>. QED  BY <1>1, <2>4, <3>1 DEF Inv, HoldInv, Newest
  <2>. QED  BY <1>4, <1>5, <1>6, <1>7, <2>5, <2>6 DEF Inv
<1>. QED  BY <1>8, <1>9

\* A child that is being added has the queue of its parent to itself.
LEMMA Alone ==
    ASSUME ProcessAssumption, Inv, NEW c \in Process, at[c] \in Enqueuing
    PROVE  /\ m_parent[c] \in Process /\ m_size[m_parent[c]] = 0
           /\ \A d \in Process \ {c} : at[d] \in Enqueuing => m_parent[d] # m_parent[c]
           /\ at[m_parent[c]] \notin Dequeuing
           /\ \A d \in Process : m_parent[d] = m_parent[c] /\ at[d] \in Reporting => d \in reaped
           /\ c \notin reaped
<1>1. c \notin reaped /\ m_parent[c] # NoProcess /\ m_size[m_parent[c]] = 0
  BY NotReaped DEF Enqueuing, Reporting, Inv, LifeInv, AddInv
<1>2. /\ m_parent[c] \in Process
      /\ \A d \in Process \ {c} : at[d] \in Enqueuing => m_parent[d] # m_parent[c]
      /\ \A d \in Process : m_parent[d] = m_parent[c] /\ at[d] \in Reporting => d \in reaped
  BY <1>1, OnlyChild DEF Enqueuing, Reporting
<1>3. at[m_parent[c]] \notin Dequeuing
  BY <1>1, <1>2 DEF Inv, TakeInv
<1>. QED  BY <1>1, <1>2, <1>3

\* A step of enqueue() that does not end it.
LEMMA AddStep ==
    ASSUME ProcessAssumption, Inv, NEW c \in Process, NEW p \in Process,
           at[c] \in Enqueuing, p = m_parent[c],
           NEW x \in Enqueuing, at' = [at EXCEPT ![c] = x], TypeOK',
           m_parent' = m_parent, m_size' = m_size, local' = local, reaped' = reaped,
           \A q \in Process \ {c} : register'[q] = register[q],
           \A q \in Process \ {p} : m_offset'[q] = m_offset[q] /\ m_data'[q] = m_data[q],
           x \in {"write", "advance"} => register'[c] = m_offset'[p],
           x \in {"offset", "advance"} => m_data'[p][m_offset'[p]] = c,
           x \in {"size", "count"} => m_data'[p][FrontSlot(m_offset'[p], 1)] = c,
           x = "count" => register'[c] = 0
    PROVE  Inv'
<1>1. at'[c] = x /\ \A q \in Process \ {c} : at'[q] = at[q]
  BY DEF Inv, TypeOK
<1>2. /\ m_size[p] = 0
      /\ \A d \in Process \ {c} : at[d] \in Enqueuing => m_parent[d] # p
      /\ at[p] \notin Dequeuing /\ c \notin reaped
  BY Alone
<1>3. \A q \in Process : /\ (at'[q] \in Enqueuing <=> at[q] \in Enqueuing)
                         /\ (at'[q] \in Reporting <=> at[q] \in Reporting)
                         /\ (at'[q] \in {"new", "set_parent"} \cup Dequeuing
                                <=> at[q] \in {"new", "set_parent"} \cup Dequeuing)
                         /\ (at'[q] \notin Enqueuing => at'[q] = at[q] /\ q # c)
  BY <1>1 DEF Enqueuing, Reporting, Dequeuing
<1>4. LifeInv'
  BY <1>1, <1>3 DEF Inv, LifeInv, Enqueuing
<1>5. SpawnInv'
  BY <1>1, <1>3 DEF Inv, SpawnInv, Enqueuing
<1>6. AddInv'
  <2>1. ASSUME NEW d \in Process \ {c}, at'[d] \in Enqueuing
        PROVE  /\ at'[d] = at[d] /\ at[d] \in Enqueuing /\ m_parent[d] # p
               /\ m_parent[d] \in Process
    BY <1>1, <1>2, <2>1, Alone
  <2>4. ASSUME NEW d \in Process \ {c}, at'[d] \in Enqueuing, NEW q \in Process, q = m_parent[d]
        PROVE  /\ m_size'[q] = 0
               /\ at'[d] \in {"write", "advance"} => register'[d] = m_offset'[q]
               /\ at'[d] \in {"offset", "advance"} => m_data'[q][m_offset'[q]] = d
               /\ at'[d] \in {"size", "count"} => m_data'[q][FrontSlot(m_offset'[q], 1)] = d
               /\ at'[d] = "count" => register'[d] = 0
    <3>1. /\ at'[d] = at[d] /\ at[d] \in Enqueuing /\ q # p
      BY <2>1, <2>4
    <3>2. /\ m_size[q] = 0
          /\ at[d] \in {"write", "advance"} => register[d] = m_offset[q]
          /\ at[d] \in {"offset", "advance"} => m_data[q][m_offset[q]] = d
          /\ at[d] \in {"size", "count"} => m_data[q][FrontSlot(m_offset[q], 1)] = d
          /\ at[d] = "count" => register[d] = 0
      BY <2>4, <3>1 DEF Inv, AddInv, Newest
    <3>. QED  BY <3>1, <3>2
  <2>5. /\ m_parent'[c] = p /\ m_size'[p] = 0
        /\ at'[c] \in {"write", "advance"} => register'[c] = m_offset'[p]
        /\ at'[c] \in {"offset", "advance"} => m_data'[p][m_offset'[p]] = c
        /\ at'[c] \in {"size", "count"} => m_data'[p][FrontSlot(m_offset'[p], 1)] = c
        /\ at'[c] = "count" => register'[c] = 0
    BY <1>1, <1>2
  <2>. QED  BY <2>1, <2>4, <2>5 DEF AddInv, Newest
<1>7. HoldInv'
  BY <1>3, HoldStep DEF Inv
<1>8. TakeInv'
  <2>1. ASSUME NEW q \in Process, at'[q] \in Dequeuing
        PROVE  at'[q] = at[q] /\ q # c /\ q # p
    BY <1>1, <1>2, <1>3, <2>1 DEF Enqueuing, Dequeuing
  <2>. QED  BY <2>1 DEF Inv, TakeInv, Newest
<1>. QED  BY <1>4, <1>5, <1>6, <1>7, <1>8 DEF Inv

LEMMA EnqueueSteps ==
    ASSUME ProcessAssumption, Inv, NEW c \in Process,
           \/ EnqueueRoom(c) \/ EnqueueSlot(c) \/ EnqueueWrite(c) \/ EnqueueOffset(c)
           \/ EnqueueAdvance(c) \/ EnqueueSize(c)
    PROVE  Inv'
<1>0. at[c] \in Enqueuing
  BY DEF EnqueueRoom, EnqueueSlot, EnqueueWrite, EnqueueOffset, EnqueueAdvance, EnqueueSize, At,
         Enqueuing
<1>1. PICK p \in Process : p = m_parent[c] /\ m_size[p] = 0
  BY <1>0, Alone
<1>2. m_offset[p] \in 0 .. Size - 1 /\ m_offset[p] \in 0 .. Size /\ 0 \in 0 .. Size
  BY DEF Inv, TypeOK, ProcessAssumption
<1>3. /\ at[c] \in {"write", "advance"} => register[c] = m_offset[p]
      /\ at[c] \in {"offset", "advance"} => m_data[p][m_offset[p]] = c
      /\ at[c] \in {"size", "count"} => m_data[p][FrontSlot(m_offset[p], 1)] = c
  BY <1>0, <1>1 DEF Inv, AddInv, Newest
<1>4. CASE EnqueueRoom(c)
  <2>1. TypeOK'
    BY <1>4 DEF EnqueueRoom, At, Assert, Go, queueVars, Inv, TypeOK, Enqueuing
  <2>. QED  BY <1>0, <1>1, <1>4, <2>1, AddStep
               DEF EnqueueRoom, At, Assert, Go, queueVars, Enqueuing
<1>5. CASE EnqueueSlot(c)
  <2>1. TypeOK' /\ register'[c] = m_offset[p] /\ \A q \in Process \ {c} : register'[q] = register[q]
    BY <1>1, <1>2, <1>5 DEF EnqueueSlot, At, Load, Go, queueVars, Inv, TypeOK, Enqueuing
  <2>. QED  BY <1>0, <1>1, <1>5, <2>1, AddStep DEF EnqueueSlot, At, Load, Go, queueVars, Enqueuing
<1>6. CASE EnqueueOffset(c)
  <2>1. TypeOK' /\ register'[c] = m_offset[p] /\ \A q \in Process \ {c} : register'[q] = register[q]
    BY <1>1, <1>2, <1>6 DEF EnqueueOffset, At, Load, Go, queueVars, Inv, TypeOK, Enqueuing
  <2>2. m_data[p][m_offset[p]] = c
    BY <1>3, <1>6 DEF EnqueueOffset, At
  <2>. QED  BY <1>0, <1>1, <1>6, <2>1, <2>2, AddStep
            DEF EnqueueOffset, At, Load, Go, queueVars, Enqueuing
<1>7. CASE EnqueueSize(c)
  <2>1. TypeOK' /\ register'[c] = 0 /\ \A q \in Process \ {c} : register'[q] = register[q]
    BY <1>1, <1>2, <1>7 DEF EnqueueSize, At, Load, Go, queueVars, Inv, TypeOK, Enqueuing
  <2>2. m_data[p][FrontSlot(m_offset[p], 1)] = c
    BY <1>3, <1>7 DEF EnqueueSize, At
  <2>. QED  BY <1>0, <1>1, <1>7, <2>1, <2>2, AddStep
            DEF EnqueueSize, At, Load, Go, queueVars, Enqueuing
<1>8. CASE EnqueueWrite(c)
  <2>1. /\ register[c] = m_offset[p]
        /\ m_data' = [m_data EXCEPT ![p] = [m_data[p] EXCEPT ![m_offset[p]] = c]]
    BY <1>1, <1>3, <1>8 DEF EnqueueWrite, At
  <2>2. /\ m_data[p] \in [0 .. Size - 1 -> Process \cup {NoProcess}]
        /\ m_data \in [Process -> [0 .. Size - 1 -> Process \cup {NoProcess}]]
    BY DEF Inv, TypeOK
  <2>3. /\ m_data' \in [Process -> [0 .. Size - 1 -> Process \cup {NoProcess}]]
        /\ m_data'[p][m_offset[p]] = c
        /\ \A q \in Process \ {p} : m_data'[q] = m_data[q]
    BY <1>2, <2>1, <2>2
  <2>4. TypeOK'
    BY <1>8, <2>3 DEF EnqueueWrite, Go, Inv, TypeOK, Enqueuing
  <2>. QED  BY <1>0, <1>1, <1>8, <2>3, <2>4, AddStep DEF EnqueueWrite, Go, Enqueuing
<1>9. CASE EnqueueAdvance(c)
  <2>1. /\ register[c] = m_offset[p] /\ m_data[p][m_offset[p]] = c
        /\ m_offset' = [m_offset EXCEPT ![p] = Following(m_offset[p])]
    BY <1>1, <1>3, <1>9 DEF EnqueueAdvance, At
  <2>2. /\ Following(m_offset[p]) \in 0 .. Size - 1
        /\ FrontSlot(Following(m_offset[p]), 1) = m_offset[p]
    BY <1>2, Slots
  <2>3. /\ m_offset'[p] = Following(m_offset[p])
        /\ \A q \in Process \ {p} : m_offset'[q] = m_offset[q]
    BY <2>1 DEF Inv, TypeOK
  <2>6. m_offset' \in [Process -> 0 .. Size - 1]
    BY <2>1, <2>2 DEF Inv, TypeOK
  <2>4. TypeOK'
    BY <1>9, <2>6 DEF EnqueueAdvance, Go, Inv, TypeOK, Enqueuing
  <2>5. m_data'[p][FrontSlot(m_offset'[p], 1)] = c
    BY <1>9, <2>1, <2>2, <2>3 DEF EnqueueAdvance
  <2>. QED  BY <1>0, <1>1, <1>9, <2>3, <2>4, <2>5, AddStep DEF EnqueueAdvance, Go, Enqueuing
<1>. QED  BY <1>4, <1>5, <1>6, <1>7, <1>8, <1>9

\* The last step: the child counts as a zombie.
LEMMA CountStep ==
    ASSUME ProcessAssumption, Inv, NEW c \in Process, EnqueueCount(c)
    PROVE  Inv'
<1>0. at[c] = "count" /\ at[c] \in Enqueuing
  BY DEF EnqueueCount, At, Enqueuing
<1>1. PICK p \in Process : p = m_parent[c] /\ m_size[p] = 0
  BY <1>0, Alone
<1>2. /\ \A d \in Process \ {c} : at[d] \in Enqueuing => m_parent[d] # p
      /\ at[p] \notin Dequeuing /\ c \notin reaped
      /\ \A d \in Process : m_parent[d] = p /\ at[d] \in Reporting => d \in reaped
  BY <1>0, <1>1, Alone
<1>3. register[c] = 0 /\ m_data[p][FrontSlot(m_offset[p], 1)] = c
  BY <1>0, <1>1 DEF Inv, AddInv, Newest
<1>4. /\ at' = [at EXCEPT ![c] = "back"] /\ m_size' = [m_size EXCEPT ![p] = 1]
      /\ m_parent' = m_parent /\ m_offset' = m_offset /\ m_data' = m_data
      /\ local' = local /\ register' = register /\ reaped' = reaped /\ crashed' = crashed
  BY <1>1, <1>3 DEF EnqueueCount, Go
<1>5. /\ at'[c] = "back" /\ m_size'[p] = 1
      /\ \A q \in Process \ {c} : at'[q] = at[q]
      /\ \A q \in Process \ {p} : m_size'[q] = m_size[q]
  BY <1>4 DEF Inv, TypeOK
<1>6. TypeOK'
  <2>1. 1 \in 0 .. Size
    BY DEF ProcessAssumption
  <2>. QED  BY <1>4, <2>1 DEF Inv, TypeOK, Reporting
<1>7. LifeInv'
  BY <1>0, <1>4, <1>5 DEF Inv, LifeInv, Enqueuing, Reporting
<1>8. SpawnInv'
  BY <1>0, <1>4, <1>5 DEF Inv, SpawnInv
<1>9. AddInv'
  <2>1. ASSUME NEW d \in Process, at'[d] \in Enqueuing
        PROVE  d # c /\ at'[d] = at[d] /\ m_parent[d] # p /\ m_parent[d] \in Process
    <3>1. d # c
      BY <1>5, <2>1 DEF Enqueuing
    <3>. QED  BY <1>2, <1>5, <2>1, <3>1, Alone
  <2>. QED  BY <1>4, <1>5, <2>1 DEF Inv, AddInv, Newest
<1>10. HoldInv'
  <2>1. ASSUME NEW d \in Process
        PROVE  m_parent[d] = p /\ at'[d] \in Reporting /\ d \notin reaped <=> d = c
    BY <1>1, <1>2, <1>5 DEF Reporting
  <2>2. /\ m_size'[p] \in {0, 1}
        /\ (m_size'[p] = 1 => m_data'[p][FrontSlot(m_offset'[p], 1)] \in Process)
        /\ \A d \in Process : m_parent'[d] = p /\ at'[d] \in Reporting /\ d \notin reaped'
              <=> m_size'[p] = 1 /\ d = m_data'[p][FrontSlot(m_offset'[p], 1)]
    BY <1>3, <1>4, <1>5, <2>1
  <2>3. ASSUME NEW q \in Process \ {p},
               \A d \in Process : m_parent'[d] = q => at'[d] \notin Enqueuing
        PROVE  /\ m_size'[q] \in {0, 1}
               /\ (m_size'[q] = 1 => m_data'[q][FrontSlot(m_offset'[q], 1)] \in Process)
               /\ \A d \in Process : m_parent'[d] = q /\ at'[d] \in Reporting /\ d \notin reaped'
                     <=> m_size'[q] = 1 /\ d = m_data'[q][FrontSlot(m_offset'[q], 1)]
    <3>1. \A d \in Process : m_parent[d] = q => d # c /\ at'[d] = at[d] /\ at[d] \notin Enqueuing
      BY <1>1, <1>4, <1>5, <2>3
    <3>2. /\ m_size[q] \in {0, 1}
          /\ (m_size[q] = 1 => m_data[q][FrontSlot(m_offset[q], 1)] \in Process)
          /\ \A d \in Process : m_parent[d] = q /\ at[d] \in Reporting /\ d \notin reaped
                <=> m_size[q] = 1 /\ d = m_data[q][FrontSlot(m_offset[q], 1)]
      BY <3>1 DEF Inv, HoldInv, Newest
    <3>. QED  BY <1>4, <1>5, <3>1, <3>2
  <2>. QED  BY <2>2, <2>3 DEF HoldInv, Newest
<1>11. TakeInv'
  <2>1. ASSUME NEW q \in Process, at'[q] \in Dequeuing
        PROVE  at'[q] = at[q] /\ q # p
    BY <1>2, <1>5, <2>1 DEF Dequeuing
  <2>. QED  BY <1>4, <1>5, <2>1 DEF Inv, TakeInv, Newest
<1>. QED  BY <1>6, <1>7, <1>8, <1>9, <1>10, <1>11 DEF Inv

-----------------------------------------------------------------------------
(* Steps that touch no queue *)

\* The assertions of a child behind its enqueue(), the call of wait() and what dequeue()
\* loads.
LEMMA QuietStep ==
    ASSUME ProcessAssumption, Inv, NEW p \in Process, NEW x, at' = [at EXCEPT ![p] = x], TypeOK',
           \/ at[p] \in Reporting /\ x \in Reporting
           \/ at[p] = "user" /\ x = "wait"
           \/ at[p] \in {"wait"} \cup Dequeuing /\ x \in Dequeuing,
           m_parent' = m_parent, m_offset' = m_offset, m_size' = m_size, m_data' = m_data,
           reaped' = reaped,
           \A q \in Process \ {p} : local'[q] = local[q] /\ register'[q] = register[q],
           x \in Dequeuing => m_size[p] = 1,
           x = "load_front" => register'[p] = m_offset[p],
           x = "take" => register'[p] = FrontSlot(m_offset[p], 1),
           x \in {"load_size", "return"} => local'[p] = Newest(p),
           x = "return" => register'[p] = 1
    PROVE  Inv'
<1>1. at'[p] = x /\ \A q \in Process \ {p} : at'[q] = at[q]
  BY DEF Inv, TypeOK
<1>2. \A q \in Process : /\ (at'[q] \in Enqueuing <=> at[q] \in Enqueuing)
                         /\ (at'[q] \in Reporting <=> at[q] \in Reporting)
                         /\ (at'[q] \in Enqueuing => at'[q] = at[q] /\ q # p)
                         /\ (at'[q] \in {"new", "set_parent"} \/ at[q] \in {"new", "set_parent"}
                                => at'[q] = at[q] /\ q # p)
  BY <1>1 DEF Enqueuing, Reporting, Dequeuing
<1>3. LifeInv'
  BY <1>2 DEF Inv, LifeInv
<1>4. SpawnInv'
  BY <1>2 DEF Inv, SpawnInv
<1>5. AddInv'
  BY <1>2 DEF Inv, AddInv, Newest
<1>6. HoldInv'
  BY <1>2, HoldStep DEF Inv
<1>7. TakeInv'
  <2>1. ASSUME NEW q \in Process \ {p}, at'[q] \in Dequeuing
        PROVE  /\ m_size'[q] = 1
               /\ at'[q] = "load_front" => register'[q] = m_offset'[q]
               /\ at'[q] = "take" => register'[q] = FrontSlot(m_offset'[q], 1)
               /\ at'[q] \in {"load_size", "return"}
                      => local'[q] = m_data'[q][FrontSlot(m_offset'[q], 1)]
               /\ at'[q] = "return" => register'[q] = 1
    BY <1>1, <2>1 DEF Inv, TakeInv, Newest
  <2>2. ASSUME at'[p] \in Dequeuing
        PROVE  /\ m_size'[p] = 1
               /\ at'[p] = "load_front" => register'[p] = m_offset'[p]
               /\ at'[p] = "take" => register'[p] = FrontSlot(m_offset'[p], 1)
               /\ at'[p] \in {"load_size", "return"}
                      => local'[p] = m_data'[p][FrontSlot(m_offset'[p], 1)]
               /\ at'[p] = "return" => register'[p] = 1
    BY <1>1, <2>2 DEF Newest
  <2>. QED  BY <2>1, <2>2 DEF TakeInv, Newest
<1>. QED  BY <1>3, <1>4, <1>5, <1>6, <1>7 DEF Inv

LEMMA QuietSteps ==
    ASSUME ProcessAssumption, Inv, NEW p \in Process,
           \/ EnqueueBack(p) \/ ExitAssert(p) \/ Wait(p) \/ WaitPoll(p) \/ DequeueFront(p)
           \/ DequeueOffset(p) \/ DequeueSlot(p) \/ DequeueTake(p) \/ DequeueSize(p)
    PROVE  Inv'
<1>1. /\ at[p] \in Dequeuing => m_size[p] = 1
      /\ at[p] = "load_front" => register[p] = m_offset[p]
      /\ at[p] = "take" => register[p] = FrontSlot(m_offset[p], 1)
      /\ at[p] \in {"load_size", "return"} => local[p] = Newest(p)
  BY DEF Inv, TakeInv, Dequeuing
<1>2. /\ m_offset[p] \in 0 .. Size - 1 /\ m_offset[p] \in 0 .. Size
      /\ 1 \in 0 .. Size /\ FrontSlot(m_offset[p], 1) \in 0 .. Size - 1
      /\ FrontSlot(m_offset[p], 1) \in 0 .. Size
  <2>1. m_offset[p] \in 0 .. Size - 1
    BY DEF Inv, TypeOK
  <2>2. FrontSlot(m_offset[p], 1) \in 0 .. Size - 1
    BY <2>1, Slots
  <2>. QED  BY <2>1, <2>2 DEF ProcessAssumption
<1>3. CASE EnqueueBack(p) \/ ExitAssert(p)
  <2>1. TypeOK'
    BY <1>3 DEF EnqueueBack, ExitAssert, At, Assert, Go, queueVars, Inv, TypeOK, Reporting
  <2>. QED  BY <1>3, <2>1, QuietStep
            DEF EnqueueBack, ExitAssert, At, Assert, Go, queueVars, Reporting, Dequeuing
<1>4. CASE Wait(p)
  <2>1. TypeOK'
    BY <1>4 DEF Wait, At, Go, queueVars, Inv, TypeOK
  <2>. QED  BY <1>4, <2>1, QuietStep DEF Wait, At, Go, queueVars, Dequeuing
<1>5. CASE WaitPoll(p)
  <2>1. TypeOK'
    BY <1>5 DEF WaitPoll, At, Go, queueVars, Inv, TypeOK, Dequeuing
  <2>2. m_size[p] = 1
    <3>1. m_size[p] > 0 /\ m_size[p] \in Nat
      BY <1>5 DEF WaitPoll, Inv, TypeOK
    <3>2. \A c \in Process : m_parent[c] = p => at[c] \notin Enqueuing
      BY <3>1, Alone
    <3>. QED  BY <3>1, <3>2 DEF Inv, HoldInv
  <2>. QED  BY <1>5, <2>1, <2>2, QuietStep DEF WaitPoll, At, Go, queueVars, Dequeuing
<1>6. CASE DequeueFront(p)
  <2>1. TypeOK'
    BY <1>6 DEF DequeueFront, At, Assert, Go, queueVars, Inv, TypeOK, Dequeuing
  <2>. QED  BY <1>1, <1>6, <2>1, QuietStep
            DEF DequeueFront, At, Assert, Go, queueVars, Dequeuing
<1>7. CASE DequeueOffset(p)
  <2>1. /\ TypeOK' /\ register'[p] = m_offset[p]
        /\ \A q \in Process \ {p} : register'[q] = register[q]
    BY <1>2, <1>7 DEF DequeueOffset, At, Load, Go, queueVars, Inv, TypeOK, Dequeuing
  <2>. QED  BY <1>1, <1>7, <2>1, QuietStep DEF DequeueOffset, At, Load, Go, queueVars, Dequeuing
<1>8. CASE DequeueSlot(p)
  <2>1. FrontSlot(register[p], m_size[p]) = FrontSlot(m_offset[p], 1)
    BY <1>1, <1>8 DEF DequeueSlot, At, Dequeuing
  <2>2. /\ TypeOK' /\ register'[p] = FrontSlot(m_offset[p], 1)
        /\ \A q \in Process \ {p} : register'[q] = register[q]
    BY <1>2, <1>8, <2>1 DEF DequeueSlot, At, Load, Go, queueVars, Inv, TypeOK, Dequeuing
  <2>. QED  BY <1>1, <1>8, <2>2, QuietStep DEF DequeueSlot, At, Load, Go, queueVars, Dequeuing
<1>9. CASE DequeueTake(p)
  <2>1. m_data[p][register[p]] = Newest(p)
    BY <1>1, <1>9 DEF DequeueTake, At, Newest
  <2>2. m_data[p][register[p]] \in Process \cup {NoProcess}
    <3>1. register[p] \in 0 .. Size - 1
      BY <1>1, <1>2, <1>9 DEF DequeueTake, At
    <3>2. m_data[p] \in [0 .. Size - 1 -> Process \cup {NoProcess}]
      BY DEF Inv, TypeOK
    <3>. QED  BY <3>1, <3>2
  <2>3. /\ TypeOK' /\ local'[p] = Newest(p)
        /\ \A q \in Process \ {p} : local'[q] = local[q]
    BY <1>9, <2>1, <2>2 DEF DequeueTake, Go, queueVars, Inv, TypeOK, Dequeuing
  <2>. QED  BY <1>1, <1>9, <2>3, QuietStep DEF DequeueTake, At, Go, queueVars, Dequeuing
<1>10. CASE DequeueSize(p)
  <2>1. /\ TypeOK' /\ register'[p] = 1
        /\ \A q \in Process \ {p} : register'[q] = register[q]
    BY <1>1, <1>2, <1>10 DEF DequeueSize, At, Load, Go, queueVars, Inv, TypeOK, Dequeuing
  <2>. QED  BY <1>1, <1>10, <2>1, QuietStep DEF DequeueSize, At, Load, Go, queueVars, Dequeuing
<1>. QED  BY <1>3, <1>4, <1>5, <1>6, <1>7, <1>8, <1>9, <1>10

-----------------------------------------------------------------------------
(* wait *)

\* What a wait() that is about to return has taken.
LEMMA Taken ==
    ASSUME ProcessAssumption, Inv, NEW p \in Process, at[p] = "return"
    PROVE  /\ m_size[p] = 1 /\ register[p] = 1 /\ local[p] \in Process
           /\ \A c \in Process : m_parent[c] = p => at[c] \notin Enqueuing
           /\ \A c \in Process : m_parent[c] = p /\ at[c] \in Reporting /\ c \notin reaped
                                    <=> c = local[p]
<1>1. m_size[p] = 1 /\ register[p] = 1 /\ local[p] = Newest(p)
  BY DEF Inv, TakeInv, Dequeuing
<1>2. \A c \in Process : m_parent[c] = p => at[c] \notin Enqueuing
  BY <1>1, Alone
<1>. QED  BY <1>1, <1>2 DEF Inv, HoldInv

\* wait() returns the zombie, and the queue is empty again.
LEMMA ReturnStep ==
    ASSUME ProcessAssumption, Inv, NEW p \in Process, DequeueReturn(p)
    PROVE  Inv'
<1>0. at[p] = "return"
  BY DEF DequeueReturn, At
<1>1. PICK z \in Process : z = local[p]
  BY <1>0, Taken
<1>2. /\ m_size[p] = 1 /\ register[p] = 1
      /\ \A c \in Process : m_parent[c] = p => at[c] \notin Enqueuing
      /\ \A c \in Process : m_parent[c] = p /\ at[c] \in Reporting /\ c \notin reaped <=> c = z
  BY <1>0, <1>1, Taken
<1>3. /\ at' = [at EXCEPT ![p] = "user"] /\ m_size' = [m_size EXCEPT ![p] = 0]
      /\ reaped' = reaped \cup {z}
      /\ m_parent' = m_parent /\ m_offset' = m_offset /\ m_data' = m_data
      /\ local' = local /\ register' = register /\ crashed' = crashed
  BY <1>1, <1>2 DEF DequeueReturn, Go
<1>4. /\ at'[p] = "user" /\ m_size'[p] = 0
      /\ \A q \in Process \ {p} : at'[q] = at[q] /\ m_size'[q] = m_size[q]
  BY <1>3 DEF Inv, TypeOK
<1>5. \A q \in Process : /\ (at'[q] \in Enqueuing <=> at[q] \in Enqueuing)
                         /\ (at'[q] \in Reporting <=> at[q] \in Reporting)
                         /\ (at'[q] \in {"new", "set_parent"} \cup Enqueuing \cup Dequeuing
                                => at'[q] = at[q] /\ q # p)
  BY <1>0, <1>4 DEF Enqueuing, Reporting, Dequeuing
<1>6. TypeOK'
  <2>1. 0 \in 0 .. Size
    BY DEF ProcessAssumption
  <2>. QED  BY <1>3, <2>1 DEF Inv, TypeOK
<1>7. LifeInv'
  <2>1. \A c \in reaped' : c \in Process /\ at'[c] \in Reporting
    BY <1>2, <1>3, <1>5 DEF Inv, LifeInv
  <2>2. \A c \in Process : /\ (at'[c] = "new" => m_parent'[c] = NoProcess)
                           /\ (at'[c] \in Enqueuing \cup Reporting => m_parent'[c] # NoProcess)
    BY <1>3, <1>5 DEF Inv, LifeInv
  <2>3. \A c, d \in Process \ reaped' :
            m_parent'[c] = m_parent'[d] => m_parent'[c] = NoProcess \/ c = d
    BY <1>3 DEF Inv, LifeInv
  <2>. QED  BY <2>1, <2>2, <2>3 DEF LifeInv
<1>8. SpawnInv'
  <2>1. ASSUME NEW q \in Process, at'[q] = "set_parent"
        PROVE  /\ local'[q] \in Process /\ at'[local'[q]] # "new"
               /\ m_parent'[local'[q]] = NoProcess
               /\ \A d \in Process : m_parent'[d] = q => d \in reaped'
               /\ \A o \in Process \ {q} : at'[o] = "set_parent" => local'[o] # local'[q]
    BY <1>3, <1>5, <2>1 DEF Inv, SpawnInv
  <2>. QED  BY <2>1 DEF SpawnInv
<1>9. AddInv'
  <2>1. ASSUME NEW d \in Process, at'[d] \in Enqueuing
        PROVE  at'[d] = at[d] /\ m_parent[d] # p /\ m_parent[d] \in Process
    BY <1>2, <1>5, <2>1, Alone
  <2>. QED  BY <1>3, <1>4, <2>1 DEF Inv, AddInv, Newest
<1>10. HoldInv'
  <2>1. \A d \in Process : ~ (m_parent[d] = p /\ at'[d] \in Reporting /\ d \notin reaped')
    BY <1>2, <1>3, <1>5
  <2>2. m_parent[z] = p
    BY <1>2
  <2>3. ASSUME NEW q \in Process \ {p},
               \A d \in Process : m_parent'[d] = q => at'[d] \notin Enqueuing
        PROVE  /\ m_size'[q] \in {0, 1}
               /\ (m_size'[q] = 1 => m_data'[q][FrontSlot(m_offset'[q], 1)] \in Process)
               /\ \A d \in Process : m_parent'[d] = q /\ at'[d] \in Reporting /\ d \notin reaped'
                     <=> m_size'[q] = 1 /\ d = m_data'[q][FrontSlot(m_offset'[q], 1)]
    <3>1. \A d \in Process : m_parent[d] = q => d # z /\ at[d] \notin Enqueuing
      BY <1>3, <1>5, <2>2, <2>3
    <3>2. /\ m_size[q] \in {0, 1}
          /\ (m_size[q] = 1 => m_data[q][FrontSlot(m_offset[q], 1)] \in Process)
          /\ \A d \in Process : m_parent[d] = q /\ at[d] \in Reporting /\ d \notin reaped
                <=> m_size[q] = 1 /\ d = m_data[q][FrontSlot(m_offset[q], 1)]
      BY <3>1 DEF Inv, HoldInv, Newest
    <3>. QED  BY <1>3, <1>4, <1>5, <3>1, <3>2
  <2>. QED  BY <1>3, <1>4, <2>1, <2>3 DEF HoldInv, Newest
<1>11. TakeInv'
  BY <1>3, <1>4, <1>5 DEF Inv, TakeInv, Newest
<1>. QED  BY <1>6, <1>7, <1>8, <1>9, <1>10, <1>11 DEF Inv

-----------------------------------------------------------------------------
(* The invariant *)

LEMMA NextInv == OneChild /\ Inv /\ [Next]_vars => Inv'
<1>. SUFFICES ASSUME OneChild, Inv, [Next]_vars PROVE Inv'
  OBVIOUS
<1>0. ProcessAssumption
  BY DEF OneChild
<1>1. CASE UNCHANGED vars
  BY <1>1 DEF vars, queueVars, Inv, TypeOK, LifeInv, SpawnInv, AddInv, HoldInv, TakeInv, Newest
<1>2. ASSUME NEW p \in Process, Program(p) PROVE Inv'
  BY <1>0, <1>2, ExitStep, QuietSteps, SpawnStep DEF Program
<1>3. ASSUME NEW p \in Process, Kernel(p) PROVE Inv'
  BY <1>0, <1>3, AdoptStep, EnqueueSteps, CountStep, QuietSteps, ReturnStep DEF Kernel
<1>. QED  BY <1>1, <1>2, <1>3 DEF Next

LEMMA Holds == Inv /\ ProcessAssumption => QueueHoldsZombies
<1>. SUFFICES ASSUME Inv, ProcessAssumption, NEW p \in Process,
                     ~ \E c \in Process : m_parent[c] = p /\ at[c] \in Enqueuing
              PROVE  /\ m_size[p] = Cardinality(Zombies(p))
                     /\ Zombies(p) =
                          {m_data[p][(m_offset[p] - m_size[p] + slot + Size) % Size] : slot \in 0 .. m_size[p] - 1}
  BY DEF QueueHoldsZombies
<1>1. /\ m_size[p] \in {0, 1} /\ (m_size[p] = 1 => Newest(p) \in Process)
      /\ \A c \in Process :
            m_parent[c] = p /\ at[c] \in Reporting /\ c \notin reaped <=> m_size[p] = 1 /\ c = Newest(p)
  BY DEF Inv, HoldInv
<1>2. CASE m_size[p] = 0
  <2>1. Zombies(p) = {}
    BY <1>1, <1>2 DEF Zombies
  <2>2. 0 .. m_size[p] - 1 = {}
    BY <1>2
  <2>. QED  BY <1>2, <2>1, <2>2, FS_EmptySet
<1>3. CASE m_size[p] = 1
  <2>1. Zombies(p) = {Newest(p)}
    BY <1>1, <1>3 DEF Zombies
  <2>2. 0 .. m_size[p] - 1 = {0}
    BY <1>3
  <2>3. (m_offset[p] - m_size[p] + 0 + Size) % Size = FrontSlot(m_offset[p], 1)
    <3>1. m_offset[p] - m_size[p] + 0 + Size = m_offset[p] - 1 + Size
      BY <1>3 DEF Inv, TypeOK, ProcessAssumption
    <3>. QED  BY <3>1 DEF FrontSlot
  <2>4. {m_data[p][(m_offset[p] - m_size[p] + slot + Size) % Size] : slot \in {0}} = {Newest(p)}
    BY <2>3 DEF Newest
  <2>. QED  BY <1>3, <2>1, <2>2, <2>4, FS_Singleton
<1>. QED  BY <1>1, <1>2, <1>3

-----------------------------------------------------------------------------
(* The theorems *)

\* The invariant holds for any processes and any capacity of the queue.
THEOREM Invariance ==
    ASSUME OneChild
    PROVE  Spec => []Inv
<1>1. OneChild
  OBVIOUS
<1>2. Init => Inv
  BY <1>1, InitInv DEF OneChild
<1>3. Inv /\ [Next]_vars => Inv'
  BY <1>1, NextInv
<1>. QED  BY <1>2, <1>3, PTL DEF Spec

\* The queue of a parent holds its zombies and counts them, although exit() and wait()
\* change m_size without any protection (Thread.cpp:309-333).
THEOREM QueueIsRight ==
    ASSUME OneChild
    PROVE  Spec => []QueueHoldsZombies
<1>1. OneChild
  OBVIOUS
<1>2. Inv => QueueHoldsZombies
  BY <1>1, Holds DEF OneChild
<1>. QED  BY <1>2, Invariance, PTL

\* wait() returns a child of the caller that has exited and that no wait() has returned
\* before (Thread.cpp:315-322).
THEOREM WaitsAreExact ==
    ASSUME OneChild
    PROVE  Spec => WaitIsExact
<1>1. OneChild
  OBVIOUS
<1>2. Inv => \A p \in Process : at[p] = "return" => local[p] \in Zombies(p)
  BY <1>1, Taken DEF OneChild, Zombies
<1>3. Inv /\ [Next]_vars =>
          [\A p \in Process : At(p, "return") /\ at'[p] = "user" => local[p] \in Zombies(p)]_vars
  BY <1>2 DEF At
<1>. QED  BY <1>3, Invariance, PTL DEF Spec, WaitIsExact

\* Only the assertions behind the enqueue() of a child can fail, which look at a queue
\* that the parent may have emptied by then (Thread.cpp:332, CircularQueue.hpp:77): there
\* is always room in the queue, and front() always finds an element.
THEOREM OnlyExitAsserts ==
    ASSUME OneChild
    PROVE  Spec => [][crashed' /\ ~ crashed => \E p \in Process : at[p] \in {"back", "assert"}]_vars
<1>1. OneChild
  OBVIOUS
<1>2. ASSUME Inv, Next, crashed', ~ crashed
      PROVE  \E p \in Process : at[p] \in {"back", "assert"}
  <2>1. \A p \in Process : ~ (EnqueueRoom(p) /\ crashed')
    <3>1. ASSUME NEW p \in Process, EnqueueRoom(p) PROVE ~ crashed'
      <4>1. at[p] \in Enqueuing /\ crashed' = ~ (m_size[m_parent[p]] < Size)
        BY <3>1 DEF EnqueueRoom, At, Assert, Enqueuing
      <4>2. m_size[m_parent[p]] = 0 /\ Size \in Nat \ {0}
        BY <1>1, <1>2, <4>1, Alone DEF OneChild, ProcessAssumption
      <4>3. m_size[m_parent[p]] < Size
        BY <4>2
      <4>. QED  BY <4>1, <4>3, Zenon
    <3>. QED  BY <3>1
  <2>2. \A p \in Process : ~ (DequeueFront(p) /\ crashed')
    <3>1. ASSUME NEW p \in Process, DequeueFront(p) PROVE ~ crashed'
      <4>1. at[p] \in Dequeuing /\ crashed' = ~ (m_size[p] > 0)
        BY <3>1 DEF DequeueFront, At, Assert, Dequeuing
      <4>2. m_size[p] = 1
        BY <1>2, <4>1 DEF Inv, TakeInv
      <4>3. m_size[p] > 0
        BY <4>2
      <4>. QED  BY <4>1, <4>3, Zenon
    <3>. QED  BY <3>1
  <2>3. PICK p \in Process : Program(p) \/ Kernel(p)
    BY <1>2 DEF Next
  <2>4. EnqueueBack(p) \/ ExitAssert(p)
    BY <1>2, <2>1, <2>2, <2>3
       DEF Program, Kernel, Exit, Wait, PosixSpawn, SetParent, EnqueueSlot, EnqueueWrite,
           EnqueueOffset, EnqueueAdvance, EnqueueSize, EnqueueCount, WaitPoll, DequeueOffset,
           DequeueSlot, DequeueTake, DequeueSize, DequeueReturn, Load
  <2>. QED  BY <2>4 DEF EnqueueBack, ExitAssert, At
<1>3. Inv /\ [Next]_vars =>
          [crashed' /\ ~ crashed => \E p \in Process : at[p] \in {"back", "assert"}]_vars
  BY <1>2
<1>. QED  BY <1>3, Invariance, PTL DEF Spec

-----------------------------------------------------------------------------
(* The shell.  Each line is edited, then strtok_r() takes it apart.        *)

\* A set of natural numbers has a least element.
LEMMA Minimum ==
    ASSUME NEW T \in SUBSET Nat, T # {}
    PROVE  \E x \in T : \A y \in T : x <= y
<1>. DEFINE R == {ss \in Nat \X Nat : ss[1] < ss[2]}
<1>1. IsWellFoundedOn(R, Nat)
  BY NatLessThanWellFounded DEF OpToRel
<1>. HIDE DEF R
<1>2. PICK x \in T : \A y \in T : ~ (<<y, x>> \in R)
  BY <1>1, WFMin
<1>3. ASSUME NEW y \in T PROVE x <= y
  <2>1. <<y, x>> \in Nat \X Nat /\ ~ (<<y, x>> \in R)
    BY <1>2
  <2>2. ~ (y < x)
    BY <2>1 DEF R
  <2>. QED  BY <2>2
<1>. QED  BY <1>3

-----------------------------------------------------------------------------
(* What is left of the keys.                                               *)

\* One more key.
Pressed(text, key) ==
    IF key # DeleteKey THEN Append(text, key) ELSE IF text = <<>> THEN <<>> ELSE Sh!Front(text)

\* L says what is left of the first keys, up to n of them.
LeftOver(L, keys, n) ==
    L = [m \in 0 .. n |-> IF m = 0 THEN <<>> ELSE Pressed(L[m - 1], keys[m])]

\* There is such a function, for any keys.
LEMMA LeftOverExists ==
    ASSUME NEW keys, NEW n \in Nat
    PROVE  \E L : LeftOver(L, keys, n)
<1>. DEFINE T == {m \in 0 .. n : ~ \E L : LeftOver(L, keys, m)}
<1>1. SUFFICES ASSUME T # {} PROVE FALSE
  BY SMT
<1>2. PICK m \in T : \A y \in T : m <= y
  <2>1. T \in SUBSET Nat
    OBVIOUS
  <2>. HIDE DEF T
  <2>. QED  BY <1>1, <2>1, Minimum
<1>3. m \in Nat /\ ~ \E L : LeftOver(L, keys, m)
  OBVIOUS
<1>4. m # 0
  <2>1. PICK L : L = [k \in 0 .. 0 |-> <<>>]
    OBVIOUS
  <2>2. L = [k \in 0 .. 0 |-> IF k = 0 THEN <<>> ELSE Pressed(L[k - 1], keys[k])]
    BY <2>1
  <2>. QED  BY <1>3, <2>2 DEF LeftOver
<1>5. PICK L : LeftOver(L, keys, m - 1)
  <2>1. m - 1 \in 0 .. n /\ ~ (m <= m - 1)
    BY <1>3, <1>4
  <2>. QED  BY <1>2, <2>1
<1>6. /\ L = [k \in 0 .. m - 1 |-> IF k = 0 THEN <<>> ELSE Pressed(L[k - 1], keys[k])]
      /\ \A k \in 0 .. m - 1 : L[k] = IF k = 0 THEN <<>> ELSE Pressed(L[k - 1], keys[k])
  BY <1>5 DEF LeftOver
<1>7. PICK N : N = [k \in 0 .. m |-> IF k = m THEN Pressed(L[m - 1], keys[m]) ELSE L[k]]
  OBVIOUS
<1>8. ASSUME NEW k \in 0 .. m PROVE N[k] = IF k = 0 THEN <<>> ELSE Pressed(N[k - 1], keys[k])
  <2>1. k - 1 # m /\ (k # 0 => k - 1 \in 0 .. m)
    BY <1>3
  <2>2. k # 0 => N[k - 1] = L[k - 1]
    BY <1>7, <2>1
  <2>3. CASE k = m
    BY <1>4, <1>7, <2>2, <2>3
  <2>4. CASE k # m
    <3>1. k \in 0 .. m - 1
      BY <1>3, <2>4
    <3>. QED  BY <1>6, <1>7, <2>2, <2>4, <3>1
  <2>. QED  BY <2>3, <2>4
<1>9. N = [k \in 0 .. m |-> N[k]]
  BY <1>7
<1>10. N = [k \in 0 .. m |-> IF k = 0 THEN <<>> ELSE Pressed(N[k - 1], keys[k])]
  BY <1>8, <1>9
<1>. QED  BY <1>3, <1>10 DEF LeftOver

\* What is left of the first keys does not depend on the later ones.
LEMMA LeftOverAgrees ==
    ASSUME NEW keys, NEW more, NEW n \in Nat, NEW k \in Nat, n <= k,
           \A j \in 1 .. n : keys[j] = more[j],
           NEW L, LeftOver(L, keys, n), NEW M, LeftOver(M, more, k)
    PROVE  L[n] = M[n]
<1>. DEFINE T == {m \in 0 .. n : L[m] # M[m]}
<1>1. SUFFICES ASSUME T # {} PROVE FALSE
  BY SMT
<1>2. PICK m \in T : \A y \in T : m <= y
  <2>1. T \in SUBSET Nat
    OBVIOUS
  <2>. HIDE DEF T
  <2>. QED  BY <1>1, <2>1, Minimum
<1>3. m \in 0 .. n /\ m \in 0 .. k /\ L[m] # M[m]
  OBVIOUS
<1>4. /\ L[m] = IF m = 0 THEN <<>> ELSE Pressed(L[m - 1], keys[m])
      /\ M[m] = IF m = 0 THEN <<>> ELSE Pressed(M[m - 1], more[m])
  BY <1>3 DEF LeftOver
<1>5. m # 0
  BY <1>3, <1>4
<1>6. m - 1 \in 0 .. n /\ ~ (m <= m - 1) /\ m \in 1 .. n
  BY <1>3, <1>5
<1>7. L[m - 1] = M[m - 1]
  BY <1>2, <1>6
<1>. QED  BY <1>3, <1>4, <1>5, <1>6, <1>7

\* The function that Edited chooses.
LEMMA EditedIs ==
    ASSUME NEW keys, Len(keys) \in Nat
    PROVE  \E L : LeftOver(L, keys, Len(keys)) /\ Sh!Edited(keys) = L[Len(keys)]
<1>. DEFINE C == CHOOSE L : LeftOver(L, keys, Len(keys))
<1>1. LeftOver(C, keys, Len(keys))
  BY LeftOverExists
<1>2. Sh!Edited(keys) = C[Len(keys)]
  BY DEF Sh!Edited, LeftOver, Pressed
<1>. QED  BY <1>1, <1>2

\* A key more changes what is left of the keys as it changes the line.
LEMMA OneKey ==
    ASSUME NEW S, NEW keys \in Seq(S), NEW key \in S
    PROVE  Sh!Edited(Append(keys, key)) = Pressed(Sh!Edited(keys), key)
<1>1. PICK n \in Nat : n = Len(keys)
  OBVIOUS
<1>2. PICK more : more = Append(keys, key)
  OBVIOUS
<1>3. Len(more) = n + 1 /\ more[n + 1] = key /\ \A j \in 1 .. n : keys[j] = more[j]
  BY <1>1, <1>2
<1>4. PICK L : LeftOver(L, keys, n) /\ Sh!Edited(keys) = L[n]
  BY <1>1, EditedIs
<1>5. PICK M : LeftOver(M, more, n + 1) /\ Sh!Edited(more) = M[n + 1]
  BY <1>3, EditedIs
<1>6. L[n] = M[n]
  BY <1>3, <1>4, <1>5, LeftOverAgrees
<1>7. M[n + 1] = Pressed(M[n], more[n + 1])
  BY <1>5 DEF LeftOver
<1>. QED  BY <1>2, <1>3, <1>4, <1>5, <1>6, <1>7

\* Without keys there is no text.
LEMMA NoKeys == Sh!Edited(<<>>) = <<>>
<1>1. PICK L : LeftOver(L, <<>>, 0) /\ Sh!Edited(<<>>) = L[0]
  BY EditedIs
<1>. QED  BY <1>1 DEF LeftOver

-----------------------------------------------------------------------------
(* strtok_r(): the next word.                                              *)

Line == Seq(Letter \cup {Space})

\* What the scan needs to know of the line: n is its length.
LEMMA SpacesAre ==
    ASSUME NEW text \in Line
    PROVE  /\ Len(text) \in Nat
           /\ \A j \in 1 .. Len(text) : Sh!IsSpace(text, j) <=> text[j] = Space
           /\ ~ Sh!IsSpace(text, Len(text) + 1)
<1>1. Len(text) \in Nat
  BY DEF Line
<1>. QED  BY <1>1 DEF Sh!IsSpace

\* The delimiters are skipped.
LEMMA BeginIs ==
    ASSUME NEW text \in Line, NEW p \in 1 .. Len(text) + 1
    PROVE  /\ Sh!Begin(text, p) \in p .. Len(text) + 1
           /\ ~ Sh!IsSpace(text, Sh!Begin(text, p))
           /\ \A j \in p .. Sh!Begin(text, p) - 1 : Sh!IsSpace(text, j)
<1>1. Len(text) \in Nat /\ ~ Sh!IsSpace(text, Len(text) + 1)
  BY SpacesAre
<1>. DEFINE T == {j \in p .. Len(text) + 1 : ~ Sh!IsSpace(text, j)}
<1>2. T \in SUBSET Nat /\ Len(text) + 1 \in T
  BY <1>1
<1>3. PICK b \in T : \A j \in T : b <= j
  <2>. HIDE DEF T
  <2>. QED  BY <1>2, Minimum
<1>4. b \in p .. Len(text) + 1 /\ ~ Sh!IsSpace(text, b)
  OBVIOUS
<1>5. ASSUME NEW j \in p .. b - 1 PROVE Sh!IsSpace(text, j)
  <2>1. j \in p .. Len(text) + 1 /\ ~ (b <= j)
    BY <1>1, <1>4
  <2>. QED  BY <1>3, <2>1
<1>. QED  BY <1>4, <1>5 DEF Sh!Begin

\* The end of the word is behind its beginning.
LEMMA EndIs ==
    ASSUME NEW text \in Line, NEW b \in 1 .. Len(text) + 1
    PROVE  /\ Sh!End(text, b) \in b .. Len(text) + 1
           /\ Sh!End(text, b) > Len(text) \/ Sh!IsSpace(text, Sh!End(text, b))
           /\ \A j \in b .. Sh!End(text, b) - 1 : ~ Sh!IsSpace(text, j)
<1>1. Len(text) \in Nat
  BY SpacesAre
<1>. DEFINE T == {j \in b .. Len(text) + 1 : j > Len(text) \/ Sh!IsSpace(text, j)}
<1>2. T \in SUBSET Nat /\ Len(text) + 1 \in T
  BY <1>1
<1>3. PICK e \in T : \A j \in T : e <= j
  <2>. HIDE DEF T
  <2>. QED  BY <1>2, Minimum
<1>4. e \in b .. Len(text) + 1 /\ (e > Len(text) \/ Sh!IsSpace(text, e))
  OBVIOUS
<1>5. ASSUME NEW j \in b .. e - 1 PROVE ~ Sh!IsSpace(text, j)
  <2>1. j \in b .. Len(text) + 1 /\ ~ (e <= j)
    BY <1>1, <1>4
  <2>. QED  BY <1>3, <2>1
<1>. QED  BY <1>4, <1>5 DEF Sh!End

\* A call takes the word that begins next, if there is one, and stops behind it.
LEMMA NextWord ==
    ASSUME NEW text \in Line, NEW p \in 1 .. Len(text) + 1, Sh!Boundary(text, p)
    PROVE  /\ Sh!After(text, p) \in 1 .. Len(text) + 1 /\ Sh!Boundary(text, Sh!After(text, p))
           /\ Sh!Token(text, p) \in Seq(Letter)
           /\ Sh!Token(text, p) = Sh!NoWord => \A s \in Sh!Starts(text) : s < p
           /\ Sh!Token(text, p) # Sh!NoWord =>
                 \E b \in 1 .. Len(text) :
                    /\ Sh!Token(text, p) = Sh!Word(text, b) /\ p <= b /\ b < Sh!After(text, p)
                    /\ \A s \in 1 .. Len(text) :
                          (s \in Sh!Starts(text) /\ s < Sh!After(text, p)) <=> (s \in Sh!Starts(text) /\ s < p) \/ s = b
<1>1. PICK n \in Nat : n = Len(text)
  BY SpacesAre
<1>2. PICK b \in p .. n + 1 : /\ b = Sh!Begin(text, p) /\ ~ Sh!IsSpace(text, b)
                              /\ \A j \in p .. b - 1 : Sh!IsSpace(text, j)
  BY <1>1, BeginIs
<1>3. PICK e \in b .. n + 1 : /\ e = Sh!End(text, b) /\ (e > n \/ Sh!IsSpace(text, e))
                              /\ \A j \in b .. e - 1 : ~ Sh!IsSpace(text, j)
  <2>1. b \in 1 .. n + 1
    BY <1>1, <1>2
  <2>. QED  BY <1>1, <2>1, EndIs
<1>4. /\ p \in Nat /\ b \in Nat /\ e \in Nat /\ 1 <= p /\ p <= b /\ b <= e /\ e <= n + 1
      /\ \A j \in 1 .. n : Sh!IsSpace(text, j) <=> text[j] = Space
      /\ ~ Sh!IsSpace(text, n + 1)
  BY <1>1, <1>2, <1>3, SpacesAre
<1>5. Sh!Token(text, p) = SubSeq(text, b, e - 1) /\ Sh!After(text, p) = IF e > n THEN e ELSE e + 1
  BY <1>1, <1>2, <1>3 DEF Sh!Token, Sh!After
<1>6. Sh!After(text, p) \in 1 .. n + 1 /\ Sh!Boundary(text, Sh!After(text, p))
  <2>1. CASE e > n
    BY <1>1, <1>4, <1>5, <2>1 DEF Sh!Boundary
  <2>2. CASE ~ (e > n)
    <3>1. Sh!IsSpace(text, e) /\ Sh!After(text, p) = e + 1 /\ e + 1 - 1 = e
      BY <1>3, <1>4, <1>5, <2>2
    <3>. QED  BY <1>1, <1>4, <2>2, <3>1 DEF Sh!Boundary
  <2>. QED  BY <2>1, <2>2
<1>7. Sh!Token(text, p) \in Seq(Letter)
  <2>1. ASSUME NEW j \in b .. e - 1 PROVE j \in 1 .. n /\ text[j] \in Letter
    <3>1. j \in 1 .. n /\ ~ Sh!IsSpace(text, j)
      BY <1>3, <1>4
    <3>. QED  BY <1>1, <1>4, <3>1 DEF Line
  <2>2. text \in Seq(Letter \cup {Space})
    BY DEF Line
  <2>. QED  BY <1>1, <1>4, <1>5, <2>1, <2>2
<1>8. CASE b = n + 1
  <2>1. e = n + 1
    BY <1>4, <1>8
  <2>2. Sh!Token(text, p) = Sh!NoWord
    BY <1>4, <1>5, <1>8, <2>1 DEF Sh!NoWord
  <2>3. ASSUME NEW s \in Sh!Starts(text) PROVE s < p
    <3>1. s \in 1 .. n /\ text[s] # Space
      BY <1>1 DEF Sh!Starts
    <3>2. ~ Sh!IsSpace(text, s)
      BY <1>4, <3>1
    <3>. QED  BY <1>2, <1>4, <1>8, <3>1, <3>2
  <2>. QED  BY <1>1, <1>6, <1>7, <2>2, <2>3
<1>9. CASE b # n + 1
  <2>1. b \in 1 .. n /\ b < e
    <3>1. b # e
      BY <1>2, <1>3, <1>4, <1>9
    <3>. QED  BY <1>4, <1>9, <3>1
  <2>2. Sh!Token(text, p) # Sh!NoWord
    <3>1. Len(SubSeq(text, b, e - 1)) = e - b
      BY <1>1, <1>4, <2>1 DEF Line
    <3>2. Len(Sh!Token(text, p)) # 0
      BY <1>4, <1>5, <2>1, <3>1
    <3>3. Len(Sh!NoWord) = 0
      BY DEF Sh!NoWord
    <3>. QED  BY <3>2, <3>3
  <2>3. Sh!Token(text, p) = Sh!Word(text, b)
    <3>1. /\ e - 1 \in b .. n /\ \A j \in b .. e - 1 : text[j] # Space
          /\ e - 1 = n \/ text[e - 1 + 1] = Space
      BY <1>3, <1>4, <2>1
    <3>2. ASSUME NEW last \in b .. n, \A j \in b .. last : text[j] # Space,
                 last = n \/ text[last + 1] = Space
          PROVE  last = e - 1
      <4>1. ~ (last < e - 1)
        BY <1>4, <2>1, <3>1, <3>2
      <4>2. ~ (e - 1 < last)
        <5>1. e - 1 < last => e - 1 + 1 \in b .. last /\ e - 1 # n
          BY <1>4, <2>1, <3>2
        <5>. QED  BY <3>1, <3>2, <5>1
      <4>. QED  BY <1>4, <4>1, <4>2
    <3>3. e - 1 = CHOOSE last \in b .. n : /\ \A j \in b .. last : text[j] # Space
                                           /\ last = n \/ text[last + 1] = Space
      BY <3>1, <3>2
    <3>. QED  BY <1>1, <1>5, <3>3 DEF Sh!Word
  <2>4. b \in Sh!Starts(text)
    <3>1. text[b] # Space
      BY <1>2, <1>4, <2>1
    <3>2. b = 1 \/ text[b - 1] = Space
      <4>1. CASE b = p
        <5>1. p = 1 \/ Sh!IsSpace(text, p - 1)
          BY <1>1, <1>4, <2>1, <4>1 DEF Sh!Boundary
        <5>2. p # 1 => p - 1 \in 1 .. n
          BY <1>4, <2>1, <4>1
        <5>. QED  BY <1>4, <4>1, <5>1, <5>2
      <4>2. CASE b # p
        <5>1. b - 1 \in p .. b - 1 /\ b - 1 \in 1 .. n
          BY <1>4, <2>1, <4>2
        <5>. QED  BY <1>2, <1>4, <5>1
      <4>. QED  BY <4>1, <4>2
    <3>. QED  BY <1>1, <2>1, <3>1, <3>2 DEF Sh!Starts
  <2>5. b < Sh!After(text, p)
    BY <1>4, <1>5, <2>1
  <2>6. ASSUME NEW s \in 1 .. n, s \in Sh!Starts(text), p <= s, s < Sh!After(text, p)
        PROVE  s = b
    <3>1. text[s] # Space /\ ~ Sh!IsSpace(text, s) /\ (s = 1 \/ text[s - 1] = Space)
      BY <1>1, <1>4, <2>6 DEF Sh!Starts
    <3>2. ~ (s < b)
      BY <1>2, <1>4, <2>6, <3>1
    <3>3. ~ (s = e)
      BY <1>3, <1>4, <3>1
    <3>4. s < e
      BY <1>4, <1>5, <2>6, <3>3
    <3>5. ~ (b < s)
      <4>1. b < s => s - 1 \in b .. e - 1 /\ s - 1 \in 1 .. n /\ s # 1
        BY <1>4, <2>1, <3>4
      <4>. QED  BY <1>3, <1>4, <3>1, <4>1
    <3>. QED  BY <1>4, <3>2, <3>5
  <2>7. ASSUME NEW s \in 1 .. n
        PROVE  (s \in Sh!Starts(text) /\ s < Sh!After(text, p)) <=> (s \in Sh!Starts(text) /\ s < p) \/ s = b
    <3>1. p \in Nat /\ s \in Nat /\ Sh!After(text, p) \in Nat /\ p <= b /\ b < Sh!After(text, p)
      BY <1>4, <1>6, <2>5
    <3>2. s < p => s < Sh!After(text, p)
      BY <1>4, <3>1
    <3>. QED  BY <2>4, <2>6, <3>1, <3>2
  <2>. QED  BY <1>1, <1>4, <1>6, <1>7, <2>1, <2>2, <2>3, <2>5, <2>7
<1>. QED  BY <1>8, <1>9

\* A place of a longer sequence that is not its last one.
LEMMA NotLast ==
    ASSUME NEW l \in Nat, NEW k \in 1 .. l + 1, k # l + 1
    PROVE  k \in 1 .. l
OBVIOUS

\* The words that were taken and the next one are the first words of the line.
LEMMA OneWord ==
    ASSUME NEW text \in Line, NEW p \in 1 .. Len(text) + 1, Sh!Boundary(text, p), Sh!Token(text, p) # Sh!NoWord,
           NEW words \in Seq(Seq(Letter)), Sh!AreWords(words, text, p)
    PROVE  Sh!AreWords(Append(words, Sh!Token(text, p)), text, Sh!After(text, p))
<1>1. PICK n \in Nat, l \in Nat : n = Len(text) /\ l = Len(words)
  BY SpacesAre
<1>2. PICK b \in 1 .. n :
         /\ Sh!Token(text, p) = Sh!Word(text, b) /\ p <= b /\ b < Sh!After(text, p)
         /\ \A s \in 1 .. n :
               (s \in Sh!Starts(text) /\ s < Sh!After(text, p)) <=> (s \in Sh!Starts(text) /\ s < p) \/ s = b
  BY <1>1, NextWord
<1>3. PICK from \in [1 .. l -> 1 .. n] :
         /\ \A j, k \in 1 .. l : j < k => from[j] < from[k]
         /\ {from[k] : k \in 1 .. l} = {first \in Sh!Starts(text) : first < p}
         /\ \A k \in 1 .. l : words[k] = Sh!Word(text, from[k])
  BY <1>1 DEF Sh!AreWords
<1>4. PICK more : more = Append(words, Sh!Token(text, p))
  OBVIOUS
<1>5. Len(more) = l + 1 /\ more[l + 1] = Sh!Word(text, b) /\ \A k \in 1 .. l : more[k] = words[k]
  BY <1>1, <1>2, <1>4
<1>6. PICK g : g = [k \in 1 .. l + 1 |-> IF k = l + 1 THEN b ELSE from[k]]
  OBVIOUS
<1>7. g \in [1 .. l + 1 -> 1 .. n] /\ g[l + 1] = b /\ \A k \in 1 .. l : g[k] = from[k]
  BY <1>1, <1>3, <1>6
<1>8. \A k \in 1 .. l : from[k] \in Sh!Starts(text) /\ from[k] < p
  BY <1>3
<1>14. \A k \in 1 .. l : from[k] \in 1 .. n
  BY <1>3
<1>9. ASSUME NEW j \in 1 .. l + 1, NEW k \in 1 .. l + 1, j < k PROVE g[j] < g[k]
  <2>1. j \in 1 .. l
    BY <1>1, <1>9
  <2>2. CASE k = l + 1
    <3>1. from[j] < p /\ from[j] \in 1 .. n
      BY <1>8, <1>14, <2>1
    <3>2. p \in Nat /\ p <= b /\ b \in Nat /\ g[k] = b /\ g[j] = from[j]
      BY <1>1, <1>2, <1>7, <2>1, <2>2
    <3>. QED  BY <3>1, <3>2
  <2>3. CASE k # l + 1
    <3>1. k \in 1 .. l
      BY <2>3, NotLast
    <3>2. from[j] < from[k]
      BY <1>3, <1>9, <2>1, <3>1
    <3>. QED  BY <1>7, <2>1, <3>1, <3>2
  <2>. QED  BY <2>2, <2>3
<1>10. Sh!Starts(text) \subseteq 1 .. n
  BY <1>1 DEF Sh!Starts
<1>11. {g[k] : k \in 1 .. l + 1} = {first \in Sh!Starts(text) : first < Sh!After(text, p)}
  <2>1. ASSUME NEW k \in 1 .. l + 1
        PROVE  g[k] \in Sh!Starts(text) /\ g[k] < Sh!After(text, p)
    <3>1. CASE k = l + 1
      BY <1>2, <1>7, <3>1
    <3>2. CASE k # l + 1
      <4>1. k \in 1 .. l
        BY <1>1, <3>2
      <4>. QED  BY <1>2, <1>7, <1>8, <1>10, <4>1
    <3>. QED  BY <3>1, <3>2
  <2>2. ASSUME NEW s \in Sh!Starts(text), s < Sh!After(text, p)
        PROVE  \E k \in 1 .. l + 1 : g[k] = s
    <3>1. s \in 1 .. n /\ (s < p \/ s = b)
      BY <1>2, <1>10, <2>2
    <3>2. CASE s = b
      BY <1>1, <1>7, <3>2
    <3>3. CASE s < p
      <4>1. PICK k \in 1 .. l : from[k] = s
        BY <1>3, <3>3
      <4>2. k \in 1 .. l + 1
        BY <1>1
      <4>. QED  BY <1>7, <4>1, <4>2
    <3>. QED  BY <3>1, <3>2, <3>3
  <2>. QED  BY <2>1, <2>2
<1>12. ASSUME NEW k \in 1 .. l + 1 PROVE more[k] = Sh!Word(text, g[k])
  <2>1. CASE k = l + 1
    BY <1>5, <1>7, <2>1
  <2>2. CASE k # l + 1
    <3>1. k \in 1 .. l
      BY <1>1, <2>2
    <3>. QED  BY <1>3, <1>5, <1>7, <3>1
  <2>. QED  BY <2>1, <2>2
<1>13. Sh!AreWords(more, text, Sh!After(text, p))
  BY <1>1, <1>5, <1>7, <1>9, <1>11, <1>12 DEF Sh!AreWords
<1>. QED  BY <1>4, <1>13

\* Before the first word there is none.
LEMMA NoWords ==
    ASSUME NEW text \in Line
    PROVE  Sh!AreWords(<<>>, text, 1)
<1>1. PICK from : from = [k \in 1 .. 0 |-> 1]
  OBVIOUS
<1>2. from \in [1 .. Len(<<>>) -> 1 .. Len(text)]
  BY <1>1
<1>3. {from[k] : k \in 1 .. Len(<<>>)} = {} /\ {first \in Sh!Starts(text) : first < 1} = {}
  BY DEF Sh!Starts
<1>. QED  BY <1>2, <1>3 DEF Sh!AreWords

\* When there is no word left, the words that were taken are all of the line.
LEMMA AllWords ==
    ASSUME NEW text \in Line, NEW p \in 1 .. Len(text) + 1, Sh!Boundary(text, p), Sh!Token(text, p) = Sh!NoWord,
           NEW words, Sh!AreWords(words, text, p)
    PROVE  Sh!AreWords(words, text, Len(text) + 1)
<1>1. \A s \in Sh!Starts(text) : s < p /\ s < Len(text) + 1
  BY NextWord, SpacesAre DEF Sh!Starts
<1>2. {first \in Sh!Starts(text) : first < p} = {first \in Sh!Starts(text) : first < Len(text) + 1}
  BY <1>1
<1>. QED  BY <1>2 DEF Sh!AreWords

\* A text behind one of its offsets has the same words.
LEMMA RestHasTheWords ==
    ASSUME NEW text \in Line, NEW q \in 1 .. Len(text) + 1,
           NEW rest \in Line, rest = SubSeq(text, q, Len(text)), NEW c \in 1 .. Len(rest) + 1
    PROVE  /\ q + c - 1 \in 1 .. Len(text) + 1
           /\ Sh!Token(rest, c) = Sh!Token(text, q + c - 1)
           /\ Sh!After(rest, c) \in 1 .. Len(rest) + 1
           /\ Sh!After(text, q + c - 1) = q + Sh!After(rest, c) - 1
<1>1. PICK n \in Nat : n = Len(text)
  BY SpacesAre
<1>2. /\ rest \in Line /\ Len(rest) = n - q + 1 /\ n - q + 1 \in Nat
      /\ \A j \in 1 .. n - q + 1 : rest[j] = text[q + j - 1]
  BY <1>1 DEF Line
<1>3. PICK m \in Nat : m = Len(rest) /\ n = q + m - 1
  BY <1>1, <1>2
<1>4. ASSUME NEW j \in 1 .. m + 1
      PROVE  Sh!IsSpace(rest, j) <=> Sh!IsSpace(text, q + j - 1)
  <2>1. j <= m <=> q + j - 1 <= n
    BY <1>1, <1>3
  <2>2. j <= m => rest[j] = text[q + j - 1]
    BY <1>1, <1>2, <1>3
  <2>. QED  BY <1>1, <1>3, <2>1, <2>2 DEF Sh!IsSpace
<1>5. /\ q + c - 1 \in 1 .. n + 1 /\ q \in Nat /\ c \in Nat /\ 1 <= q /\ 1 <= c
      /\ n = q + m - 1 /\ q + m - 1 \in Nat /\ c <= m + 1
  BY <1>1, <1>3
<1>6. PICK b \in c .. m + 1 : /\ b = Sh!Begin(rest, c) /\ ~ Sh!IsSpace(rest, b)
                              /\ \A j \in c .. b - 1 : Sh!IsSpace(rest, j)
  BY <1>2, <1>3, BeginIs
<1>7. PICK x \in q + c - 1 .. n + 1 :
          /\ x = Sh!Begin(text, q + c - 1) /\ ~ Sh!IsSpace(text, x)
          /\ \A j \in q + c - 1 .. x - 1 : Sh!IsSpace(text, j)
  BY <1>1, <1>5, BeginIs
<1>16. b \in Nat /\ c <= b /\ b <= m + 1 /\ x \in Nat /\ q + c - 1 <= x /\ x <= n + 1
  BY <1>5, <1>6, <1>7
<1>8. x = q + b - 1
  <2>1. ASSUME x < q + b - 1 PROVE FALSE
    <3>1. x - q + 1 \in c .. b - 1 /\ x - q + 1 \in 1 .. m + 1 /\ q + (x - q + 1) - 1 = x
      BY <1>5, <1>16, <2>1
    <3>. QED  BY <1>4, <1>6, <1>7, <3>1
  <2>2. ASSUME q + b - 1 < x PROVE FALSE
    <3>1. q + b - 1 \in q + c - 1 .. x - 1 /\ b \in 1 .. m + 1
      BY <1>5, <1>16, <2>2
    <3>. QED  BY <1>4, <1>6, <1>7, <3>1
  <2>. QED  BY <1>5, <1>16, <2>1, <2>2
<1>9. b \in 1 .. m + 1 /\ q + b - 1 \in 1 .. n + 1
  BY <1>5, <1>16
<1>10. PICK e \in b .. m + 1 : /\ e = Sh!End(rest, b) /\ (e > m \/ Sh!IsSpace(rest, e))
                               /\ \A j \in b .. e - 1 : ~ Sh!IsSpace(rest, j)
  BY <1>2, <1>3, <1>9, EndIs
<1>11. PICK y \in q + b - 1 .. n + 1 :
           /\ y = Sh!End(text, q + b - 1) /\ (y > n \/ Sh!IsSpace(text, y))
           /\ \A j \in q + b - 1 .. y - 1 : ~ Sh!IsSpace(text, j)
  BY <1>1, <1>9, EndIs
<1>17. e \in Nat /\ b <= e /\ e <= m + 1 /\ y \in Nat /\ q + b - 1 <= y /\ y <= n + 1
  BY <1>5, <1>10, <1>11, <1>16
<1>12. y = q + e - 1
  <2>1. ASSUME y < q + e - 1 PROVE FALSE
    <3>1. /\ y - q + 1 \in b .. e - 1 /\ y - q + 1 \in 1 .. m + 1 /\ q + (y - q + 1) - 1 = y
          /\ ~ (y > n)
      BY <1>5, <1>16, <1>17, <2>1
    <3>. QED  BY <1>4, <1>10, <1>11, <3>1
  <2>2. ASSUME q + e - 1 < y PROVE FALSE
    <3>1. q + e - 1 \in q + b - 1 .. y - 1 /\ e \in 1 .. m + 1 /\ ~ (e > m)
      BY <1>5, <1>16, <1>17, <2>2
    <3>. QED  BY <1>4, <1>10, <1>11, <3>1
  <2>. QED  BY <1>5, <1>16, <1>17, <2>1, <2>2
<1>13. /\ Sh!Token(rest, c) = SubSeq(rest, b, e - 1)
       /\ Sh!After(rest, c) = IF e > m THEN e ELSE e + 1
       /\ Sh!Token(text, q + c - 1) = SubSeq(text, q + b - 1, q + e - 1 - 1)
       /\ Sh!After(text, q + c - 1) = IF q + e - 1 > n THEN q + e - 1 ELSE q + e - 1 + 1
  <2>1. Sh!Begin(rest, c) = b /\ Sh!End(rest, b) = e /\ Len(rest) = m /\ Len(text) = n
    BY <1>1, <1>3, <1>6, <1>10
  <2>2. Sh!Begin(text, q + c - 1) = q + b - 1 /\ Sh!End(text, q + b - 1) = q + e - 1
    BY <1>7, <1>8, <1>11, <1>12
  <2>3. Sh!Token(rest, c) = SubSeq(rest, b, e - 1)
    BY <2>1, Zenon DEF Sh!Token
  <2>4. Sh!After(rest, c) = IF e > m THEN e ELSE e + 1
    BY <2>1, Zenon DEF Sh!After
  <2>5. Sh!Token(text, q + c - 1) = SubSeq(text, q + b - 1, q + e - 1 - 1)
    BY <2>2 DEF Sh!Token
  <2>6. Sh!After(text, q + c - 1) = IF q + e - 1 > n THEN q + e - 1 ELSE q + e - 1 + 1
    BY <2>1, <2>2, Zenon DEF Sh!After
  <2>. QED  BY <2>3, <2>4, <2>5, <2>6
<1>14. SubSeq(rest, b, e - 1) = SubSeq(text, q + b - 1, q + e - 1 - 1)
  <2>1. /\ e - b \in Nat /\ (e - 1) - b + 1 = e - b
        /\ (q + e - 1 - 1) - (q + b - 1) + 1 = e - b
    BY <1>5, <1>16, <1>17
  <2>2. /\ SubSeq(rest, b, e - 1) \in Line /\ Len(SubSeq(rest, b, e - 1)) = e - b
        /\ \A j \in 1 .. e - b : SubSeq(rest, b, e - 1)[j] = rest[b + j - 1]
    <3>1. b \in 1 .. Len(rest) + 1 /\ e - 1 \in b - 1 .. Len(rest)
      BY <1>3, <1>5, <1>16, <1>17
    <3>4. /\ e - 1 \in Nat /\ b <= e - 1 + 1 /\ e - 1 <= m
      BY <1>5, <1>16, <1>17
    <3>5. rest \in Line /\ e - 1 <= Len(rest)
      BY <1>2, <1>3, <3>4
    <3>2. PICK w \in Line, k \in Nat : w = rest /\ k = e - 1 /\ k <= Len(w) /\ b <= k + 1
      BY <3>4, <3>5
    <3>3. /\ SubSeq(w, b, k) \in Line /\ Len(SubSeq(w, b, k)) = e - b
          /\ \A j \in 1 .. e - b : SubSeq(w, b, k)[j] = w[b + j - 1]
      BY <1>16, <1>17, <3>2 DEF Line
    <3>. QED  BY <3>2, <3>3
  <2>3. /\ SubSeq(text, q + b - 1, q + e - 1 - 1) \in Line
        /\ Len(SubSeq(text, q + b - 1, q + e - 1 - 1)) = e - b
        /\ \A j \in 1 .. e - b : SubSeq(text, q + b - 1, q + e - 1 - 1)[j] = text[q + b - 1 + j - 1]
    <3>1. /\ q + b - 1 \in 1 .. Len(text) + 1
          /\ q + e - 1 - 1 \in q + b - 1 - 1 .. Len(text)
      BY <1>1, <1>5, <1>16, <1>17
    <3>. QED  BY <2>1, <3>1, SubSeqProperties DEF Line
  <2>4. ASSUME NEW j \in 1 .. e - b PROVE rest[b + j - 1] = text[q + b - 1 + j - 1]
    <3>1. b + j - 1 \in 1 .. n - q + 1 /\ q + (b + j - 1) - 1 = q + b - 1 + j - 1
      BY <1>5, <1>16, <1>17
    <3>. QED  BY <1>2, <3>1
  <2>5. PICK u \in Line, v \in Line :
            u = SubSeq(rest, b, e - 1) /\ v = SubSeq(text, q + b - 1, q + e - 1 - 1)
    BY <2>2, <2>3
  <2>6. Len(u) = e - b /\ Len(v) = e - b /\ \A j \in 1 .. e - b : u[j] = v[j]
    BY <2>2, <2>3, <2>4, <2>5
  <2>7. u = v
    BY <2>6, SeqEqual DEF Line
  <2>. QED  BY <2>5, <2>7
<1>15. (e > m <=> q + e - 1 > n) /\ q + e - 1 + 1 = q + (e + 1) - 1
       /\ (IF e > m THEN e ELSE e + 1) \in 1 .. m + 1
  BY <1>5, <1>16, <1>17
<1>18. Sh!After(rest, c) \in 1 .. m + 1
  BY <1>13, <1>15
<1>19. Sh!After(text, q + c - 1) = q + Sh!After(rest, c) - 1
  BY <1>13, <1>15
<1>20. Sh!Token(rest, c) = Sh!Token(text, q + c - 1)
  BY <1>13, <1>14
<1>. QED  BY <1>1, <1>2, <1>3, <1>5, <1>18, <1>19, <1>20

\* The number of words that begin before a place.
LEMMA HowManyWords ==
    ASSUME NEW words \in Seq(Seq(Letter)), NEW text \in Line, NEW p, Sh!AreWords(words, text, p)
    PROVE  /\ IsFiniteSet({first \in Sh!Starts(text) : first < p})
           /\ Cardinality({first \in Sh!Starts(text) : first < p}) = Len(words)
<1>1. PICK l \in Nat, n \in Nat : l = Len(words) /\ n = Len(text)
  BY SpacesAre
<1>2. PICK from \in [1 .. l -> 1 .. n] :
         /\ \A j, k \in 1 .. l : j < k => from[j] < from[k]
         /\ {from[k] : k \in 1 .. l} = {first \in Sh!Starts(text) : first < p}
  BY <1>1 DEF Sh!AreWords
<1>. DEFINE T == {from[k] : k \in 1 .. l}
<1>3. from \in Bijection(1 .. l, T)
  <2>1. from \in [1 .. l -> T]
    BY <1>2
  <2>2. ASSUME NEW j \in 1 .. l, NEW k \in 1 .. l, from[j] = from[k] PROVE j = k
    <3>1. from[j] \in Nat /\ from[k] \in Nat
      BY <1>2
    <3>2. ~ (j < k) /\ ~ (k < j)
      BY <1>2, <2>2, <3>1
    <3>. QED  BY <3>2
  <2>3. from \in Surjection(1 .. l, T)
    BY <2>1 DEF Surjection
  <2>4. from \in Injection(1 .. l, T)
    BY <2>1, <2>2 DEF Injection, IsInjective
  <2>. QED  BY <2>3, <2>4 DEF Bijection
<1>4. IsFiniteSet(1 .. l) /\ Cardinality(1 .. l) = l
  <2>1. Cardinality(1 .. l) = IF 1 > l THEN 0 ELSE l - 1 + 1
    BY FS_Interval
  <2>. QED  BY <2>1, FS_Interval
<1>5. ExistsBijection(1 .. l, T)
  BY <1>3 DEF ExistsBijection
<1>6. IsFiniteSet(T) /\ Cardinality(T) = l
  <2>. HIDE DEF T
  <2>. QED  BY <1>4, <1>5, FS_Bijection
<1>. QED  BY <1>1, <1>2, <1>6

\* When as many words were taken as the text has, all of them were.
LEMMA EveryWord ==
    ASSUME NEW text \in Line, NEW p \in 1 .. Len(text) + 1,
           NEW words \in Seq(Seq(Letter)), Sh!AreWords(words, text, p),
           NEW all \in Seq(Seq(Letter)), Sh!AreWords(all, text, Len(text) + 1),
           Len(words) = Len(all)
    PROVE  Sh!AreWords(words, text, Len(text) + 1)
<1>. DEFINE S(x) == {first \in Sh!Starts(text) : first < x}
<1>1. S(p) \subseteq S(Len(text) + 1)
  BY SpacesAre DEF Sh!Starts
<1>2. S(p) = S(Len(text) + 1)
  <2>1. /\ IsFiniteSet(S(Len(text) + 1))
        /\ Cardinality(S(Len(text) + 1)) = Cardinality(S(p))
    BY HowManyWords
  <2>. HIDE DEF S
  <2>. QED  BY <1>1, <2>1, FS_Subset
<1>. QED  BY <1>2 DEF Sh!AreWords

\* Of a text there are never more words than all.
LEMMA FewerWords ==
    ASSUME NEW text \in Line, NEW p \in 1 .. Len(text) + 1,
           NEW words \in Seq(Seq(Letter)), Sh!AreWords(words, text, p),
           NEW all \in Seq(Seq(Letter)), Sh!AreWords(all, text, Len(text) + 1)
    PROVE  Len(words) <= Len(all)
<1>. DEFINE S(x) == {first \in Sh!Starts(text) : first < x}
<1>1. S(p) \subseteq S(Len(text) + 1)
  BY SpacesAre DEF Sh!Starts
<1>2. /\ IsFiniteSet(S(Len(text) + 1)) /\ Cardinality(S(Len(text) + 1)) = Len(all)
      /\ Cardinality(S(p)) = Len(words)
  BY HowManyWords
<1>3. Cardinality(S(p)) <= Cardinality(S(Len(text) + 1))
  <2>. HIDE DEF S
  <2>. QED  BY <1>1, <1>2, FS_Subset
<1>. QED  BY <1>2, <1>3

-----------------------------------------------------------------------------
(* The steps.                                                              *)

ShellPlaces == {"command", "chdir", "open", "read", "close", "count", "collect", "wait"}

\* Back at the prompt nothing is left of the line.
LEMMA PromptKeeps ==
    ASSUME Sh!ShellAssumption, Sh!Prompt
    PROVE  Sh!Inv'
<1>1. /\ shellAt' = "readline" /\ typed' = <<>> /\ screen' = <<>> /\ buffer' = <<>>
      /\ saveptr' = 1 /\ program' = <<>> /\ copy' = <<>> /\ argc' = 1 /\ argv' = <<>>
  BY DEF Sh!Prompt, Sh!NoWord
<1>2. BufferSize \in Nat /\ 0 < BufferSize
  BY DEF Sh!ShellAssumption
<1>3. Sh!TypeOK'
  <2>1. Len(<<>>) = 0
    OBVIOUS
  <2>. QED  BY <1>1, <1>2, <2>1 DEF Sh!TypeOK
<1>4. Sh!ScreenShowsLine' /\ Sh!ChildGetsTheWords' /\ Sh!RoomInv'
  BY <1>1, <1>2, NoKeys DEF Sh!ScreenShowsLine, Sh!ChildGetsTheWords, Sh!RoomInv
<1>5. Sh!WordInv' /\ Sh!CountInv'
  BY <1>1 DEF Sh!WordInv, Sh!CountInv, Sh!Boundary
<1>. QED  BY <1>3, <1>4, <1>5 DEF Sh!Inv

\* A command works on a line that stays.
LEMMA LineStays ==
    ASSUME Sh!Inv, UNCHANGED Sh!lineVars, shellAt' \in ShellPlaces,
           program' \in Seq(Letter), argv' \in Seq(Seq(Letter)), copy' \in Line, argc' \in Nat,
           saveptr' \in 1 .. Len(buffer) + 1, Sh!Boundary(buffer, saveptr'),
           shellAt' = "command" /\ Sh!Command' = "external" => Sh!AreWords(<<program'>>, buffer, saveptr'),
           shellAt' = "count" => Sh!AreWords(<<program'>>, buffer, saveptr'),
           shellAt' = "collect" => Sh!AreWords(argv', buffer, saveptr'),
           shellAt' \in {"count", "collect"} => Sh!CountInv',
           shellAt' = "wait" =>
               Len(spawned') = argc' /\ Sh!AreWords(spawned', buffer, Len(buffer) + 1)
    PROVE  Sh!Inv'
<1>1. typed' = typed /\ screen' = screen /\ buffer' = buffer /\ Sh!TypeOK
  BY DEF Sh!lineVars, Sh!Inv
<1>2. Sh!TypeOK'
  BY <1>1 DEF Sh!TypeOK, ShellPlaces, Line
<1>3. Sh!ScreenShowsLine' /\ Sh!ChildGetsTheWords' /\ Sh!RoomInv'
  BY <1>1 DEF Sh!ScreenShowsLine, Sh!ChildGetsTheWords, Sh!RoomInv, ShellPlaces
<1>4. Sh!WordInv'
  BY <1>1 DEF Sh!WordInv, ShellPlaces
<1>5. Sh!CountInv'
  BY DEF Sh!CountInv
<1>. QED  BY <1>2, <1>3, <1>4, <1>5 DEF Sh!Inv

\* What a key leaves of the line, by what the terminal shows.
LEMMA Typed ==
    ASSUME Sh!ShellAssumption, Sh!Inv, NEW key \in Letter \cup {Space, DeleteKey, Newline},
           Sh!Key(key)
    PROVE  /\ typed' \in Seq(Letter \cup {Space, DeleteKey, Newline})
           /\ Sh!Edited(typed') = Pressed(buffer, key)
           /\ buffer = screen /\ shellAt = "readline" /\ saveptr = 1
<1>1. /\ shellAt = "readline" /\ typed' = Append(typed, key)
      /\ typed \in Seq(Letter \cup {Space, DeleteKey, Newline})
  BY DEF Sh!Key, Sh!Inv, Sh!TypeOK
<1>. QED  BY <1>1, OneKey DEF Sh!Inv, Sh!ScreenShowsLine, Sh!WordInv

\* The buffer and the screen change alike.
LEMMA KeyKeeps ==
    ASSUME Sh!ShellAssumption, Sh!Inv, NEW key \in Letter \cup {Space, DeleteKey, Newline},
           Sh!Key(key),
           buffer' \in Line, Len(buffer') <= BufferSize, screen' = buffer',
           shellAt' = "readline" => buffer' = Pressed(buffer, key) /\ Len(buffer') < BufferSize,
           shellAt' \in {"readline", "aborted", "parse"}, UNCHANGED <<Sh!wordVars, spawned>>
    PROVE  Sh!Inv'
<1>1. /\ typed' \in Seq(Letter \cup {Space, DeleteKey, Newline})
      /\ Sh!Edited(typed') = Pressed(buffer, key)
      /\ saveptr = 1
  BY Typed
<1>2. saveptr' = saveptr /\ program' = program /\ copy' = copy /\ argc' = argc /\ argv' = argv
  BY DEF Sh!wordVars
<1>3. Sh!TypeOK'
  BY <1>1, <1>2 DEF Sh!Inv, Sh!TypeOK, Line
<1>4. Sh!ScreenShowsLine' /\ Sh!ChildGetsTheWords' /\ Sh!RoomInv'
  BY <1>1, <1>2 DEF Sh!ScreenShowsLine, Sh!ChildGetsTheWords, Sh!RoomInv
<1>5. Sh!WordInv'
  <2>1. Len(buffer') \in Nat
    BY DEF Line
  <2>. QED  BY <1>1, <1>2, <2>1 DEF Sh!WordInv, Sh!Boundary
<1>6. Sh!CountInv'
  BY DEF Sh!CountInv
<1>. QED  BY <1>3, <1>4, <1>5, <1>6 DEF Sh!Inv

\* The buffer has room, and is shorter without its last character.
LEMMA EditedLine ==
    ASSUME Sh!ShellAssumption, Sh!Inv
    PROVE  /\ buffer \in Line /\ Len(buffer) \in Nat /\ BufferSize \in Nat
           /\ Len(buffer) <= BufferSize
           /\ shellAt = "readline" => Len(buffer) < BufferSize
           /\ buffer # <<>> => /\ Sh!Front(buffer) \in Line
                               /\ Len(Sh!Front(buffer)) < Len(buffer)
                               /\ Len(Sh!Front(buffer)) \in Nat
BY DEF Sh!Inv, Sh!TypeOK, Sh!RoomInv, Sh!ShellAssumption, Sh!Front, Line

\* A DeleteKey takes the same character from the buffer and from the screen.
LEMMA EraseKeeps ==
    ASSUME Sh!ShellAssumption, Sh!Inv, Sh!Erase \/ Sh!EraseNothing
    PROVE  Sh!Inv'
<1>1. /\ Sh!Key(DeleteKey) /\ shellAt' = shellAt /\ shellAt = "readline" /\ buffer = screen
      /\ UNCHANGED <<Sh!wordVars, spawned>>
      /\ screen' = buffer' /\ buffer' = Pressed(buffer, DeleteKey)
      /\ buffer' = IF buffer = <<>> THEN buffer ELSE Sh!Front(buffer)
  BY Typed DEF Sh!Erase, Sh!EraseNothing, Pressed
<1>2. buffer' \in Line /\ Len(buffer') < BufferSize /\ Len(buffer') <= BufferSize
  BY <1>1, EditedLine
<1>. QED  BY <1>1, <1>2, KeyKeeps

\* A character is added to both, or readline() stops when the buffer is full.
LEMMA TypeCharacterKeeps ==
    ASSUME Sh!ShellAssumption, Sh!Inv, NEW ch \in Letter \cup {Space}, Sh!TypeCharacter(ch)
    PROVE  Sh!Inv'
<1>1. /\ Sh!Key(ch) /\ shellAt = "readline" /\ buffer = screen
      /\ buffer' = Append(buffer, ch) /\ screen' = Append(screen, ch)
      /\ shellAt' = IF Len(buffer) + 1 = BufferSize THEN "aborted" ELSE "readline"
      /\ UNCHANGED <<Sh!wordVars, spawned>> /\ ch # DeleteKey
  BY Typed DEF Sh!TypeCharacter, Sh!ShellAssumption
<1>2. buffer' = Pressed(buffer, ch)
  BY <1>1 DEF Pressed
<1>3. /\ buffer' \in Line /\ Len(buffer') <= BufferSize
      /\ shellAt' = "readline" => Len(buffer') < BufferSize
  BY <1>1, EditedLine DEF Line
<1>. QED  BY <1>1, <1>2, <1>3, KeyKeeps

\* The line is complete.
LEMMA EnterKeeps ==
    ASSUME Sh!ShellAssumption, Sh!Inv, Sh!Enter
    PROVE  Sh!Inv'
<1>1. /\ Sh!Key(Newline) /\ buffer' = buffer /\ screen' = screen /\ buffer = screen
      /\ shellAt' \in {"parse", "aborted"} /\ UNCHANGED <<Sh!wordVars, spawned>>
  BY Typed DEF Sh!Enter
<1>. QED  BY <1>1, EditedLine, KeyKeeps

\* What the commands know of the words.
LEMMA TakenWords ==
    ASSUME Sh!Inv
    PROVE  /\ buffer \in Line /\ saveptr \in 1 .. Len(buffer) + 1 /\ Sh!Boundary(buffer, saveptr)
           /\ program \in Seq(Letter) /\ argv \in Seq(Seq(Letter))
           /\ copy \in Line /\ argc \in Nat
           /\ shellAt \in {"readline", "aborted", "parse"} => saveptr = 1
BY DEF Sh!Inv, Sh!TypeOK, Sh!WordInv, Line

\* strtok_r() from where it stopped.
LEMMA Scanned ==
    ASSUME Sh!Inv
    PROVE  LET next == Sh!After(buffer, saveptr)
           IN  /\ next \in 1 .. Len(buffer) + 1 /\ Sh!Boundary(buffer, next)
               /\ Sh!Token(buffer, saveptr) \in Seq(Letter)
               /\ Sh!After(buffer, next) \in 1 .. Len(buffer) + 1
               /\ Sh!Boundary(buffer, Sh!After(buffer, next))
BY TakenWords, NextWord

\* The first word of the line is the program.
LEMMA ParseKeeps ==
    ASSUME Sh!ShellAssumption, Sh!Inv, Sh!Parse
    PROVE  Sh!Inv'
<1>1. shellAt = "parse" /\ saveptr = 1
  BY TakenWords DEF Sh!Parse
<1>2. CASE Sh!Token(buffer, saveptr) = Sh!NoWord
  BY <1>2, PromptKeeps DEF Sh!Parse
<1>3. CASE Sh!Token(buffer, saveptr) # Sh!NoWord
  <2>1. /\ program' = Sh!Token(buffer, saveptr) /\ saveptr' = Sh!After(buffer, saveptr)
        /\ shellAt' = "command"
        /\ UNCHANGED Sh!lineVars /\ argv' = argv /\ copy' = copy /\ argc' = argc
    BY <1>3 DEF Sh!Parse
  <2>2. Sh!AreWords(Append(<<>>, Sh!Token(buffer, saveptr)), buffer, Sh!After(buffer, saveptr))
    <3>1. Sh!AreWords(<<>>, buffer, saveptr)
      BY <1>1, NoWords, TakenWords
    <3>2. saveptr \in 1 .. Len(buffer) + 1 /\ Sh!Boundary(buffer, saveptr) /\ <<>> \in Seq(Seq(Letter))
      BY TakenWords
    <3>. QED  BY <1>3, <3>1, <3>2, OneWord, TakenWords
  <2>3. Append(<<>>, Sh!Token(buffer, saveptr)) = <<program'>>
    BY <2>1
  <2>. QED  BY <2>1, <2>2, <2>3, Scanned, TakenWords, LineStays DEF ShellPlaces
<1>. QED  BY <1>2, <1>3

\* echo goes from word to word.
LEMMA EchoKeeps ==
    ASSUME Sh!ShellAssumption, Sh!Inv, Sh!Echo
    PROVE  Sh!Inv'
<1>1. /\ shellAt = "command" /\ shellAt' = shellAt /\ Sh!Command = "echo"
      /\ saveptr' = Sh!After(buffer, saveptr)
      /\ UNCHANGED Sh!lineVars /\ program' = program /\ argv' = argv
      /\ copy' = copy /\ argc' = argc /\ Sh!Command' = Sh!Command
  BY DEF Sh!Echo, Sh!Command
<1>. QED  BY <1>1, Scanned, TakenWords, LineStays DEF ShellPlaces

\* A built-in command takes its operand or gives up.
LEMMA OperandKeeps ==
    ASSUME Sh!ShellAssumption, Sh!Inv, Sh!Operand
    PROVE  Sh!Inv'
<1>1. CASE Sh!Prompt
  BY <1>1, PromptKeeps
<1>2. CASE ~ Sh!Prompt
  <2>1. /\ shellAt' \in {"chdir", "open"}
        /\ saveptr' = Sh!After(buffer, Sh!After(buffer, saveptr))
        /\ UNCHANGED Sh!lineVars /\ program' = program /\ argv' = argv
        /\ copy' = copy /\ argc' = argc
    BY <1>2 DEF Sh!Operand
  <2>. QED  BY <2>1, Scanned, TakenWords, LineStays DEF ShellPlaces
<1>. QED  BY <1>1, <1>2

\* The steps that lead back to the prompt.
LEMMA ReturnKeeps ==
    ASSUME Sh!ShellAssumption,
           \/ Sh!EchoEnds \/ Sh!ChangeDirectory \/ Sh!OpenFails \/ Sh!ReadFails \/ Sh!Close
           \/ Sh!NotFound \/ Sh!Wait
    PROVE  Sh!Inv'
BY PromptKeeps DEF Sh!EchoEnds, Sh!ChangeDirectory, Sh!OpenFails, Sh!ReadFails, Sh!Close,
                   Sh!NotFound, Sh!Wait

\* The words are left alone while a file is read.
LEMMA FileKeeps ==
    ASSUME Sh!ShellAssumption, Sh!Inv, Sh!Open \/ Sh!ReadEnds
    PROVE  Sh!Inv'
<1>1. /\ shellAt' \in {"read", "close"} /\ UNCHANGED Sh!lineVars
      /\ saveptr' = saveptr /\ program' = program /\ argv' = argv /\ copy' = copy /\ argc' = argc
  BY DEF Sh!Open, Sh!ReadEnds, Sh!wordVars
<1>. QED  BY <1>1, TakenWords, LineStays DEF ShellPlaces

\* The copy holds the words that are still to be taken from the line.
LEMMA DuplicateKeeps ==
    ASSUME Sh!ShellAssumption, Sh!Inv, Sh!Duplicate
    PROVE  Sh!Inv'
<1>1. /\ copy' = SubSeq(buffer, saveptr, Len(buffer)) /\ saveptr_clone' = 1 /\ argc' = 1
      /\ shellAt' = "count" /\ UNCHANGED Sh!lineVars /\ buffer' = buffer
      /\ saveptr' = saveptr /\ program' = program /\ argv' = argv
      /\ Sh!AreWords(<<program>>, buffer, saveptr)
  BY DEF Sh!Duplicate, Sh!Inv, Sh!WordInv, Sh!lineVars
<1>2. copy' \in Line /\ 1 \in 1 .. Len(copy') + 1
  BY <1>1, TakenWords DEF Line
<1>3. Sh!CountInv'
  <2>1. /\ <<program>> \in Seq(Seq(Letter)) /\ Len(<<program>>) = 1
        /\ saveptr + 1 - 1 = saveptr
    BY TakenWords DEF Line
  <2>2. \E words \in Seq(Seq(Letter)) :
            Len(words) = argc' /\ Sh!AreWords(words, buffer, saveptr + 1 - 1)
    BY <1>1, <2>1
  <2>3. Sh!Boundary(buffer, saveptr + 1 - 1)
    BY <2>1, TakenWords
  <2>. QED  BY <1>1, <1>2, <2>2, <2>3 DEF Sh!CountInv
<1>. QED  BY <1>1, <1>2, <1>3, TakenWords, LineStays DEF ShellPlaces

\* What CountInv says while the words of the copy are counted.
LEMMA Counting ==
    ASSUME Sh!Inv, shellAt = "count"
    PROVE  /\ copy = SubSeq(buffer, saveptr, Len(buffer)) /\ saveptr_clone \in 1 .. Len(copy) + 1
           /\ saveptr + saveptr_clone - 1 \in 1 .. Len(buffer) + 1
           /\ Sh!Boundary(buffer, saveptr + saveptr_clone - 1)
           /\ Sh!Token(copy, saveptr_clone) = Sh!Token(buffer, saveptr + saveptr_clone - 1)
           /\ Sh!After(copy, saveptr_clone) \in 1 .. Len(copy) + 1
           /\ Sh!After(buffer, saveptr + saveptr_clone - 1) = saveptr + Sh!After(copy, saveptr_clone) - 1
           /\ Sh!AreWords(<<program>>, buffer, saveptr)
<1>1. /\ copy = SubSeq(buffer, saveptr, Len(buffer)) /\ saveptr_clone \in 1 .. Len(copy) + 1
      /\ Sh!Boundary(buffer, saveptr + saveptr_clone - 1)
      /\ Sh!AreWords(<<program>>, buffer, saveptr)
  BY DEF Sh!Inv, Sh!CountInv, Sh!WordInv
<1>2. buffer \in Line /\ saveptr \in 1 .. Len(buffer) + 1
  BY TakenWords
<1>3. /\ saveptr + saveptr_clone - 1 \in 1 .. Len(buffer) + 1
      /\ Sh!Token(copy, saveptr_clone) = Sh!Token(buffer, saveptr + saveptr_clone - 1)
      /\ Sh!After(copy, saveptr_clone) \in 1 .. Len(copy) + 1
      /\ Sh!After(buffer, saveptr + saveptr_clone - 1) = saveptr + Sh!After(copy, saveptr_clone) - 1
  <2>1. PICK q \in 1 .. Len(buffer) + 1, c \in 1 .. Len(copy) + 1 : q = saveptr /\ c = saveptr_clone
    BY <1>1, <1>2
  <2>3. copy \in Line /\ copy = SubSeq(buffer, q, Len(buffer))
    BY <1>1, <2>1, TakenWords
  <2>2. /\ q + c - 1 \in 1 .. Len(buffer) + 1
        /\ Sh!Token(copy, c) = Sh!Token(buffer, q + c - 1)
        /\ Sh!After(copy, c) \in 1 .. Len(copy) + 1
        /\ Sh!After(buffer, q + c - 1) = q + Sh!After(copy, c) - 1
    BY <1>2, <2>3, RestHasTheWords
  <2>. QED  BY <2>1, <2>2
<1>. QED  BY <1>1, <1>3

\* A word of the copy is the next word of the line.
LEMMA CountKeeps ==
    ASSUME Sh!ShellAssumption, Sh!Inv, Sh!Count
    PROVE  Sh!Inv'
<1>1. /\ shellAt = "count" /\ shellAt' = "count" /\ Sh!Token(copy, saveptr_clone) # Sh!NoWord
      /\ saveptr_clone' = Sh!After(copy, saveptr_clone) /\ argc' = argc + 1
      /\ UNCHANGED Sh!lineVars /\ buffer' = buffer /\ saveptr' = saveptr /\ program' = program
      /\ argv' = argv /\ copy' = copy
  BY DEF Sh!Count, Sh!lineVars
<1>2. PICK p \in 1 .. Len(buffer) + 1 : p = saveptr + saveptr_clone - 1
  BY <1>1, Counting
<1>3. PICK words \in Seq(Seq(Letter)) : Len(words) = argc /\ Sh!AreWords(words, buffer, p)
  BY <1>1, <1>2 DEF Sh!Inv, Sh!CountInv
<1>4. /\ Sh!AreWords(Append(words, Sh!Token(buffer, p)), buffer, Sh!After(buffer, p))
      /\ Append(words, Sh!Token(buffer, p)) \in Seq(Seq(Letter))
      /\ Len(Append(words, Sh!Token(buffer, p))) = argc'
  <2>1. Sh!Boundary(buffer, p) /\ Sh!Token(buffer, p) # Sh!NoWord /\ Sh!Token(buffer, p) \in Seq(Letter)
    BY <1>1, <1>2, Counting, NextWord, TakenWords
  <2>. QED  BY <1>1, <1>2, <1>3, <2>1, OneWord, TakenWords
<1>5. Sh!After(buffer, p) = saveptr + saveptr_clone' - 1
  BY <1>1, <1>2, Counting
<1>6. Sh!Boundary(buffer, Sh!After(buffer, p))
  BY <1>1, <1>2, Counting, NextWord, TakenWords
<1>7. Sh!CountInv'
  <2>1. \E w \in Seq(Seq(Letter)) :
            Len(w) = argc' /\ Sh!AreWords(w, buffer, saveptr + saveptr_clone' - 1)
    BY <1>4, <1>5
  <2>. QED  BY <1>1, <1>5, <1>6, <2>1, Counting DEF Sh!CountInv
<1>. QED  BY <1>1, <1>7, Counting, TakenWords, LineStays DEF ShellPlaces

\* The copy has no further word, and so all words of the line are counted.
LEMMA AllocateKeeps ==
    ASSUME Sh!ShellAssumption, Sh!Inv, Sh!Allocate
    PROVE  Sh!Inv'
<1>1. /\ shellAt = "count" /\ shellAt' = "collect" /\ Sh!Token(copy, saveptr_clone) = Sh!NoWord
      /\ argv' = <<program>> /\ UNCHANGED Sh!lineVars /\ buffer' = buffer /\ saveptr' = saveptr
      /\ program' = program /\ copy' = copy /\ argc' = argc
  BY DEF Sh!Allocate, Sh!lineVars
<1>2. PICK p \in 1 .. Len(buffer) + 1 : p = saveptr + saveptr_clone - 1
  BY <1>1, Counting
<1>3. PICK words \in Seq(Seq(Letter)) : Len(words) = argc /\ Sh!AreWords(words, buffer, p)
  BY <1>1, <1>2 DEF Sh!Inv, Sh!CountInv
<1>4. Sh!AreWords(words, buffer, Len(buffer) + 1)
  BY <1>1, <1>2, <1>3, AllWords, Counting, TakenWords
<1>5. Sh!AreWords(argv', buffer, saveptr) /\ argv' \in Seq(Seq(Letter)) /\ Len(argv') = 1
  BY <1>1, Counting, TakenWords
<1>6. Len(argv') <= argc
  BY <1>3, <1>4, <1>5, FewerWords, TakenWords
<1>7. Sh!CountInv'
  BY <1>1, <1>3, <1>4, <1>6 DEF Sh!CountInv
<1>. QED  BY <1>1, <1>5, <1>7, TakenWords, LineStays DEF ShellPlaces

\* What CountInv says while the words of the line are taken.
LEMMA Collecting ==
    ASSUME Sh!Inv, shellAt = "collect"
    PROVE  /\ Sh!AreWords(argv, buffer, saveptr) /\ Len(argv) <= argc /\ Len(argv) \in Nat
           /\ \E words \in Seq(Seq(Letter)) :
                 Len(words) = argc /\ Sh!AreWords(words, buffer, Len(buffer) + 1)
BY TakenWords DEF Sh!Inv, Sh!WordInv, Sh!CountInv

\* Each of the words that were counted is there to be taken.
LEMMA CollectKeeps ==
    ASSUME Sh!ShellAssumption, Sh!Inv, Sh!Collect
    PROVE  Sh!Inv'
<1>1. /\ shellAt = "collect" /\ shellAt' = "collect" /\ Len(argv) < argc
      /\ argv' = Append(argv, Sh!Token(buffer, saveptr)) /\ saveptr' = Sh!After(buffer, saveptr)
      /\ UNCHANGED Sh!lineVars /\ buffer' = buffer /\ program' = program
      /\ copy' = copy /\ argc' = argc
  BY DEF Sh!Collect, Sh!lineVars
<1>2. PICK all \in Seq(Seq(Letter)) :
          Len(all) = argc /\ Sh!AreWords(all, buffer, Len(buffer) + 1)
  BY <1>1, Collecting
<1>3. Sh!Token(buffer, saveptr) # Sh!NoWord
  <2>1. SUFFICES ASSUME Sh!Token(buffer, saveptr) = Sh!NoWord PROVE FALSE
    OBVIOUS
  <2>2. Sh!AreWords(argv, buffer, Len(buffer) + 1)
    BY <1>1, <2>1, AllWords, Collecting, TakenWords
  <2>3. Len(all) <= Len(argv)
    <3>1. buffer \in Line /\ argv \in Seq(Seq(Letter)) /\ Len(buffer) + 1 \in 1 .. Len(buffer) + 1
      BY TakenWords, SpacesAre
    <3>. QED  BY <1>2, <2>2, <3>1, FewerWords
  <2>. QED  BY <1>1, <1>2, <2>3, Collecting, TakenWords
<1>4. /\ Sh!AreWords(argv', buffer, saveptr') /\ argv' \in Seq(Seq(Letter))
      /\ Len(argv') <= argc
  BY <1>1, <1>3, Collecting, OneWord, Scanned, TakenWords
<1>5. Sh!CountInv'
  BY <1>1, <1>2, <1>4 DEF Sh!CountInv
<1>. QED  BY <1>1, <1>4, <1>5, Scanned, TakenWords, LineStays DEF ShellPlaces

\* posix_spawn() gets all of the arguments.
LEMMA SpawnKeeps ==
    ASSUME Sh!ShellAssumption, Sh!Inv, Sh!Spawn
    PROVE  Sh!Inv'
<1>1. /\ shellAt = "collect" /\ shellAt' = "wait" /\ spawned' = argv /\ Len(argv) = argc
      /\ UNCHANGED Sh!lineVars /\ saveptr' = saveptr /\ program' = program /\ argv' = argv
      /\ copy' = copy /\ argc' = argc
  BY DEF Sh!Spawn, Sh!wordVars
<1>2. Sh!AreWords(spawned', buffer, Len(buffer) + 1)
  BY <1>1, Collecting, EveryWord, TakenWords
<1>. QED  BY <1>1, <1>2, TakenWords, LineStays DEF ShellPlaces

-----------------------------------------------------------------------------
\* The invariant holds at the first prompt.
LEMMA ShellInitKeeps == Sh!ShellAssumption /\ Sh!Init => Sh!Inv
<1>. SUFFICES ASSUME Sh!ShellAssumption, Sh!Init PROVE Sh!Inv
  OBVIOUS
<1>1. /\ shellAt = "readline" /\ typed = <<>> /\ screen = <<>> /\ buffer = <<>>
      /\ saveptr = 1 /\ program = <<>> /\ copy = <<>> /\ argc = 1 /\ argv = <<>>
  BY DEF Sh!Init, Sh!NoWord
<1>2. BufferSize \in Nat /\ 0 < BufferSize
  BY DEF Sh!ShellAssumption
<1>3. Sh!TypeOK
  <2>1. Len(<<>>) = 0
    OBVIOUS
  <2>. QED  BY <1>1, <1>2, <2>1 DEF Sh!TypeOK
<1>4. Sh!ScreenShowsLine /\ Sh!ChildGetsTheWords /\ Sh!RoomInv
  BY <1>1, <1>2, NoKeys DEF Sh!ScreenShowsLine, Sh!ChildGetsTheWords, Sh!RoomInv
<1>5. Sh!WordInv /\ Sh!CountInv
  BY <1>1 DEF Sh!WordInv, Sh!CountInv, Sh!Boundary
<1>. QED  BY <1>3, <1>4, <1>5 DEF Sh!Inv

\* It is about the variables of the shell only.
LEMMA ShellStutterKeeps ==
    ASSUME Sh!Inv, UNCHANGED Sh!vars
    PROVE  Sh!Inv'
<1>1. /\ shellAt' = shellAt /\ typed' = typed /\ screen' = screen /\ buffer' = buffer
      /\ saveptr' = saveptr /\ program' = program /\ copy' = copy
      /\ saveptr_clone' = saveptr_clone /\ argc' = argc /\ argv' = argv /\ spawned' = spawned
  BY DEF Sh!vars, Sh!lineVars, Sh!wordVars
<1>2. Sh!TypeOK' /\ Sh!ScreenShowsLine' /\ Sh!ChildGetsTheWords' /\ Sh!RoomInv'
  BY <1>1 DEF Sh!Inv, Sh!TypeOK, Sh!ScreenShowsLine, Sh!ChildGetsTheWords, Sh!RoomInv
<1>3. Sh!WordInv'
  BY <1>1 DEF Sh!Inv, Sh!WordInv, Sh!Command
<1>4. Sh!CountInv'
  BY <1>1 DEF Sh!Inv, Sh!CountInv
<1>. QED  BY <1>2, <1>3, <1>4 DEF Sh!Inv

\* Every step of the shell keeps it.
LEMMA ShellNextKeeps == Sh!ShellAssumption /\ Sh!Inv /\ [Sh!Next]_Sh!vars => Sh!Inv'
<1>. SUFFICES ASSUME Sh!ShellAssumption, Sh!Inv, [Sh!Next]_Sh!vars PROVE Sh!Inv'
  OBVIOUS
<1>1. CASE Sh!Erase \/ Sh!EraseNothing
  BY <1>1, EraseKeeps
<1>2. CASE Sh!Enter
  BY <1>2, EnterKeeps
<1>3. ASSUME NEW ch \in Letter \cup {Space}, Sh!TypeCharacter(ch) PROVE Sh!Inv'
  BY <1>3, TypeCharacterKeeps
<1>4. CASE Sh!Parse
  BY <1>4, ParseKeeps
<1>5. CASE Sh!Echo
  BY <1>5, EchoKeeps
<1>6. CASE Sh!Operand
  BY <1>6, OperandKeeps
<1>7. CASE \/ Sh!EchoEnds \/ Sh!ChangeDirectory \/ Sh!OpenFails \/ Sh!ReadFails \/ Sh!Close
           \/ Sh!NotFound \/ Sh!Wait
  BY <1>7, ReturnKeeps
<1>8. CASE Sh!Open \/ Sh!ReadEnds
  BY <1>8, FileKeeps
<1>9. CASE Sh!Duplicate
  BY <1>9, DuplicateKeeps
<1>10. CASE Sh!Count
  BY <1>10, CountKeeps
<1>11. CASE Sh!Allocate
  BY <1>11, AllocateKeeps
<1>12. CASE Sh!Collect
  BY <1>12, CollectKeeps
<1>13. CASE Sh!Spawn
  BY <1>13, SpawnKeeps
<1>14. CASE UNCHANGED Sh!vars
  BY <1>14, ShellStutterKeeps
<1>. QED  BY <1>1, <1>2, <1>3, <1>4, <1>5, <1>6, <1>7, <1>8, <1>9, <1>10, <1>11, <1>12,
              <1>13, <1>14 DEF Sh!Next

\* What was taken from a line are its first words, strtok_r() stands where the next one may
\* begin, and what is counted on the copy is what is left to be taken (readline.c:17-43,
\* Shell.c:169-200).
THEOREM ShellInvariance ==
    ASSUME Sh!ShellAssumption
    PROVE  Sh!Spec => []Sh!Inv
<1>. QED  BY ShellInitKeeps, ShellNextKeeps, PTL DEF Sh!Spec

\* The line that is edited is what the terminal shows and what the keys say, for any keys and any
\* size of the buffer (readline.c:17-43).
THEOREM LineIsShown ==
    ASSUME Sh!ShellAssumption
    PROVE  Sh!Spec => []ScreenShowsLine
<1>1. Sh!Inv => ScreenShowsLine
  BY DEF Sh!Inv, ScreenShowsLine, Sh!ScreenShowsLine
<1>. QED  BY <1>1, ShellInvariance, PTL

\* The arguments of a program are the words of the line, all of them and in their order: the walk
\* over the copy counts as many as the walk over the line then takes (Shell.c:190-200).
THEOREM ChildGetsItsWords ==
    ASSUME Sh!ShellAssumption
    PROVE  Sh!Spec => []ChildGetsTheWords
<1>1. Sh!Inv => ChildGetsTheWords
  BY DEF Sh!Inv, ChildGetsTheWords, Sh!ChildGetsTheWords
<1>. QED  BY <1>1, ShellInvariance, PTL

-----------------------------------------------------------------------------
(* memmove(): the loop has placed the bytes that it has been at, and none  *)
(* that it has not read yet.                                               *)

\* An address is that of one byte of one word.
LEMMA AddressPlaces ==
    ASSUME Move!MemmoveAssumption, NEW a \in Move!Address
    PROVE  /\ a \in Nat /\ a \div 4 \in 0 .. WordCount - 1 /\ a % 4 \in 0 .. 3
           /\ a = 4 * (a \div 4) + (a % 4)
<1>1. a \in Nat /\ WordCount \in Nat /\ a < 4 * WordCount
  BY DEF Move!Address, Move!MemmoveAssumption
<1>2. PICK q \in Nat, r \in 0 .. 3 : a = 4 * q + r /\ q = a \div 4 /\ r = a % 4
  BY <1>1, SMT
<1>3. q < WordCount
  BY <1>1, <1>2
<1>4. q \in 0 .. WordCount - 1
  BY <1>1, <1>2, <1>3
<1>. QED  BY <1>1, <1>2, <1>4

\* The byte that is written changes, and no other one.
LEMMA ByteWritten ==
    ASSUME Move!MemmoveAssumption, Move!TypeOK, NEW b \in Move!Address, NEW v \in Move!Address,
           memory' = Move!WriteU8(b, v)
    PROVE  /\ memory' \in [0 .. WordCount - 1 -> [0 .. 3 -> Move!Address]]
           /\ \A a \in Move!Address : Move!ReadU8(a)' = IF a = b THEN v ELSE Move!ReadU8(a)
<1>1. /\ b \div 4 \in 0 .. WordCount - 1 /\ b % 4 \in 0 .. 3
      /\ memory \in [0 .. WordCount - 1 -> [0 .. 3 -> Move!Address]]
  BY AddressPlaces DEF Move!TypeOK
<1>2. memory' = [memory EXCEPT ![b \div 4] = [memory[b \div 4] EXCEPT ![b % 4] = v]]
  BY DEF Move!WriteU8
<1>3. [memory[b \div 4] EXCEPT ![b % 4] = v] \in [0 .. 3 -> Move!Address]
  BY <1>1
<1>4. memory' \in [0 .. WordCount - 1 -> [0 .. 3 -> Move!Address]]
  BY <1>1, <1>2, <1>3
<1>5. ASSUME NEW a \in Move!Address PROVE Move!ReadU8(a)' = IF a = b THEN v ELSE Move!ReadU8(a)
  <2>1. PICK p \in 0 .. WordCount - 1, x \in 0 .. 3 : p = a \div 4 /\ x = a % 4 /\ a = 4 * p + x
    <3>1. a \div 4 \in 0 .. WordCount - 1 /\ a % 4 \in 0 .. 3 /\ a = 4 * (a \div 4) + (a % 4)
      BY AddressPlaces
    <3>. QED  BY <3>1
  <2>2. PICK q \in 0 .. WordCount - 1, y \in 0 .. 3 : q = b \div 4 /\ y = b % 4 /\ b = 4 * q + y
    <3>1. b \div 4 \in 0 .. WordCount - 1 /\ b % 4 \in 0 .. 3 /\ b = 4 * (b \div 4) + (b % 4)
      BY AddressPlaces
    <3>. QED  BY <3>1
  <2>3. Move!ReadU8(a)' = memory'[p][x] /\ Move!ReadU8(a) = memory[p][x]
    BY <2>1 DEF Move!ReadU8
  <2>4. memory' = [memory EXCEPT ![q] = [memory[q] EXCEPT ![y] = v]]
    BY <1>2, <2>2
  <2>5. a = b <=> p = q /\ x = y
    BY <2>1, <2>2 DEF Move!MemmoveAssumption
  <2>. QED  BY <1>1, <2>3, <2>4, <2>5
<1>. QED  BY <1>4, <1>5

\* The byte that the loop is at, as a number.
LEMMA LoopPlace ==
    ASSUME Move!MemmoveAssumption, Move!TypeOK, Move!More
    PROVE  /\ Move!Index \in 0 .. count - 1 /\ source + Move!Index \in Move!Address
           /\ destination + Move!Index \in Move!Address
           /\ source + Move!Index # Move!NoByte
           /\ ~ Move!Done(Move!Index)
           /\ \A k \in 0 .. count - 1 : source + Move!Index = destination + k => ~ Move!Done(k)
<1>1. /\ destination \in Nat /\ source \in Nat /\ count \in Nat /\ moveIndex \in Nat
      /\ moveIndex < count
      /\ WordCount \in Nat
      /\ destination + count <= 4 * WordCount /\ source + count <= 4 * WordCount
  BY DEF Move!TypeOK, Move!More, Move!Address, Move!MemmoveAssumption
<1>2. Move!Index = IF destination <= source THEN moveIndex ELSE count - moveIndex - 1
  BY DEF Move!Index, Move!Forward
<1>. QED  BY <1>1, <1>2 DEF Move!Address, Move!NoByte, Move!Done, Move!Forward

\* The byte that is read has not been overwritten.
LEMMA MoveReadKeeps ==
    ASSUME Move!MemmoveAssumption, Move!Inv, Move!Read
    PROVE  Move!Inv'
<1>1. Move!More /\ byte' = Move!ReadU8(source + Move!Index) /\ memory' = memory /\ destination' = destination
      /\ source' = source /\ count' = count /\ moveIndex' = moveIndex /\ Move!TypeOK
  BY DEF Move!Read, Move!Inv
<1>2. Move!ReadU8(source + Move!Index) = source + Move!Index
  <2>1. source + Move!Index \in Move!Address /\ source \in Nat /\ destination \in Nat /\ count \in Nat
        /\ Move!Index \in Int /\ \A k \in 0 .. count - 1 : source + Move!Index = destination + k => ~ Move!Done(k)
    BY <1>1, LoopPlace DEF Move!TypeOK, Move!Address
  <2>2. ASSUME source + Move!Index \in destination .. destination + count - 1
        PROVE  ~ Move!Done(source + Move!Index - destination)
    <3>1. source + Move!Index - destination \in 0 .. count - 1
          /\ source + Move!Index = destination + (source + Move!Index - destination)
      BY <2>1, <2>2
    <3>. QED  BY <2>1, <3>1
  <2>. QED  BY <2>1, <2>2 DEF Move!Inv, Move!LoopInv
<1>3. Move!TypeOK'
  BY <1>1 DEF Move!TypeOK
<1>4. Move!LoopInv'
  BY <1>1, <1>2
     DEF Move!Inv, Move!LoopInv, Move!Index, Move!Forward, Move!More, Move!Done, Move!ReadU8,
         Move!NoByte
<1>. QED  BY <1>3, <1>4 DEF Move!Inv

\* The byte that is written is the one that belongs there.
LEMMA MoveWriteKeeps ==
    ASSUME Move!MemmoveAssumption, Move!Inv, Move!Write
    PROVE  Move!Inv'
<1>1. /\ byte # Move!NoByte /\ memory' = Move!WriteU8(destination + Move!Index, byte)
      /\ moveIndex' = moveIndex + 1
      /\ byte' = Move!NoByte /\ destination' = destination /\ source' = source /\ count' = count
      /\ moveIndex < count /\ byte = source + Move!Index /\ Move!TypeOK
  BY DEF Move!Write, Move!Inv, Move!LoopInv
<1>2. Move!More
  BY <1>1 DEF Move!More
<1>3. /\ Move!Index \in 0 .. count - 1 /\ source + Move!Index \in Move!Address
      /\ destination + Move!Index \in Move!Address
  BY <1>1, <1>2, LoopPlace
<1>4. /\ memory' \in [0 .. WordCount - 1 -> [0 .. 3 -> Move!Address]]
      /\ \A a \in Move!Address :
            Move!ReadU8(a)' = IF a = destination + Move!Index THEN source + Move!Index ELSE Move!ReadU8(a)
  BY <1>1, <1>3, ByteWritten
<1>5. Move!TypeOK'
  BY <1>1, <1>4 DEF Move!TypeOK
<1>6. /\ destination \in Nat /\ source \in Nat /\ count \in Nat /\ moveIndex \in Nat
      /\ moveIndex < count
      /\ Move!Index = IF destination <= source THEN moveIndex ELSE count - moveIndex - 1
  BY <1>1 DEF Move!TypeOK, Move!Address, Move!Index, Move!Forward
<1>7. \A k \in 0 .. count - 1 : Move!Done(k)' <=> (Move!Done(k) \/ k = Move!Index)
  BY <1>1, <1>6 DEF Move!Done, Move!Forward
<1>8. ASSUME NEW a \in Move!Address
      PROVE  Move!ReadU8(a)' = IF a \in destination .. destination + count - 1 /\ Move!Done(a - destination)'
                          THEN a - destination + source ELSE a
  <2>1. a \in Nat /\ Move!ReadU8(a) = IF a \in destination .. destination + count - 1 /\ Move!Done(a - destination)
                                 THEN a - destination + source ELSE a
    BY DEF Move!Inv, Move!LoopInv, Move!Address
  <2>2. CASE a \in destination .. destination + count - 1
    <3>1. a - destination \in 0 .. count - 1
      BY <1>6, <2>1, <2>2
    <3>2. Move!Done(a - destination)' <=> (Move!Done(a - destination) \/ a - destination = Move!Index)
      <4>1. PICK k \in 0 .. count - 1 : k = a - destination
        BY <3>1
      <4>2. Move!Done(k)' <=> (Move!Done(k) \/ k = Move!Index)
        BY <1>7
      <4>. QED  BY <1>1, <4>1, <4>2 DEF Move!Done, Move!Forward
    <3>3. a = destination + Move!Index <=> a - destination = Move!Index
      BY <1>3, <1>6, <2>1
    <3>4. a - destination = Move!Index => a - destination + source = source + Move!Index
      BY <1>3, <1>6, <2>1
    <3>. QED  BY <1>4, <2>1, <2>2, <3>2, <3>3, <3>4
  <2>3. CASE ~ (a \in destination .. destination + count - 1)
    <3>1. a # destination + Move!Index
      BY <1>3, <1>6, <2>1, <2>3
    <3>. QED  BY <1>4, <2>1, <2>3, <3>1
  <2>. QED  BY <2>2, <2>3
<1>9. Move!LoopInv'
  BY <1>1, <1>8 DEF Move!LoopInv, Move!NoByte
<1>. QED  BY <1>5, <1>9 DEF Move!Inv

\* The invariant of the loop (abi.c:97-117).
THEOREM MemmoveInvariance ==
    ASSUME Move!MemmoveAssumption
    PROVE  Move!Spec => []Move!Inv
<1>1. ASSUME Move!Init PROVE Move!Inv
  <2>1. WordCount \in Nat /\ \A w \in 0 .. WordCount - 1, b \in 0 .. 3 : 4 * w + b \in Move!Address
    BY DEF Move!MemmoveAssumption, Move!Address
  <2>2. Move!TypeOK
    BY <1>1, <2>1 DEF Move!Init, Move!TypeOK, Move!Address
  <2>3. ASSUME NEW a \in Move!Address
        PROVE Move!ReadU8(a) = a /\ ~ (a \in destination .. destination + count - 1 /\ Move!Done(a - destination))
    <3>1. Move!ReadU8(a) = 4 * (a \div 4) + (a % 4)
      <4>1. PICK p \in 0 .. WordCount - 1, x \in 0 .. 3 : p = a \div 4 /\ x = a % 4
        BY AddressPlaces
      <4>2. memory[p][x] = 4 * p + x
        BY <1>1 DEF Move!Init
      <4>. QED  BY <4>1, <4>2 DEF Move!ReadU8
    <3>2. a \in Nat /\ destination \in Nat /\ count \in Nat /\ moveIndex = 0
      BY <1>1, <2>2, AddressPlaces DEF Move!Init, Move!TypeOK, Move!Address
    <3>. QED  BY <3>1, <3>2, AddressPlaces DEF Move!Done
  <2>. QED  BY <1>1, <2>2, <2>3 DEF Move!Inv, Move!LoopInv, Move!Init
<1>2. Move!Inv /\ [Move!Next]_Move!vars => Move!Inv'
  <2>1. ASSUME Move!Inv, UNCHANGED Move!vars PROVE Move!Inv'
    BY <2>1
       DEF Move!vars, Move!Inv, Move!TypeOK, Move!LoopInv, Move!Index, Move!Forward, Move!Done,
           Move!ReadU8
  <2>. QED  BY <2>1, MoveReadKeeps, MoveWriteKeeps DEF Move!Next
<1>. QED  BY <1>1, <1>2, PTL DEF Move!Spec

-----------------------------------------------------------------------------
(* The content of a file *)

\* What a process is doing.
LEMMA CallIs ==
    ASSUME Mf!TypeOK, NEW p \in Client
    PROVE  /\ fileCall[p] \in Mf!CallType
           /\ fileCall[p].n \in Nat /\ fileCall[p].rest \in Nat /\ fileCall[p].number \in Nat
           /\ fileCall[p].block \in Mf!Block /\ fileCall[p].then \in {"append", "place"}
           /\ reader[p] \in Mf!HandleType
           /\ reader[p].offset \in Nat /\ reader[p].got \in Seq(Mf!Byte) /\ reader[p].plain \in BOOLEAN
  BY DEF Mf!TypeOK, Mf!CallType, Mf!HandleType

LEMMA CallStep ==
    ASSUME Mf!TypeOK, NEW p \in Client, NEW c \in Mf!CallType, fileCall' = [fileCall EXCEPT ![p] = c]
    PROVE  /\ fileCall' \in [Client -> Mf!CallType]
           /\ fileCall'[p] = c
           /\ \A q \in Client : q # p => fileCall'[q] = fileCall[q]
<1>1. fileCall \in [Client -> Mf!CallType]
  BY DEF Mf!TypeOK
<1>. QED  BY <1>1

LEMMA Goes ==
    ASSUME Mf!TypeOK, NEW p \in Client,
           NEW to \in Mf!Writing \cup Mf!Truncating \cup {"idle", "size", "copy"}, Mf!Goes(p, to)
    PROVE  \E c \in Mf!CallType :
              /\ fileCall' = [fileCall EXCEPT ![p] = c]
              /\ c.at = to /\ c.n = fileCall[p].n /\ c.rest = fileCall[p].rest
              /\ c.block = fileCall[p].block /\ c.number = fileCall[p].number
              /\ c.then = fileCall[p].then
<1>. DEFINE c == [fileCall[p] EXCEPT !.at = to]
<1>1. /\ c \in Mf!CallType
      /\ c.at = to /\ c.n = fileCall[p].n /\ c.rest = fileCall[p].rest
      /\ c.block = fileCall[p].block /\ c.number = fileCall[p].number /\ c.then = fileCall[p].then
  BY CallIs DEF Mf!CallType
<1>2. fileCall' = [fileCall EXCEPT ![p] = c]
  BY DEF Mf!Goes, Mf!TypeOK
<1>. HIDE DEF c
<1>. QED  BY <1>1, <1>2

\* How many bytes a block has room for.
LEMMA RoomIs ==
    ASSUME Mf!TypeOK, NEW b \in Mf!Block
    PROVE  Mf!Room(b) \in Nat /\ blocks[b] \in Seq(Mf!Byte)
<1>1. blocks[b] \in Seq(Mf!Byte)
  BY DEF Mf!TypeOK
<1>. QED  BY <1>1 DEF Mf!Room

\* The numbers of the Vector.
LEMMA NumbersAre ==
    ASSUME Mf!MemoryFileAssumption, Mf!Inv
    PROVE  /\ allocated \in Nat /\ allocated <= MaxBlocks /\ MaxBlocks \in Nat
           /\ dataSize \in Nat /\ statSize \in Nat /\ dataBlock \in Nat
           /\ ~ overlapped => dataBlock <= allocated
           /\ dataBlock \in Mf!Block /\ Mf!Null \in Mf!Block /\ Mf!Null = 0
           /\ Mf!Room(dataBlock) \in Nat
           /\ written \in Seq(Client) /\ Len(written) \in Nat
<1>1. MaxBlocks \in Nat /\ Mf!Null = 0 /\ dataBlock \in 0 .. MaxBlocks /\ allocated \in 0 .. MaxBlocks
  BY DEF Mf!Inv, Mf!TypeOK, Mf!Block, Mf!Null, Mf!MemoryFileAssumption
<1>2. dataSize \in Nat /\ statSize \in Nat /\ written \in Seq(Client)
      /\ (~ overlapped => dataBlock <= allocated)
  <2>1. dataSize \in Nat /\ statSize \in Nat /\ written \in Seq(Client)
    BY DEF Mf!Inv, Mf!TypeOK
  <2>2. ~ overlapped => dataBlock <= allocated
    BY DEF Mf!Inv, Mf!DataInv
  <2>. QED  BY <2>1, <2>2
<1>3. Mf!Room(dataBlock) \in Nat
  BY <1>1, RoomIs DEF Mf!Inv, Mf!Block
<1>4. /\ dataBlock \in Mf!Block /\ Mf!Null \in Mf!Block
      /\ dataBlock \in Nat /\ allocated \in Nat /\ allocated <= MaxBlocks
  BY <1>1 DEF Mf!Block
<1>5. Len(written) \in Nat
  BY <1>2
<1>. QED  BY <1>1, <1>2, <1>3, <1>4, <1>5

\* Nothing but one call gets on.
LEMMA QuietKeeps ==
    ASSUME Mf!Inv, NEW p \in Client, NEW c \in Mf!CallType, fileCall' = [fileCall EXCEPT ![p] = c],
           UNCHANGED <<blocks, allocated, dataBlock, dataSize, statSize, written, reader, filePanic>>,
           overlapped' = overlapped,
           Mf!RestInv(p)',
           c.at = "install" <=> fileCall[p].at = "install",
           ~ overlapped =>
               /\ c.at \in Mf!Writing \cup Mf!Truncating <=> Mf!Changes(p)
               /\ Mf!GrowInv(p)' /\ Mf!SizeInv(p)' /\ Mf!LoadInv(p)' /\ Mf!ReadInv(p)'
    PROVE  Mf!Inv'
<1>1. /\ fileCall' \in [Client -> Mf!CallType]
      /\ fileCall'[p] = c
      /\ \A q \in Client : q # p => fileCall'[q] = fileCall[q]
  BY CallStep DEF Mf!Inv
<1>2. Mf!TypeOK'
  BY <1>1 DEF Mf!Inv, Mf!TypeOK
<1>3. Mf!HeapInv'
  BY DEF Mf!Inv, Mf!HeapInv
<1>4. \A q \in Client : Mf!RestInv(q)'
  BY <1>1 DEF Mf!Inv, Mf!RestInv
<1>5. ASSUME ~ overlapped'
      PROVE  /\ Mf!DataInv' /\ Mf!AloneInv' /\ Mf!PanicInv'
             /\ \A q \in Client : Mf!GrowInv(q)' /\ Mf!SizeInv(q)' /\ Mf!LoadInv(q)' /\ Mf!ReadInv(q)'
  <2>1. ~ overlapped
    BY <1>5
  <2>2. \A q \in Client : fileCall'[q].at = "install" <=> fileCall[q].at = "install"
    BY <1>1
  <2>3. Mf!DataInv'
    BY <2>1, <2>2 DEF Mf!Inv, Mf!DataInv, Mf!Room
  <2>4. \A q \in Client : Mf!Changes(q)' <=> Mf!Changes(q)
    BY <1>1, <2>1 DEF Mf!Changes
  <2>5. Mf!AloneInv'
    BY <2>1, <2>4 DEF Mf!Inv, Mf!AloneInv
  <2>6. Mf!PanicInv'
    BY <2>1 DEF Mf!Inv, Mf!PanicInv
  <2>7. ASSUME NEW q \in Client
        PROVE  Mf!GrowInv(q)' /\ Mf!SizeInv(q)' /\ Mf!LoadInv(q)' /\ Mf!ReadInv(q)'
    <3>1. CASE q = p
      BY <2>1, <3>1
    <3>2. CASE q # p
      <4>1. fileCall'[q] = fileCall[q]
        BY <1>1, <3>2
      <4>2. Mf!GrowInv(q) /\ Mf!SizeInv(q) /\ Mf!LoadInv(q) /\ Mf!ReadInv(q)
        BY <2>1 DEF Mf!Inv
      <4>3. Mf!GrowInv(q)'
        BY <4>1, <4>2 DEF Mf!GrowInv, Mf!Holds, Mf!Room
      <4>4. Mf!SizeInv(q)'
        BY <4>1, <4>2 DEF Mf!SizeInv
      <4>5. Mf!LoadInv(q)'
        BY <4>1, <4>2 DEF Mf!LoadInv, Mf!Room
      <4>6. Mf!ReadInv(q)'
        BY <4>1, <4>2 DEF Mf!ReadInv
      <4>. QED  BY <4>3, <4>4, <4>5, <4>6
    <3>. QED  BY <3>1, <3>2
  <2>. QED  BY <2>3, <2>5, <2>6, <2>7
<1>. QED  BY <1>2, <1>3, <1>4, <1>5 DEF Mf!Inv

\* The machine stops.
LEMMA StopKeeps ==
    ASSUME Mf!Inv, NEW why \in {"no memory", "slice", "assert", "overwritten", "released twice"},
           Mf!Stop(why),
           ~ overlapped => why \in {"no memory", "slice"}
    PROVE  Mf!Inv'
<1>. USE DEF Mf!Stop, Mf!heapVars, Mf!fileVars
<1>1. Mf!TypeOK' /\ Mf!HeapInv' /\ \A q \in Client : Mf!RestInv(q)'
  BY DEF Mf!Inv, Mf!TypeOK, Mf!HeapInv, Mf!RestInv
<1>2. ASSUME ~ overlapped'
      PROVE  /\ Mf!DataInv' /\ Mf!AloneInv' /\ Mf!PanicInv'
             /\ \A q \in Client : Mf!GrowInv(q)' /\ Mf!SizeInv(q)' /\ Mf!LoadInv(q)' /\ Mf!ReadInv(q)'
  <2>1. ~ overlapped
    BY <1>2
  <2>2. Mf!DataInv' /\ Mf!AloneInv' /\ Mf!PanicInv'
    BY <2>1 DEF Mf!Inv, Mf!DataInv, Mf!AloneInv, Mf!PanicInv, Mf!Room, Mf!Changes
  <2>3. ASSUME NEW q \in Client
        PROVE  Mf!GrowInv(q)' /\ Mf!SizeInv(q)' /\ Mf!LoadInv(q)' /\ Mf!ReadInv(q)'
    <3>1. Mf!GrowInv(q) /\ Mf!SizeInv(q) /\ Mf!LoadInv(q) /\ Mf!ReadInv(q)
      BY <2>1 DEF Mf!Inv
    <3>. QED  BY <3>1 DEF Mf!GrowInv, Mf!Holds, Mf!Room, Mf!SizeInv, Mf!LoadInv, Mf!ReadInv
  <2>. QED  BY <2>2, <2>3
<1>. QED  BY <1>1, <1>2 DEF Mf!Inv

\* While one process changes the file, no other does.
LEMMA NoOther ==
    ASSUME Mf!Inv, ~ overlapped, NEW p \in Client, Mf!Changes(p), NEW q \in Client, q # p
    PROVE  /\ ~ Mf!Changes(q)
           /\ fileCall[q].at \notin Mf!Writing \cup Mf!Truncating
           /\ fileCall[q].at \notin Mf!Growing \cup Mf!Placing \cup {"add", "clear", "reset", "install"}
<1>1. ~ Mf!Changes(q)
  BY DEF Mf!Inv, Mf!AloneInv
<1>. QED  BY <1>1 DEF Mf!Changes, Mf!Writing, Mf!Truncating, Mf!Growing, Mf!Placing

\* A step of the one that changes the file: what has to be shown of the others.
LEMMA ChangeKeeps ==
    ASSUME Mf!Inv, NEW p \in Client, NEW c \in Mf!CallType, fileCall' = [fileCall EXCEPT ![p] = c],
           Mf!Changes(p), overlapped' = overlapped, filePanic' = filePanic,
           Mf!TypeOK', Mf!HeapInv', Mf!RestInv(p)',
           \A q \in Client : q # p => reader'[q].offset = reader[q].offset,
           ~ overlapped =>
               /\ Mf!DataInv'
               /\ c.at \notin Mf!Writing \cup Mf!Truncating => statSize' = dataSize'
               /\ Mf!GrowInv(p)' /\ Mf!SizeInv(p)' /\ Mf!LoadInv(p)' /\ Mf!ReadInv(p)'
               /\ \A q \in Client : q # p => Mf!LoadInv(q)' /\ Mf!ReadInv(q)'
    PROVE  Mf!Inv'
<1>1. /\ fileCall'[p] = c
      /\ \A q \in Client : q # p => fileCall'[q] = fileCall[q]
  BY CallStep DEF Mf!Inv
<1>2. \A q \in Client : Mf!RestInv(q)'
  BY <1>1 DEF Mf!Inv, Mf!RestInv
<1>3. ASSUME ~ overlapped'
      PROVE  /\ Mf!DataInv' /\ Mf!AloneInv' /\ Mf!PanicInv'
             /\ \A q \in Client : Mf!GrowInv(q)' /\ Mf!SizeInv(q)' /\ Mf!LoadInv(q)' /\ Mf!ReadInv(q)'
  <2>1. ~ overlapped
    BY <1>3
  <2>2. \A q \in Client : q # p =>
            /\ fileCall'[q].at \notin Mf!Writing \cup Mf!Truncating
            /\ fileCall'[q].at \notin Mf!Growing \cup Mf!Placing \cup {"add", "clear", "reset", "install"}
    BY <1>1, <2>1, NoOther
  <2>3. Mf!AloneInv'
    BY <1>1, <2>1, <2>2 DEF Mf!AloneInv, Mf!Changes
  <2>4. Mf!PanicInv'
    BY <2>1 DEF Mf!Inv, Mf!PanicInv
  <2>5. ASSUME NEW q \in Client, q # p PROVE Mf!GrowInv(q)' /\ Mf!SizeInv(q)'
    BY <2>2, <2>5 DEF Mf!GrowInv, Mf!SizeInv, Mf!Growing, Mf!Placing, Mf!Writing, Mf!Truncating
  <2>. QED  BY <2>1, <2>3, <2>4, <2>5
<1>. QED  BY <1>2, <1>3 DEF Mf!Inv

\* ensure_capacity() finds room.
LEMMA FitsKeeps ==
    ASSUME Mf!MemoryFileAssumption, Mf!Inv, NEW p \in Client, NEW wanted \in Nat, NEW then \in {"append", "place"},
           fileCall[p].at \in {"extend", "append"},
           then = "place" => fileCall[p].rest > 0 /\ wanted = dataSize + 1,
           Mf!Room(dataBlock) >= wanted, Mf!Goes(p, then),
           UNCHANGED <<Mf!heapVars, Mf!fileVars, reader, overlapped, filePanic>>
    PROVE  Mf!Inv'
<1>. USE DEF Mf!heapVars, Mf!fileVars
<1>1. PICK c \in Mf!CallType :
          /\ fileCall' = [fileCall EXCEPT ![p] = c]
          /\ c.at = then /\ c.n = fileCall[p].n /\ c.rest = fileCall[p].rest
          /\ c.block = fileCall[p].block /\ c.number = fileCall[p].number
  BY Goes DEF Mf!Inv, Mf!Writing
<1>2. fileCall'[p] = c
  BY <1>1, CallStep DEF Mf!Inv
<1>3. Mf!RestInv(p)'
  BY <1>1, <1>2 DEF Mf!RestInv, Mf!Growing, Mf!Placing
<1>4. ASSUME ~ overlapped
      PROVE  /\ c.at \in Mf!Writing \cup Mf!Truncating <=> Mf!Changes(p)
             /\ Mf!GrowInv(p)' /\ Mf!SizeInv(p)' /\ Mf!LoadInv(p)' /\ Mf!ReadInv(p)'
  <2>1. Mf!SizeInv(p) /\ Mf!ReadInv(p)
    BY <1>4 DEF Mf!Inv
  <2>2. dataSize \in Nat /\ Mf!Room(dataBlock) \in Nat
    BY NumbersAre
  <2>. QED  BY <1>1, <1>2, <2>1, <2>2
            DEF Mf!GrowInv, Mf!SizeInv, Mf!LoadInv, Mf!ReadInv, Mf!Changes, Mf!Room, Mf!Growing,
                Mf!Placing, Mf!Writing, Mf!Truncating
<1>. QED  BY <1>1, <1>3, <1>4, QuietKeeps DEF Mf!Writing, Mf!Truncating

\* ensure_capacity() allocates a block.
LEMMA AllocateBlockKeeps ==
    ASSUME Mf!MemoryFileAssumption, Mf!Inv, NEW p \in Client, NEW wanted \in Nat, NEW then \in {"append", "place"},
           fileCall[p].at \in {"extend", "append"},
           then = "place" => fileCall[p].rest > 0, wanted >= dataSize,
           Mf!Room(dataBlock) < wanted, allocated < MaxBlocks,
           NEW room \in wanted + 1 .. 2 * wanted,
           allocated' = allocated + 1,
           blocks' = [blocks EXCEPT ![allocated + 1] = [i \in 1 .. room |-> Junk]],
           fileCall' = [fileCall EXCEPT ![p] =
               [@ EXCEPT !.at = "move", !.block = allocated + 1, !.then = then]],
           UNCHANGED <<Mf!fileVars, reader, overlapped, filePanic>>
    PROVE  Mf!Inv'
<1>. USE DEF Mf!fileVars
<1>. DEFINE c == [fileCall[p] EXCEPT !.at = "move", !.block = allocated + 1, !.then = then]
<1>1. /\ allocated \in Nat /\ allocated + 1 \in Mf!Block /\ allocated + 1 # Mf!Null
      /\ dataSize \in Nat /\ dataBlock \in Mf!Block /\ (~ overlapped => dataBlock <= allocated)
      /\ blocks \in [Mf!Block -> Seq(Mf!Byte)] /\ MaxBlocks \in Nat
  <2>1. blocks \in [Mf!Block -> Seq(Mf!Byte)]
    BY DEF Mf!Inv, Mf!TypeOK
  <2>2. allocated \in Nat /\ MaxBlocks \in Nat /\ dataSize \in Nat /\ dataBlock \in Mf!Block
        /\ (~ overlapped => dataBlock <= allocated) /\ Mf!Null = 0
    BY NumbersAre
  <2>3. allocated + 1 \in Mf!Block
    BY <2>2 DEF Mf!Block
  <2>. QED  BY <2>1, <2>2, <2>3
<1>2. /\ c \in Mf!CallType
      /\ c.at = "move" /\ c.n = fileCall[p].n /\ c.rest = fileCall[p].rest
      /\ c.block = allocated + 1 /\ c.then = then
  <2>1. "move" \in Mf!Writing \cup Mf!Truncating \cup {"idle", "size", "copy"}
    BY DEF Mf!Writing
  <2>2. fileCall[p] \in Mf!CallType
    BY CallIs DEF Mf!Inv
  <2>3. allocated + 1 \in Mf!Block
    BY <1>1
  <2>. QED  BY <2>1, <2>2, <2>3 DEF Mf!CallType
<1>3. fileCall' = [fileCall EXCEPT ![p] = c]
  OBVIOUS
<1>. HIDE DEF c
<1>5. /\ fileCall' \in [Client -> Mf!CallType] /\ fileCall'[p] = c
      /\ \A q \in Client : q # p => fileCall'[q] = fileCall[q]
  BY <1>3, <1>2, CallStep DEF Mf!Inv
<1>6. PICK new : new = [i \in 1 .. room |-> Junk]
  OBVIOUS
<1>7. new \in Seq(Mf!Byte) /\ Len(new) = room /\ room \in Nat /\ room > wanted
  <2>1. room \in Nat /\ room > wanted
    OBVIOUS
  <2>2. Junk \in Mf!Byte
    BY DEF Mf!Byte
  <2>. QED  BY <1>6, <2>1, <2>2
<1>8. /\ blocks' \in [Mf!Block -> Seq(Mf!Byte)] /\ blocks'[allocated + 1] = new
      /\ \A b \in Mf!Block : b # allocated + 1 => blocks'[b] = blocks[b]
  BY <1>1, <1>6, <1>7
<1>9. Mf!TypeOK'
  BY <1>1, <1>5, <1>8 DEF Mf!Inv, Mf!TypeOK
<1>10. Mf!HeapInv'
  BY <1>1, <1>8 DEF Mf!Inv, Mf!HeapInv, Mf!Block, Mf!Null
<1>11. Mf!RestInv(p)'
  BY <1>2, <1>5 DEF Mf!RestInv, Mf!Placing, Mf!Growing
<1>12. Mf!Changes(p)
  BY DEF Mf!Changes, Mf!Writing
<1>13. ASSUME ~ overlapped
       PROVE  /\ Mf!DataInv'
              /\ Mf!GrowInv(p)' /\ Mf!SizeInv(p)' /\ Mf!LoadInv(p)' /\ Mf!ReadInv(p)'
              /\ \A q \in Client : q # p => Mf!LoadInv(q)' /\ Mf!ReadInv(q)'
  <2>1. dataBlock # allocated + 1 /\ dataBlock \in Nat
    BY <1>1, <1>13 DEF Mf!Block
  <2>10. blocks'[dataBlock] = blocks[dataBlock] /\ dataBlock <= allocated + 1
    BY <1>1, <1>8, <1>13, <2>1
  <2>2. \A q \in Client : q # p => fileCall[q].at # "install"
    BY <1>12, <1>13, NoOther
  <2>3. \A q \in Client : fileCall[q].at # "install"
    BY <2>2
  <2>4. Mf!DataInv'
    BY <1>2, <1>5, <1>13, <2>10, <2>3 DEF Mf!Inv, Mf!DataInv, Mf!Room
  <2>5. Mf!GrowInv(p)'
    BY <1>1, <1>2, <1>5, <1>7, <1>8, <2>1 DEF Mf!GrowInv, Mf!Growing, Mf!Placing, Mf!Room
  <2>6. Mf!SizeInv(p)'
    BY <1>2, <1>5, <1>13 DEF Mf!Inv, Mf!SizeInv, Mf!Writing
  <2>7. \A q \in Client : Mf!LoadInv(q) /\ Mf!ReadInv(q) /\ fileCall[q].block \in Mf!Block
    BY <1>13, CallIs DEF Mf!Inv
  <2>8. Mf!LoadInv(p)' /\ Mf!ReadInv(p)'
    BY <1>2, <1>5, <2>7 DEF Mf!LoadInv, Mf!ReadInv
  <2>9. ASSUME NEW q \in Client, q # p PROVE Mf!LoadInv(q)' /\ Mf!ReadInv(q)'
    <3>1. fileCall'[q] = fileCall[q]
      BY <1>5, <2>9
    <3>2. fileCall[q].at \in {"size", "copy"} =>
              fileCall[q].block <= allocated /\ fileCall[q].block # allocated + 1
      BY <1>1, <1>13, <2>7 DEF Mf!LoadInv, Mf!Block
    <3>3. Mf!LoadInv(q)'
      <4>1. CASE fileCall[q].at \in {"size", "copy"}
        <5>1. blocks'[fileCall[q].block] = blocks[fileCall[q].block] /\ fileCall[q].block <= allocated + 1
          BY <1>1, <1>8, <2>7, <3>2, <4>1 DEF Mf!Block
        <5>. QED  BY <2>7, <3>1, <4>1, <5>1 DEF Mf!LoadInv, Mf!Room
      <4>2. CASE fileCall[q].at \notin {"size", "copy"}
        BY <3>1, <4>2 DEF Mf!LoadInv
      <4>. QED  BY <4>1, <4>2
    <3>4. Mf!ReadInv(q)'
      BY <2>7, <3>1 DEF Mf!ReadInv
    <3>. QED  BY <3>3, <3>4
  <2>. QED  BY <2>4, <2>5, <2>6, <2>8, <2>9
<1>. QED  BY <1>3, <1>2, <1>9, <1>10, <1>11, <1>12, <1>13, ChangeKeeps DEF Mf!Writing

LEMMA EnsuresRoomKeeps ==
    ASSUME Mf!MemoryFileAssumption, Mf!Inv, NEW p \in Client, NEW wanted \in Nat, NEW then \in {"append", "place"},
           fileCall[p].at \in {"extend", "append"},
           then = "place" => fileCall[p].rest > 0 /\ wanted = dataSize + 1, wanted >= dataSize,
           Mf!EnsuresRoom(p, wanted, then)
    PROVE  Mf!Inv'
<1>1. CASE /\ Mf!Room(dataBlock) >= wanted /\ Mf!Goes(p, then)
           /\ UNCHANGED <<Mf!heapVars, Mf!fileVars, reader, overlapped, filePanic>>
  BY <1>1, FitsKeeps
<1>2. CASE /\ Mf!Room(dataBlock) < wanted /\ allocated < MaxBlocks
           /\ allocated' = allocated + 1
           /\ \E room \in wanted + 1 .. 2 * wanted :
                 /\ \E k \in 1 .. wanted : room = 2 ^ k
                 /\ blocks' = [blocks EXCEPT ![allocated + 1] = [i \in 1 .. room |-> Junk]]
           /\ fileCall' = [fileCall EXCEPT ![p] =
                  [@ EXCEPT !.at = "move", !.block = allocated + 1, !.then = then]]
           /\ UNCHANGED <<Mf!fileVars, reader, overlapped, filePanic>>
  <2>1. PICK room \in wanted + 1 .. 2 * wanted :
            blocks' = [blocks EXCEPT ![allocated + 1] = [i \in 1 .. room |-> Junk]]
    BY <1>2
  <2>. QED  BY <1>2, <2>1, AllocateBlockKeeps
<1>3. CASE Mf!Stop("no memory")
  BY <1>3, StopKeeps
<1>. QED  BY <1>1, <1>2, <1>3 DEF Mf!EnsuresRoom

LEMMA ExtendKeeps ==
    ASSUME Mf!MemoryFileAssumption, Mf!Inv, NEW p \in Client, Mf!Extend(p)
    PROVE  Mf!Inv'
<1>1. dataSize \in Nat /\ fileCall[p].n \in Nat
  BY CallIs DEF Mf!Inv, Mf!TypeOK
<1>. QED  BY <1>1, EnsuresRoomKeeps DEF Mf!Extend

LEMMA Append1Keeps ==
    ASSUME Mf!MemoryFileAssumption, Mf!Inv, NEW p \in Client, Mf!Append1(p)
    PROVE  Mf!Inv'
<1>1. dataSize \in Nat
  BY DEF Mf!Inv, Mf!TypeOK
<1>. QED  BY <1>1, EnsuresRoomKeeps DEF Mf!Append1

LEMMA OpenKeeps ==
    ASSUME Mf!Inv, NEW p \in Client, Mf!Open(p)
    PROVE  Mf!Inv'
<1>. USE DEF Mf!Open, Mf!heapVars, Mf!fileVars
<1>1. /\ reader'[p] = Mf!NewHandle /\ reader' \in [Client -> Mf!HandleType]
      /\ \A q \in Client : q # p => reader'[q] = reader[q]
  <2>1. Mf!NewHandle \in Mf!HandleType
    BY DEF Mf!NewHandle, Mf!HandleType
  <2>2. reader \in [Client -> Mf!HandleType]
    BY DEF Mf!Inv, Mf!TypeOK
  <2>. QED  BY <2>1, <2>2
<1>2. Mf!TypeOK'
  BY <1>1 DEF Mf!Inv, Mf!TypeOK
<1>3. Mf!HeapInv' /\ \A q \in Client : Mf!RestInv(q)'
  <2>1. fileCall[p].at = "idle"
    BY DEF Mf!Ready, Mf!Idle, Mf!Call
  <2>. QED  BY <1>1, <2>1 DEF Mf!Inv, Mf!HeapInv, Mf!RestInv, Mf!Placing, Mf!Growing
<1>4. ASSUME ~ overlapped'
      PROVE  /\ Mf!DataInv' /\ Mf!AloneInv' /\ Mf!PanicInv'
             /\ \A q \in Client : Mf!GrowInv(q)' /\ Mf!SizeInv(q)' /\ Mf!LoadInv(q)' /\ Mf!ReadInv(q)'
  <2>1. ~ overlapped
    BY <1>4
  <2>2. Mf!DataInv' /\ Mf!AloneInv' /\ Mf!PanicInv'
    BY <2>1 DEF Mf!Inv, Mf!DataInv, Mf!AloneInv, Mf!PanicInv, Mf!Room, Mf!Changes
  <2>3. ASSUME NEW q \in Client
        PROVE  Mf!GrowInv(q)' /\ Mf!SizeInv(q)' /\ Mf!LoadInv(q)' /\ Mf!ReadInv(q)'
    <3>1. Mf!GrowInv(q) /\ Mf!SizeInv(q) /\ Mf!LoadInv(q) /\ Mf!ReadInv(q)
      BY <2>1 DEF Mf!Inv
    <3>2. Mf!GrowInv(q)' /\ Mf!SizeInv(q)' /\ Mf!LoadInv(q)'
      BY <3>1 DEF Mf!GrowInv, Mf!Holds, Mf!Room, Mf!SizeInv, Mf!LoadInv
    <3>3. CASE q = p
      <4>1. reader'[q].offset = 0 /\ reader'[q].got = <<>> /\ fileCall'[q].at = "idle"
        BY <1>1, <3>3 DEF Mf!NewHandle, Mf!Ready, Mf!Idle, Mf!Call
      <4>2. SubSeq(written', 1, 0) = <<>> /\ 0 \in 0 .. dataSize'
        <5>1. written \in Seq(Client) /\ dataSize \in Nat
          BY DEF Mf!Inv, Mf!TypeOK
        <5>2. SubSeq(written, 1, 0) = <<>>
          BY <5>1
        <5>. QED  BY <5>1, <5>2
      <4>. QED  BY <3>2, <4>1, <4>2 DEF Mf!ReadInv
    <3>4. CASE q # p
      BY <1>1, <3>1, <3>2, <3>4 DEF Mf!ReadInv
    <3>. QED  BY <3>3, <3>4
  <2>. QED  BY <2>2, <2>3
<1>. QED  BY <1>2, <1>3, <1>4 DEF Mf!Inv

\* A call begins that changes the file.  If it is the only one, m_size is right.
LEMMA EntersKeeps ==
    ASSUME Mf!MemoryFileAssumption, Mf!Inv, NEW p \in Client, NEW n \in Nat, NEW to \in {"extend", "clear"},
           Mf!EntersToChange(p, Mf!Call(to, n))
    PROVE  Mf!Inv'
<1>. USE DEF Mf!heapVars, Mf!fileVars
<1>1. PICK c : c = Mf!Call(to, n)
  OBVIOUS
<1>2. /\ fileCall' = [fileCall EXCEPT ![p] = c]
      /\ UNCHANGED <<blocks, allocated, dataBlock, dataSize, statSize, written, reader, filePanic>>
      /\ fileCall[p] = Mf!Idle /\ ~ overlapped
      /\ overlapped' = \E q \in Client : Mf!Changes(q)
  BY <1>1 DEF Mf!EntersToChange, Mf!Ready
<1>3. /\ c \in Mf!CallType
      /\ c.at = to /\ c.n = n /\ c.rest = n
  <2>1. Mf!Null \in Mf!Block
    BY NumbersAre
  <2>. QED  BY <1>1, <2>1 DEF Mf!Call, Mf!CallType, Mf!Writing, Mf!Truncating
<1>4. /\ fileCall' \in [Client -> Mf!CallType] /\ fileCall'[p] = c
      /\ \A q \in Client : q # p => fileCall'[q] = fileCall[q]
  BY <1>2, <1>3, CallStep DEF Mf!Inv
<1>5. Mf!TypeOK'
  BY <1>2, <1>4 DEF Mf!Inv, Mf!TypeOK
<1>6. Mf!HeapInv' /\ \A q \in Client : Mf!RestInv(q)'
  BY <1>2, <1>3, <1>4 DEF Mf!Inv, Mf!HeapInv, Mf!RestInv, Mf!Placing, Mf!Growing
<1>7. ASSUME ~ overlapped'
      PROVE  /\ Mf!DataInv' /\ Mf!AloneInv' /\ Mf!PanicInv'
             /\ \A q \in Client : Mf!GrowInv(q)' /\ Mf!SizeInv(q)' /\ Mf!LoadInv(q)' /\ Mf!ReadInv(q)'
  <2>1. \A q \in Client : ~ Mf!Changes(q)
    BY <1>2, <1>7
  <2>2. statSize = dataSize /\ dataSize \in Nat
    BY <1>2, <2>1 DEF Mf!Inv, Mf!AloneInv, Mf!TypeOK
  <2>3. \A q \in Client : fileCall[q].at # "install" /\ fileCall'[q].at # "install"
    <3>1. \A q \in Client : fileCall[q].at # "install"
      BY <2>1 DEF Mf!Changes, Mf!Writing
    <3>. QED  BY <1>3, <1>4, <3>1
  <2>4. Mf!DataInv'
    BY <1>2, <2>3 DEF Mf!Inv, Mf!DataInv, Mf!Room
  <2>5. Mf!AloneInv'
    <3>1. \A q \in Client : Mf!Changes(q)' <=> q = p
      BY <1>3, <1>4, <2>1 DEF Mf!Changes, Mf!Writing, Mf!Truncating
    <3>. QED  BY <3>1 DEF Mf!AloneInv
  <2>6. Mf!PanicInv'
    BY <1>2 DEF Mf!Inv, Mf!PanicInv
  <2>7. ASSUME NEW q \in Client
        PROVE  Mf!GrowInv(q)' /\ Mf!SizeInv(q)' /\ Mf!LoadInv(q)' /\ Mf!ReadInv(q)'
    <3>1. Mf!LoadInv(q) /\ Mf!ReadInv(q)
      BY <1>2 DEF Mf!Inv
    <3>2. CASE q = p
      BY <1>2, <1>3, <1>4, <2>2, <3>1, <3>2
         DEF Mf!GrowInv, Mf!SizeInv, Mf!LoadInv, Mf!ReadInv, Mf!Growing, Mf!Placing, Mf!Writing
    <3>3. CASE q # p
      <4>1. fileCall'[q] = fileCall[q] /\ fileCall[q].at \notin Mf!Writing \cup Mf!Truncating
        BY <1>4, <2>1, <3>3 DEF Mf!Changes
      <4>. QED  BY <1>2, <3>1, <4>1
                DEF Mf!GrowInv, Mf!SizeInv, Mf!LoadInv, Mf!ReadInv, Mf!Growing, Mf!Placing,
                    Mf!Writing, Mf!Truncating, Mf!Room
    <3>. QED  BY <3>2, <3>3
  <2>. QED  BY <2>4, <2>5, <2>6, <2>7
<1>. QED  BY <1>5, <1>6, <1>7 DEF Mf!Inv

LEMMA TruncateKeeps ==
    ASSUME Mf!MemoryFileAssumption, Mf!Inv, NEW p \in Client, Mf!Truncate(p)
    PROVE  Mf!Inv'
  BY EntersKeeps DEF Mf!Truncate

LEMMA WriteKeeps ==
    ASSUME Mf!MemoryFileAssumption, Mf!Inv, NEW p \in Client, NEW n \in Nat, Mf!Write(p, n)
    PROVE  Mf!Inv'
  BY EntersKeeps DEF Mf!Write

LEMMA ClearKeeps ==
    ASSUME Mf!MemoryFileAssumption, Mf!Inv, NEW p \in Client, Mf!Clear(p)
    PROVE  Mf!Inv'
<1>. USE DEF Mf!Clear, Mf!heapVars
<1>1. PICK c \in Mf!CallType :
          /\ fileCall' = [fileCall EXCEPT ![p] = c]
          /\ c.at = "reset" /\ c.n = fileCall[p].n /\ c.rest = fileCall[p].rest
          /\ c.block = fileCall[p].block /\ c.number = fileCall[p].number
  <2>1. "reset" \in Mf!Writing \cup Mf!Truncating \cup {"idle", "size", "copy"}
    BY DEF Mf!Truncating
  <2>. QED  BY <2>1, Goes DEF Mf!Inv
<1>2. /\ fileCall' \in [Client -> Mf!CallType] /\ fileCall'[p] = c
      /\ \A q \in Client : q # p => fileCall'[q] = fileCall[q]
  BY <1>1, CallStep DEF Mf!Inv
<1>3. /\ reader' \in [Client -> Mf!HandleType]
      /\ \A q \in Client : reader'[q].plain = FALSE /\ reader'[q].offset = reader[q].offset
  <2>1. \A q \in Client : Mf!Spoiled(reader[q].offset) \in Mf!HandleType
    BY CallIs DEF Mf!Inv, Mf!Spoiled, Mf!HandleType
  <2>. QED  BY <2>1 DEF Mf!Spoiled
<1>4. dataSize' = 0 /\ written' = <<>> /\ written' \in Seq(Client) /\ Len(written') = 0
  OBVIOUS
<1>5. Mf!TypeOK'
  <2>1. UNCHANGED <<blocks, allocated, dataBlock, statSize, overlapped, filePanic>>
    OBVIOUS
  <2>2. dataSize' \in Nat
    BY <1>4
  <2>. HIDE DEF Mf!Clear
  <2>. QED  BY <1>2, <1>3, <1>4, <2>1, <2>2 DEF Mf!Inv, Mf!TypeOK
<1>6. Mf!HeapInv' /\ Mf!RestInv(p)' /\ Mf!Changes(p)
  BY <1>1, <1>2 DEF Mf!Inv, Mf!HeapInv, Mf!RestInv, Mf!Placing, Mf!Growing, Mf!Changes, Mf!Truncating
<1>7. ASSUME ~ overlapped
      PROVE  /\ Mf!DataInv'
             /\ Mf!GrowInv(p)' /\ Mf!SizeInv(p)' /\ Mf!LoadInv(p)' /\ Mf!ReadInv(p)'
             /\ \A q \in Client : q # p => Mf!LoadInv(q)' /\ Mf!ReadInv(q)'
  <2>1. \A q \in Client : fileCall[q].at # "install"
    <3>1. \A q \in Client : q # p => fileCall[q].at # "install"
      BY <1>6, <1>7, NoOther
    <3>. QED  BY <3>1
  <2>2. Mf!DataInv'
    <3>1. (dataBlock = Mf!Null \/ Mf!Room(dataBlock) > 0) /\ dataBlock <= allocated
      BY <1>7, <2>1 DEF Mf!Inv, Mf!DataInv
    <3>2. 0 <= Mf!Room(dataBlock) /\ \A i \in 1 .. 0 : FALSE
      BY NumbersAre
    <3>. QED  BY <1>4, <3>1, <3>2 DEF Mf!DataInv, Mf!Room
  <2>3. Mf!GrowInv(p)' /\ Mf!SizeInv(p)' /\ Mf!LoadInv(p)'
    BY <1>1, <1>2, <1>4 DEF Mf!GrowInv, Mf!SizeInv, Mf!LoadInv, Mf!Growing, Mf!Placing, Mf!Writing
  <2>4. \A q \in Client : Mf!ReadInv(q)'
    BY <1>3 DEF Mf!ReadInv
  <2>5. \A q \in Client : q # p => Mf!LoadInv(q)'
    BY <1>2, <1>7 DEF Mf!Inv, Mf!LoadInv, Mf!Room
  <2>. QED  BY <2>2, <2>3, <2>4, <2>5
<1>8. c.at \in Mf!Truncating
  BY <1>1 DEF Mf!Truncating
<1>. QED  BY <1>1, <1>3, <1>5, <1>6, <1>7, <1>8, ChangeKeeps

\* A call that changed the file returns.
LEMMA ReturnsIdle ==
    ASSUME Mf!MemoryFileAssumption, Mf!Inv, NEW p \in Client, Mf!Returns(p)
    PROVE  /\ Mf!Idle \in Mf!CallType /\ Mf!Idle.at = "idle"
           /\ fileCall' = [fileCall EXCEPT ![p] = Mf!Idle]
           /\ fileCall' \in [Client -> Mf!CallType] /\ fileCall'[p] = Mf!Idle
           /\ \A q \in Client : q # p => fileCall'[q] = fileCall[q]
<1>1. Mf!Null \in Mf!Block
  BY NumbersAre
<1>2. Mf!Idle \in Mf!CallType /\ Mf!Idle.at = "idle"
  BY <1>1 DEF Mf!Idle, Mf!Call, Mf!CallType
<1>. QED  BY <1>2, CallStep DEF Mf!Returns, Mf!Inv

LEMMA ResetKeeps ==
    ASSUME Mf!MemoryFileAssumption, Mf!Inv, NEW p \in Client, Mf!Reset(p)
    PROVE  Mf!Inv'
<1>. USE DEF Mf!Reset, Mf!heapVars
<1>1. /\ Mf!Idle \in Mf!CallType /\ Mf!Idle.at = "idle"
      /\ fileCall' = [fileCall EXCEPT ![p] = Mf!Idle]
      /\ fileCall' \in [Client -> Mf!CallType] /\ fileCall'[p] = Mf!Idle
      /\ \A q \in Client : q # p => fileCall'[q] = fileCall[q]
  BY ReturnsIdle
<1>2. /\ reader'[p] = Mf!NewHandle /\ reader' \in [Client -> Mf!HandleType]
      /\ \A q \in Client : q # p => reader'[q] = reader[q]
  <2>1. Mf!NewHandle \in Mf!HandleType
    BY DEF Mf!NewHandle, Mf!HandleType
  <2>2. reader \in [Client -> Mf!HandleType]
    BY DEF Mf!Inv, Mf!TypeOK
  <2>. QED  BY <2>1, <2>2
<1>3. Mf!TypeOK'
  BY <1>1, <1>2 DEF Mf!Inv, Mf!TypeOK
<1>4. Mf!HeapInv' /\ Mf!RestInv(p)' /\ Mf!Changes(p)
  BY <1>1 DEF Mf!Inv, Mf!HeapInv, Mf!RestInv, Mf!Placing, Mf!Growing, Mf!Changes, Mf!Truncating
<1>5. ASSUME ~ overlapped
      PROVE  /\ Mf!DataInv' /\ statSize' = dataSize'
             /\ Mf!GrowInv(p)' /\ Mf!SizeInv(p)' /\ Mf!LoadInv(p)' /\ Mf!ReadInv(p)'
             /\ \A q \in Client : q # p => Mf!LoadInv(q)' /\ Mf!ReadInv(q)'
  <2>1. \A q \in Client : fileCall[q].at # "install"
    <3>1. \A q \in Client : q # p => fileCall[q].at # "install"
      BY <1>4, <1>5, NoOther
    <3>. QED  BY <3>1
  <2>2. Mf!DataInv'
    BY <1>5, <2>1 DEF Mf!Inv, Mf!DataInv, Mf!Room
  <2>3. statSize' = dataSize' /\ dataSize \in Nat
    BY <1>5, NumbersAre DEF Mf!Inv, Mf!SizeInv
  <2>4. Mf!GrowInv(p)' /\ Mf!SizeInv(p)' /\ Mf!LoadInv(p)'
    BY <1>1 DEF Mf!GrowInv, Mf!SizeInv, Mf!LoadInv, Mf!Growing, Mf!Placing, Mf!Writing
  <2>5. Mf!ReadInv(p)'
    <3>1. reader'[p].offset = 0 /\ reader'[p].got = <<>>
      BY <1>2 DEF Mf!NewHandle
    <3>2. SubSeq(written, 1, 0) = <<>> /\ 0 \in 0 .. dataSize
      <4>1. written \in Seq(Client)
        BY NumbersAre
      <4>2. SubSeq(written, 1, 0) = <<>>
        BY <4>1
      <4>. QED  BY <2>3, <4>2
    <3>. QED  BY <1>1, <3>1, <3>2 DEF Mf!ReadInv
  <2>6. \A q \in Client : q # p => Mf!LoadInv(q)' /\ Mf!ReadInv(q)'
    BY <1>1, <1>2, <1>5 DEF Mf!Inv, Mf!LoadInv, Mf!ReadInv, Mf!Room
  <2>. QED  BY <2>2, <2>3, <2>4, <2>5, <2>6
<1>. QED  BY <1>1, <1>2, <1>3, <1>4, <1>5, ChangeKeeps

LEMMA AddKeeps ==
    ASSUME Mf!MemoryFileAssumption, Mf!Inv, NEW p \in Client, Mf!Add(p)
    PROVE  Mf!Inv'
<1>. USE DEF Mf!Add, Mf!heapVars
<1>1. /\ Mf!Idle \in Mf!CallType /\ Mf!Idle.at = "idle"
      /\ fileCall' = [fileCall EXCEPT ![p] = Mf!Idle]
      /\ fileCall' \in [Client -> Mf!CallType] /\ fileCall'[p] = Mf!Idle
      /\ \A q \in Client : q # p => fileCall'[q] = fileCall[q]
  BY ReturnsIdle
<1>2. PICK h : h = IF fileCall[p].n = 0 THEN reader[p] ELSE Mf!Spoiled(reader[p].offset + fileCall[p].n)
  OBVIOUS
<1>3. h \in Mf!HandleType /\ (h = reader[p] \/ ~ h.plain)
  <2>1. fileCall[p].n \in Nat /\ reader[p] \in Mf!HandleType /\ reader[p].offset \in Nat
    BY CallIs DEF Mf!Inv
  <2>2. Mf!Spoiled(reader[p].offset + fileCall[p].n) \in Mf!HandleType
    BY <2>1 DEF Mf!Spoiled, Mf!HandleType
  <2>3. Mf!Spoiled(reader[p].offset + fileCall[p].n).plain = FALSE
    BY DEF Mf!Spoiled
  <2>. QED  BY <1>2, <2>1, <2>2, <2>3
<1>4. /\ reader'[p] = h /\ reader' \in [Client -> Mf!HandleType]
      /\ \A q \in Client : q # p => reader'[q] = reader[q]
  <2>1. reader \in [Client -> Mf!HandleType]
    BY DEF Mf!Inv, Mf!TypeOK
  <2>2. reader' = [reader EXCEPT ![p] = h]
    BY <1>2, <2>1
  <2>. HIDE DEF Mf!Add
  <2>. QED  BY <1>3, <2>1, <2>2
<1>5. statSize' = fileCall[p].number + fileCall[p].n /\ statSize' \in Nat
  BY CallIs DEF Mf!Inv
<1>6. Mf!TypeOK'
  BY <1>1, <1>4, <1>5 DEF Mf!Inv, Mf!TypeOK
<1>7. Mf!HeapInv' /\ Mf!RestInv(p)' /\ Mf!Changes(p)
  BY <1>1 DEF Mf!Inv, Mf!HeapInv, Mf!RestInv, Mf!Placing, Mf!Growing, Mf!Changes, Mf!Writing
<1>8. ASSUME ~ overlapped
      PROVE  /\ Mf!DataInv' /\ statSize' = dataSize'
             /\ Mf!GrowInv(p)' /\ Mf!SizeInv(p)' /\ Mf!LoadInv(p)' /\ Mf!ReadInv(p)'
             /\ \A q \in Client : q # p => Mf!LoadInv(q)' /\ Mf!ReadInv(q)'
  <2>1. \A q \in Client : fileCall[q].at # "install"
    <3>1. \A q \in Client : q # p => fileCall[q].at # "install"
      BY <1>7, <1>8, NoOther
    <3>. QED  BY <3>1
  <2>2. Mf!DataInv'
    BY <1>8, <2>1 DEF Mf!Inv, Mf!DataInv, Mf!Room
  <2>3. statSize' = dataSize'
    <3>1. /\ fileCall[p].number = statSize /\ fileCall[p].rest = 0
          /\ dataSize = statSize + (fileCall[p].n - fileCall[p].rest)
      BY <1>8 DEF Mf!Inv, Mf!SizeInv, Mf!Writing
    <3>2. fileCall[p].n \in Nat /\ statSize \in Nat
      BY CallIs, NumbersAre DEF Mf!Inv
    <3>. QED  BY <1>5, <3>1, <3>2
  <2>4. Mf!GrowInv(p)' /\ Mf!SizeInv(p)' /\ Mf!LoadInv(p)'
    BY <1>1 DEF Mf!GrowInv, Mf!SizeInv, Mf!LoadInv, Mf!Growing, Mf!Placing, Mf!Writing
  <2>5. \A q \in Client : Mf!ReadInv(q)'
    BY <1>1, <1>3, <1>4, <1>8 DEF Mf!Inv, Mf!ReadInv
  <2>6. \A q \in Client : q # p => Mf!LoadInv(q)'
    BY <1>1, <1>8 DEF Mf!Inv, Mf!LoadInv, Mf!Room
  <2>. QED  BY <2>2, <2>3, <2>4, <2>5, <2>6
<1>. QED  BY <1>1, <1>4, <1>6, <1>7, <1>8, ChangeKeeps

LEMMA ExtendPlaceKeeps ==
    ASSUME Mf!MemoryFileAssumption, Mf!Inv, NEW p \in Client, Mf!Place(p)
    PROVE  Mf!Inv'
<1>. USE DEF Mf!heapVars, Mf!fileVars
<1>. DEFINE c == [fileCall[p] EXCEPT !.at = "store", !.block = dataBlock, !.number = dataSize]
<1>1. /\ c \in Mf!CallType
      /\ c.at = "store" /\ c.n = fileCall[p].n /\ c.rest = fileCall[p].rest
      /\ c.block = dataBlock /\ c.number = dataSize
  <2>1. "store" \in Mf!Writing \cup Mf!Truncating \cup {"idle", "size", "copy"}
    BY DEF Mf!Writing
  <2>2. fileCall[p] \in Mf!CallType /\ dataBlock \in Mf!Block /\ dataSize \in Nat
    BY CallIs, NumbersAre DEF Mf!Inv
  <2>. QED  BY <2>1, <2>2 DEF Mf!CallType
<1>2. /\ fileCall' = [fileCall EXCEPT ![p] = c] /\ fileCall[p].at = "place"
      /\ UNCHANGED <<blocks, allocated, dataBlock, dataSize, statSize, written, reader, overlapped, filePanic>>
  BY DEF Mf!Place
<1>. HIDE DEF c
<1>3. fileCall'[p] = c
  BY <1>1, <1>2, CallStep DEF Mf!Inv
<1>4. Mf!RestInv(p)'
  BY <1>1, <1>2, <1>3 DEF Mf!Inv, Mf!RestInv, Mf!Placing, Mf!Growing
<1>5. ASSUME ~ overlapped
      PROVE  /\ c.at \in Mf!Writing \cup Mf!Truncating <=> Mf!Changes(p)
             /\ Mf!GrowInv(p)' /\ Mf!SizeInv(p)' /\ Mf!LoadInv(p)' /\ Mf!ReadInv(p)'
  <2>1. Mf!SizeInv(p) /\ Mf!ReadInv(p) /\ Mf!GrowInv(p)
    BY <1>5 DEF Mf!Inv
  <2>. QED  BY <1>1, <1>2, <1>3, <2>1
            DEF Mf!GrowInv, Mf!SizeInv, Mf!LoadInv, Mf!ReadInv, Mf!Changes, Mf!Room, Mf!Growing,
                Mf!Placing, Mf!Writing, Mf!Truncating
<1>. QED  BY <1>1, <1>2, <1>4, <1>5, QuietKeeps

LEMMA ExtendedKeeps ==
    ASSUME Mf!MemoryFileAssumption, Mf!Inv, NEW p \in Client, Mf!Extended(p)
    PROVE  Mf!Inv'
<1>. USE DEF Mf!heapVars, Mf!fileVars
<1>. DEFINE c == [fileCall[p] EXCEPT !.at = "add", !.number = statSize]
<1>1. /\ c \in Mf!CallType
      /\ c.at = "add" /\ c.n = fileCall[p].n /\ c.rest = fileCall[p].rest
      /\ c.block = fileCall[p].block /\ c.number = statSize
  <2>1. "add" \in Mf!Writing \cup Mf!Truncating \cup {"idle", "size", "copy"}
    BY DEF Mf!Writing
  <2>2. fileCall[p] \in Mf!CallType /\ statSize \in Nat
    BY CallIs, NumbersAre DEF Mf!Inv
  <2>. QED  BY <2>1, <2>2 DEF Mf!CallType
<1>2. /\ fileCall' = [fileCall EXCEPT ![p] = c] /\ fileCall[p].at = "append" /\ fileCall[p].rest = 0
      /\ UNCHANGED <<blocks, allocated, dataBlock, dataSize, statSize, written, reader, overlapped, filePanic>>
  BY DEF Mf!Extended
<1>. HIDE DEF c
<1>3. fileCall'[p] = c
  BY <1>1, <1>2, CallStep DEF Mf!Inv
<1>4. Mf!RestInv(p)'
  BY <1>1, <1>2, <1>3 DEF Mf!Inv, Mf!RestInv, Mf!Placing, Mf!Growing
<1>5. ASSUME ~ overlapped
      PROVE  /\ c.at \in Mf!Writing \cup Mf!Truncating <=> Mf!Changes(p)
             /\ Mf!GrowInv(p)' /\ Mf!SizeInv(p)' /\ Mf!LoadInv(p)' /\ Mf!ReadInv(p)'
  <2>1. Mf!SizeInv(p) /\ Mf!ReadInv(p) /\ Mf!GrowInv(p)
    BY <1>5 DEF Mf!Inv
  <2>. QED  BY <1>1, <1>2, <1>3, <2>1
            DEF Mf!GrowInv, Mf!SizeInv, Mf!LoadInv, Mf!ReadInv, Mf!Changes, Mf!Room, Mf!Growing,
                Mf!Placing, Mf!Writing, Mf!Truncating
<1>. QED  BY <1>1, <1>2, <1>4, <1>5, QuietKeeps

LEMMA ReadKeeps ==
    ASSUME Mf!MemoryFileAssumption, Mf!Inv, NEW p \in Client, NEW n \in Nat, Mf!Read(p, n)
    PROVE  Mf!Inv'
<1>. USE DEF Mf!heapVars, Mf!fileVars
<1>. DEFINE c == [Mf!Call("size", n) EXCEPT !.block = dataBlock]
<1>1. c \in Mf!CallType /\ c.at = "size" /\ c.block = dataBlock
  <2>1. dataBlock \in Mf!Block /\ Mf!Null \in Mf!Block
    BY NumbersAre
  <2>. QED  BY <2>1 DEF Mf!CallType, Mf!Call
<1>2. /\ fileCall' = [fileCall EXCEPT ![p] = c] /\ fileCall[p] = Mf!Idle
      /\ UNCHANGED <<blocks, allocated, dataBlock, dataSize, statSize, written, reader, overlapped, filePanic>>
  BY DEF Mf!Read, Mf!Ready
<1>. HIDE DEF c
<1>3. fileCall'[p] = c /\ fileCall[p].at = "idle"
  <2>1. Mf!Idle.at = "idle"
    BY DEF Mf!Idle, Mf!Call
  <2>. QED  BY <1>1, <1>2, <2>1, CallStep DEF Mf!Inv
<1>4. Mf!RestInv(p)'
  BY <1>1, <1>2, <1>3 DEF Mf!RestInv, Mf!Placing, Mf!Growing
<1>5. ASSUME ~ overlapped
      PROVE  /\ c.at \in Mf!Writing \cup Mf!Truncating <=> Mf!Changes(p)
             /\ Mf!GrowInv(p)' /\ Mf!SizeInv(p)' /\ Mf!LoadInv(p)' /\ Mf!ReadInv(p)'
  <2>1. Mf!ReadInv(p) /\ dataBlock <= allocated
    BY <1>5, NumbersAre DEF Mf!Inv
  <2>. QED  BY <1>1, <1>2, <1>3, <2>1
            DEF Mf!GrowInv, Mf!SizeInv, Mf!LoadInv, Mf!ReadInv, Mf!Changes, Mf!Room, Mf!Growing,
                Mf!Placing, Mf!Writing, Mf!Truncating
<1>. QED  BY <1>1, <1>2, <1>3, <1>4, <1>5, QuietKeeps

LEMMA SliceKeeps ==
    ASSUME Mf!MemoryFileAssumption, Mf!Inv, NEW p \in Client, Mf!Slice(p)
    PROVE  Mf!Inv'
<1>. USE DEF Mf!heapVars, Mf!fileVars
<1>1. CASE Mf!Stop("slice")
  BY <1>1, StopKeeps
<1>2. CASE /\ reader[p].offset <= dataSize
           /\ fileCall' = [fileCall EXCEPT ![p] = [@ EXCEPT !.at = "copy", !.number = dataSize]]
           /\ UNCHANGED <<Mf!heapVars, Mf!fileVars, reader, overlapped, filePanic>>
  <2>. DEFINE c == [fileCall[p] EXCEPT !.at = "copy", !.number = dataSize]
  <2>1. /\ c \in Mf!CallType /\ c.at = "copy" /\ c.block = fileCall[p].block /\ c.number = dataSize
    <3>1. fileCall[p] \in Mf!CallType /\ dataSize \in Nat
      BY CallIs, NumbersAre DEF Mf!Inv
    <3>. QED  BY <3>1 DEF Mf!CallType
  <2>2. /\ fileCall' = [fileCall EXCEPT ![p] = c] /\ fileCall[p].at = "size"
        /\ UNCHANGED <<blocks, allocated, dataBlock, dataSize, statSize, written, reader, overlapped, filePanic>>
    BY <1>2 DEF Mf!Slice
  <2>. HIDE DEF c
  <2>3. fileCall'[p] = c
    BY <2>1, <2>2, CallStep DEF Mf!Inv
  <2>4. Mf!RestInv(p)'
    BY <1>2, <2>1, <2>2, <2>3 DEF Mf!RestInv, Mf!Placing, Mf!Growing
  <2>5. ASSUME ~ overlapped
        PROVE  /\ c.at \in Mf!Writing \cup Mf!Truncating <=> Mf!Changes(p)
               /\ Mf!GrowInv(p)' /\ Mf!SizeInv(p)' /\ Mf!LoadInv(p)' /\ Mf!ReadInv(p)'
    <3>1. Mf!LoadInv(p) /\ Mf!ReadInv(p) /\ dataSize \in Nat
      BY <2>5, NumbersAre DEF Mf!Inv
    <3>. QED  BY <1>2, <2>1, <2>2, <2>3, <3>1
              DEF Mf!GrowInv, Mf!SizeInv, Mf!LoadInv, Mf!ReadInv, Mf!Changes, Mf!Room, Mf!Growing,
                  Mf!Placing, Mf!Writing, Mf!Truncating
  <2>. QED  BY <2>1, <2>2, <2>3, <2>4, <2>5, QuietKeeps
<1>. QED  BY <1>1, <1>2 DEF Mf!Slice
\* Two parts of a sequence that adjoin are the part that both make up.
LEMMA PartsJoin ==
    ASSUME NEW S, NEW s \in Seq(S), NEW a \in Nat, NEW n \in Nat, a + n <= Len(s)
    PROVE  SubSeq(s, 1, a) \o SubSeq(s, a + 1, a + n) = SubSeq(s, 1, a + n)
<1>1. PICK x, y, z : x = SubSeq(s, 1, a) /\ y = SubSeq(s, a + 1, a + n) /\ z = SubSeq(s, 1, a + n)
  OBVIOUS
<1>2. x \in Seq(S) /\ Len(x) = a /\ \A i \in 1 .. a : x[i] = s[i]
  BY <1>1
<1>3. y \in Seq(S) /\ Len(y) = n /\ \A i \in 1 .. n : y[i] = s[a + i]
  BY <1>1
<1>4. z \in Seq(S) /\ Len(z) = a + n /\ \A i \in 1 .. a + n : z[i] = s[i]
  BY <1>1
<1>5. PICK w : w = x \o y
  OBVIOUS
<1>6. /\ w \in Seq(S) /\ Len(w) = a + n
      /\ \A i \in 1 .. a + n : w[i] = IF i <= a THEN x[i] ELSE y[i - a]
  BY <1>2, <1>3, <1>5, ConcatProperties
<1>7. ASSUME NEW i \in 1 .. a + n PROVE w[i] = z[i]
  <2>1. CASE i <= a
    BY <1>2, <1>4, <1>6, <2>1
  <2>2. CASE i > a
    <3>1. i - a \in 1 .. n /\ a + (i - a) = i
      BY <2>2
    <3>2. y[i - a] = s[i]
      BY <1>3, <3>1
    <3>. QED  BY <1>4, <1>6, <2>2, <3>2
  <2>. QED  BY <2>1, <2>2
<1>8. w = z
  BY <1>4, <1>6, <1>7
<1>. QED  BY <1>1, <1>5, <1>8

\* What is copied out of the Vector's block continues what was read.
LEMMA ReadOn ==
    ASSUME NEW S, NEW s \in Seq(S), NEW bytes \in Seq(S),
           NEW from \in Nat, NEW n \in Nat, from + n <= Len(s), from + n <= Len(bytes),
           \A i \in 1 .. Len(s) : bytes[i] = s[i]
    PROVE  SubSeq(s, 1, from) \o SubSeq(bytes, from + 1, from + n) = SubSeq(s, 1, from + n)
<1>1. PICK x, y : x = SubSeq(bytes, from + 1, from + n) /\ y = SubSeq(s, from + 1, from + n)
  OBVIOUS
<1>2. x \in Seq(S) /\ Len(x) = n /\ \A i \in 1 .. n : x[i] = bytes[from + i]
  BY <1>1
<1>3. y \in Seq(S) /\ Len(y) = n /\ \A i \in 1 .. n : y[i] = s[from + i]
  BY <1>1
<1>4. ASSUME NEW i \in 1 .. n PROVE x[i] = y[i]
  <2>1. from + i \in 1 .. Len(s)
    OBVIOUS
  <2>. QED  BY <1>2, <1>3, <2>1
<1>5. x = y
  BY <1>2, <1>3, <1>4
<1>. QED  BY <1>1, <1>5, PartsJoin

LEMMA CopiedIs ==
    ASSUME Mf!MemoryFileAssumption, Mf!Inv, NEW p \in Client, fileCall[p].at = "copy"
    PROVE  /\ Mf!Copied(p) \in Mf!HandleType
           /\ ~ overlapped /\ Mf!Copied(p).plain =>
                 /\ Mf!Copied(p).offset \in 0 .. dataSize
                 /\ Mf!Copied(p).got = SubSeq(written, 1, Mf!Copied(p).offset)
<1>. DEFINE from  == reader[p].offset
            to    == from + Mf!Nread(p)
            block == fileCall[p].block
            h     == [offset |-> to, got |-> reader[p].got \o SubSeq(blocks[block], from + 1, to), plain |-> TRUE]
<1>1. /\ from \in Nat /\ reader[p] \in Mf!HandleType /\ reader[p].plain \in BOOLEAN
      /\ reader[p].got \in Seq(Mf!Byte) /\ block \in Mf!Block
      /\ fileCall[p].n \in Nat /\ fileCall[p].number \in Nat /\ from <= fileCall[p].number
  BY CallIs DEF Mf!Inv, Mf!RestInv
<1>2. /\ Mf!Nread(p) \in Nat /\ to \in Nat
      /\ to <= fileCall[p].number /\ Mf!Nread(p) <= fileCall[p].n
  BY <1>1 DEF Mf!Nread, Mf!Least
<1>3. blocks[block] \in Seq(Mf!Byte) /\ Mf!Room(block) = Len(blocks[block])
  BY <1>1, RoomIs DEF Mf!Inv, Mf!Room
<1>. HIDE DEF block
<1>4. CASE Mf!Nread(p) = 0
  <2>1. Mf!Copied(p) = reader[p]
    BY <1>4 DEF Mf!Copied
  <2>2. ~ overlapped => Mf!ReadInv(p)
    BY DEF Mf!Inv
  <2>. QED  BY <1>1, <2>1, <2>2 DEF Mf!ReadInv
<1>5. CASE Mf!Nread(p) # 0 /\ ~ (reader[p].plain /\ to <= Mf!Room(block))
  <2>1. Mf!Copied(p) = Mf!Spoiled(to)
    BY <1>5 DEF Mf!Copied, block
  <2>2. Mf!Spoiled(to) \in Mf!HandleType /\ Mf!Spoiled(to).plain = FALSE
    BY <1>1, <1>2 DEF Mf!Spoiled, Mf!HandleType
  <2>. QED  BY <2>1, <2>2
<1>6. CASE Mf!Nread(p) # 0 /\ reader[p].plain /\ to <= Mf!Room(block)
  <2>1. Mf!Copied(p) = h
    BY <1>6 DEF Mf!Copied, block
  <2>2. h.plain = TRUE /\ h.offset = to /\ h.got = reader[p].got \o SubSeq(blocks[block], from + 1, to)
    OBVIOUS
  <2>3. h \in Mf!HandleType
    <3>1. SubSeq(blocks[block], from + 1, to) \in Seq(Mf!Byte)
      BY <1>1, <1>2, <1>3, <1>6
    <3>2. reader[p].got \o SubSeq(blocks[block], from + 1, to) \in Seq(Mf!Byte)
      BY <1>1, <3>1
    <3>. QED  BY <1>1, <1>2, <3>2 DEF Mf!HandleType
  <2>4. ASSUME ~ overlapped
        PROVE  to \in 0 .. dataSize /\ h.got = SubSeq(written, 1, to)
    <3>1. /\ reader[p].got = SubSeq(written, 1, from) /\ fileCall[p].number <= dataSize
      BY <1>6, <2>4 DEF Mf!Inv, Mf!ReadInv
    <3>2. to <= dataSize /\ dataSize \in Nat
      BY <1>1, <1>2, <3>1, NumbersAre
    <3>3. Mf!Room(block) > 0 /\ to <= Mf!Room(block)
      BY <1>1, <1>2, <1>3, <1>6
    <3>4. block = dataBlock
      BY <2>4, <3>3, <1>3 DEF Mf!Inv, Mf!LoadInv, block
    <3>5. \A q \in Client : fileCall[q].at # "install"
      BY <2>4, <3>3, <3>4, <1>3 DEF Mf!Inv, Mf!GrowInv
    <3>6. /\ \A i \in 1 .. dataSize : blocks[block][i] = written[i]
          /\ dataSize = Len(written) /\ written \in Seq(Client) /\ written \in Seq(Mf!Byte)
      <4>1. written \in Seq(Client) /\ Client \subseteq Mf!Byte
        BY NumbersAre DEF Mf!Byte
      <4>2. written \in Seq(Mf!Byte)
        BY <4>1
      <4>. QED  BY <2>4, <3>4, <3>5, <4>1, <4>2 DEF Mf!Inv, Mf!DataInv
    <3>7. SubSeq(written, 1, from) \o SubSeq(blocks[block], from + 1, from + Mf!Nread(p)) = SubSeq(written, 1, from + Mf!Nread(p))
      <4>1. PICK bytes \in Seq(Mf!Byte) : bytes = blocks[block]
        BY <1>3
      <4>2. PICK n \in Nat : n = Mf!Nread(p)
        BY <1>2
      <4>3. /\ from + n <= Len(written) /\ from + n <= Len(bytes)
            /\ \A i \in 1 .. Len(written) : bytes[i] = written[i]
        BY <1>3, <3>2, <3>3, <3>6, <4>1, <4>2
      <4>. HIDE DEF from
      <4>4. SubSeq(written, 1, from) \o SubSeq(bytes, from + 1, from + n) = SubSeq(written, 1, from + n)
        BY <1>1, <3>6, <4>3, ReadOn
      <4>. QED  BY <4>1, <4>2, <4>4
    <3>8. reader[p].got \o SubSeq(blocks[block], from + 1, to) = SubSeq(written, 1, to)
      BY <3>1, <3>7
    <3>9. to \in 0 .. dataSize
      BY <1>2, <3>2
    <3>. HIDE DEF h, from, to
    <3>. QED  BY <2>2, <3>8, <3>9
  <2>. QED  BY <2>1, <2>2, <2>3, <2>4
<1>. QED  BY <1>4, <1>5, <1>6

LEMMA CopyKeeps ==
    ASSUME Mf!MemoryFileAssumption, Mf!Inv, NEW p \in Client, Mf!Copy(p)
    PROVE  Mf!Inv'
<1>. USE DEF Mf!heapVars, Mf!fileVars
<1>1. /\ Mf!Idle \in Mf!CallType /\ Mf!Idle.at = "idle"
      /\ fileCall' = [fileCall EXCEPT ![p] = Mf!Idle]
      /\ fileCall' \in [Client -> Mf!CallType] /\ fileCall'[p] = Mf!Idle
      /\ \A q \in Client : q # p => fileCall'[q] = fileCall[q]
  BY ReturnsIdle DEF Mf!Copy
<1>2. /\ fileCall[p].at = "copy" /\ overlapped' = overlapped /\ filePanic' = filePanic
      /\ UNCHANGED <<blocks, allocated, dataBlock, dataSize, statSize, written>>
      /\ reader' = [reader EXCEPT ![p] = Mf!Copied(p)]
  BY DEF Mf!Copy
<1>3. /\ reader'[p] = Mf!Copied(p) /\ reader' \in [Client -> Mf!HandleType]
      /\ \A q \in Client : q # p => reader'[q] = reader[q]
  BY <1>2, CopiedIs DEF Mf!Inv, Mf!TypeOK
<1>4. Mf!TypeOK'
  BY <1>1, <1>2, <1>3 DEF Mf!Inv, Mf!TypeOK
<1>5. Mf!HeapInv' /\ \A q \in Client : Mf!RestInv(q)'
  BY <1>1, <1>2, <1>3 DEF Mf!Inv, Mf!HeapInv, Mf!RestInv, Mf!Placing, Mf!Growing
<1>6. ASSUME ~ overlapped'
      PROVE  /\ Mf!DataInv' /\ Mf!AloneInv' /\ Mf!PanicInv'
             /\ \A q \in Client : Mf!GrowInv(q)' /\ Mf!SizeInv(q)' /\ Mf!LoadInv(q)' /\ Mf!ReadInv(q)'
  <2>1. ~ overlapped
    BY <1>2, <1>6
  <2>2. \A q \in Client : fileCall'[q].at = "install" <=> fileCall[q].at = "install"
    BY <1>1, <1>2
  <2>3. Mf!DataInv'
    BY <1>2, <2>1, <2>2 DEF Mf!Inv, Mf!DataInv, Mf!Room
  <2>4. \A q \in Client : Mf!Changes(q)' <=> Mf!Changes(q)
    BY <1>1, <1>2 DEF Mf!Changes, Mf!Writing, Mf!Truncating
  <2>5. Mf!AloneInv' /\ Mf!PanicInv'
    BY <1>2, <2>1, <2>4 DEF Mf!Inv, Mf!AloneInv, Mf!PanicInv
  <2>6. ASSUME NEW q \in Client
        PROVE  Mf!GrowInv(q)' /\ Mf!SizeInv(q)' /\ Mf!LoadInv(q)' /\ Mf!ReadInv(q)'
    <3>1. Mf!GrowInv(q) /\ Mf!SizeInv(q) /\ Mf!LoadInv(q) /\ Mf!ReadInv(q)
      BY <2>1 DEF Mf!Inv
    <3>2. CASE q = p
      <4>1. Mf!GrowInv(q)' /\ Mf!SizeInv(q)' /\ Mf!LoadInv(q)'
        BY <1>1, <3>2 DEF Mf!GrowInv, Mf!SizeInv, Mf!LoadInv, Mf!Growing, Mf!Placing, Mf!Writing
      <4>2. Mf!ReadInv(q)'
        BY <1>1, <1>2, <1>3, <2>1, <3>2, CopiedIs DEF Mf!ReadInv
      <4>. QED  BY <4>1, <4>2
    <3>3. CASE q # p
      BY <1>1, <1>2, <1>3, <3>1, <3>3
         DEF Mf!GrowInv, Mf!Holds, Mf!Room, Mf!SizeInv, Mf!LoadInv, Mf!ReadInv
    <3>. QED  BY <3>2, <3>3
  <2>. QED  BY <2>3, <2>5, <2>6
<1>. QED  BY <1>4, <1>5, <1>6 DEF Mf!Inv

\* The bytes are moved into the new block.
LEMMA MoveKeeps ==
    ASSUME Mf!MemoryFileAssumption, Mf!Inv, NEW p \in Client, Mf!Move(p)
    PROVE  Mf!Inv'
<1>. USE DEF Mf!heapVars, Mf!fileVars
<1>1. CASE ~ overlapped /\ Mf!Room(fileCall[p].block) <= dataSize
  <2>1. fileCall[p].at = "move" /\ fileCall[p].block \in Mf!Block
    BY CallIs DEF Mf!Inv, Mf!Move
  <2>2. dataSize < Mf!Room(fileCall[p].block) /\ dataSize \in Nat /\ Mf!Room(fileCall[p].block) \in Nat
    BY <1>1, <2>1, NumbersAre, RoomIs DEF Mf!Inv, Mf!GrowInv
  <2>. QED  BY <1>1, <2>2
<1>2. CASE overlapped /\ Mf!Stop("assert")
  BY <1>2, StopKeeps
<1>3. CASE /\ Mf!Room(fileCall[p].block) > dataSize
           /\ blocks' = [blocks EXCEPT ![fileCall[p].block] =
                  [i \in DOMAIN @ |-> IF i <= dataSize /\ i <= Mf!Room(dataBlock)
                                      THEN blocks[dataBlock][i] ELSE Junk]]
           /\ Mf!Goes(p, "release")
           /\ UNCHANGED <<allocated, Mf!fileVars, reader, overlapped, filePanic>>
  <2>1. PICK b \in Mf!Block : b = fileCall[p].block
    BY CallIs DEF Mf!Inv
  <2>2. PICK c \in Mf!CallType :
          /\ fileCall' = [fileCall EXCEPT ![p] = c]
          /\ c.at = "release" /\ c.n = fileCall[p].n /\ c.rest = fileCall[p].rest
          /\ c.block = b /\ c.number = fileCall[p].number /\ c.then = fileCall[p].then
    <3>1. "release" \in Mf!Writing \cup Mf!Truncating \cup {"idle", "size", "copy"}
      BY DEF Mf!Writing
    <3>. QED  BY <1>3, <2>1, <3>1, Goes DEF Mf!Inv
  <2>3. /\ fileCall' \in [Client -> Mf!CallType] /\ fileCall'[p] = c
        /\ \A q \in Client : q # p => fileCall'[q] = fileCall[q]
    BY <2>2, CallStep DEF Mf!Inv
  <2>4. /\ fileCall[p].at = "move"
        /\ UNCHANGED <<allocated, dataBlock, dataSize, statSize, written, reader, overlapped, filePanic>>
    BY <1>3 DEF Mf!Move
  <2>5. /\ dataSize \in Nat /\ allocated \in Nat /\ dataBlock \in Nat
        /\ dataBlock \in Mf!Block /\ Mf!Null \in Mf!Block /\ Mf!Null = 0
    BY NumbersAre
  <2>6. /\ blocks \in [Mf!Block -> Seq(Mf!Byte)] /\ blocks[b] \in Seq(Mf!Byte)
        /\ blocks[dataBlock] \in Seq(Mf!Byte) /\ Len(blocks[b]) \in Nat
        /\ Mf!Room(b) = Len(blocks[b]) /\ Mf!Room(dataBlock) = Len(blocks[dataBlock])
    <3>1. blocks \in [Mf!Block -> Seq(Mf!Byte)]
      BY DEF Mf!Inv, Mf!TypeOK
    <3>2. blocks[b] \in Seq(Mf!Byte) /\ blocks[dataBlock] \in Seq(Mf!Byte)
      BY <2>5, <3>1
    <3>. QED  BY <3>1, <3>2 DEF Mf!Room
  <2>7. PICK new : new = [i \in 1 .. Len(blocks[b]) |->
                             IF i <= dataSize /\ i <= Mf!Room(dataBlock) THEN blocks[dataBlock][i] ELSE Junk]
    OBVIOUS
  <2>8. blocks' = [blocks EXCEPT ![b] = new]
    <3>1. DOMAIN blocks[b] = 1 .. Len(blocks[b])
      BY <2>6
    <3>. QED  BY <1>3, <2>1, <2>6, <2>7, <3>1
  <2>9. /\ new \in Seq(Mf!Byte) /\ Len(new) = Len(blocks[b])
        /\ \A i \in 1 .. Len(blocks[b]) :
              new[i] = IF i <= dataSize /\ i <= Mf!Room(dataBlock) THEN blocks[dataBlock][i] ELSE Junk
    <3>1. \A i \in 1 .. Len(blocks[b]) :
              (IF i <= dataSize /\ i <= Mf!Room(dataBlock) THEN blocks[dataBlock][i] ELSE Junk) \in Mf!Byte
      BY <2>6 DEF Mf!Byte
    <3>2. new \in [1 .. Len(blocks[b]) -> Mf!Byte]
      BY <2>7, <3>1
    <3>. QED  BY <2>6, <2>7, <3>2
  <2>10. /\ blocks' \in [Mf!Block -> Seq(Mf!Byte)] /\ blocks'[b] = new
         /\ \A d \in Mf!Block : d # b => blocks'[d] = blocks[d]
    BY <2>6, <2>8, <2>9
  <2>11. \A d \in Mf!Block : Len(blocks'[d]) = Len(blocks[d])
    BY <2>9, <2>10
  <2>12. Mf!TypeOK'
    BY <2>3, <2>4, <2>10 DEF Mf!Inv, Mf!TypeOK
  <2>13. Mf!HeapInv'
    <3>1. ASSUME NEW d \in Mf!Block, blocks[d] = <<>> PROVE blocks'[d] = <<>>
      <4>1. blocks'[d] \in Seq(Mf!Byte) /\ Len(blocks'[d]) = 0
        BY <2>10, <2>11, <3>1
      <4>. QED  BY <4>1
    <3>. QED  BY <2>4, <2>5, <3>1 DEF Mf!Inv, Mf!HeapInv
  <2>14. Mf!RestInv(p)'
    BY <2>2, <2>3, <2>4 DEF Mf!Inv, Mf!RestInv, Mf!Placing, Mf!Growing
  <2>15. Mf!Changes(p)
    BY <2>4 DEF Mf!Changes, Mf!Writing
  <2>16. ASSUME ~ overlapped
         PROVE  /\ Mf!DataInv'
                /\ Mf!GrowInv(p)' /\ Mf!SizeInv(p)' /\ Mf!LoadInv(p)' /\ Mf!ReadInv(p)'
                /\ \A q \in Client : q # p => Mf!LoadInv(q)' /\ Mf!ReadInv(q)'
    <3>1. \A q \in Client : fileCall[q].at # "install"
      <4>1. \A q \in Client : q # p => fileCall[q].at # "install"
        BY <2>15, <2>16, NoOther
      <4>. QED  BY <2>4, <4>1
    <3>2. b \in 1 .. allocated /\ b # dataBlock /\ dataSize < Len(blocks[b])
      BY <2>1, <2>4, <2>6, <2>16 DEF Mf!Inv, Mf!GrowInv, Mf!Growing
    <3>3. /\ dataSize = Len(written) /\ dataSize <= Len(blocks[dataBlock])
          /\ \A i \in 1 .. dataSize : blocks[dataBlock][i] = written[i]
          /\ dataBlock = Mf!Null \/ Len(blocks[dataBlock]) > 0
          /\ dataBlock <= allocated
      BY <2>6, <2>16, <3>1 DEF Mf!Inv, Mf!DataInv
    <3>4. blocks'[dataBlock] = blocks[dataBlock]
      BY <2>5, <2>10, <3>2
    <3>5. Mf!DataInv'
      BY <2>4, <2>6, <3>3, <3>4 DEF Mf!DataInv, Mf!Room
    <3>6. Mf!Holds(b)'
      <4>1. ASSUME NEW i \in 1 .. dataSize PROVE blocks'[b][i] = written[i]
        BY <2>5, <2>6, <2>9, <2>10, <3>2, <3>3
      <4>. QED  BY <2>4, <2>9, <2>10, <3>2, <4>1 DEF Mf!Holds, Mf!Room
    <3>7. Mf!GrowInv(p)'
      BY <2>2, <2>3, <2>4, <3>2, <3>6 DEF Mf!GrowInv, Mf!Growing, Mf!Placing
    <3>8. Mf!SizeInv(p)'
      BY <2>2, <2>3, <2>4, <2>16 DEF Mf!Inv, Mf!SizeInv, Mf!Writing
    <3>9. \A q \in Client : Mf!LoadInv(q)'
      <4>1. ASSUME NEW q \in Client, fileCall'[q].at \in {"size", "copy"}
            PROVE  fileCall'[q] = fileCall[q] /\ fileCall[q].block \in Mf!Block
        <5>1. q # p
          BY <2>2, <2>3, <4>1
        <5>. QED  BY <2>3, <5>1, CallIs DEF Mf!Inv
      <4>. QED  BY <2>4, <2>11, <2>16, <4>1 DEF Mf!Inv, Mf!LoadInv, Mf!Room
    <3>10. \A q \in Client : Mf!ReadInv(q)'
      BY <2>2, <2>3, <2>4, <2>16 DEF Mf!Inv, Mf!ReadInv
    <3>. QED  BY <3>5, <3>7, <3>8, <3>9, <3>10
  <2>17. c.at \in Mf!Writing
    BY <2>2 DEF Mf!Writing
  <2>. QED  BY <2>2, <2>4, <2>12, <2>13, <2>14, <2>15, <2>16, <2>17, ChangeKeeps
<1>4. Mf!Room(fileCall[p].block) \in Nat /\ dataSize \in Nat
  <2>1. fileCall[p].block \in Mf!Block
    BY CallIs DEF Mf!Inv
  <2>. QED  BY <2>1, RoomIs, NumbersAre DEF Mf!Inv
<1>. QED  BY <1>1, <1>2, <1>3, <1>4 DEF Mf!Move

\* The old block is released.
LEMMA ReleaseKeeps ==
    ASSUME Mf!MemoryFileAssumption, Mf!Inv, NEW p \in Client, Mf!Release(p)
    PROVE  Mf!Inv'
<1>. USE DEF Mf!heapVars, Mf!fileVars
<1>1. /\ dataSize \in Nat /\ allocated \in Nat /\ dataBlock \in Nat
      /\ dataBlock \in Mf!Block /\ Mf!Null \in Mf!Block /\ Mf!Null = 0
      /\ fileCall[p].at = "release" /\ Mf!Changes(p)
  BY NumbersAre DEF Mf!Release, Mf!Changes, Mf!Writing
<1>2. ASSUME ~ overlapped PROVE \A q \in Client : fileCall[q].at # "install"
  <2>1. \A q \in Client : q # p => fileCall[q].at # "install"
    BY <1>1, <1>2, NoOther
  <2>. QED  BY <1>1, <2>1
<1>3. CASE ~ overlapped /\ dataBlock # Mf!Null /\ Mf!Room(dataBlock) = 0
  BY <1>2, <1>3 DEF Mf!Inv, Mf!DataInv
<1>4. CASE overlapped /\ Mf!Stop("released twice")
  BY <1>4, StopKeeps
<1>5. CASE /\ blocks' = [blocks EXCEPT ![dataBlock] = <<>>]
           /\ Mf!Goes(p, "install")
           /\ UNCHANGED <<allocated, Mf!fileVars, reader, overlapped, filePanic>>
  <2>1. PICK b \in Mf!Block : b = fileCall[p].block
    BY CallIs DEF Mf!Inv
  <2>2. PICK c \in Mf!CallType :
          /\ fileCall' = [fileCall EXCEPT ![p] = c]
          /\ c.at = "install" /\ c.n = fileCall[p].n /\ c.rest = fileCall[p].rest
          /\ c.block = b /\ c.number = fileCall[p].number /\ c.then = fileCall[p].then
    <3>1. "install" \in Mf!Writing \cup Mf!Truncating \cup {"idle", "size", "copy"}
      BY DEF Mf!Writing
    <3>. QED  BY <1>5, <2>1, <3>1, Goes DEF Mf!Inv
  <2>3. /\ fileCall' \in [Client -> Mf!CallType] /\ fileCall'[p] = c
        /\ \A q \in Client : q # p => fileCall'[q] = fileCall[q]
    BY <2>2, CallStep DEF Mf!Inv
  <2>4. UNCHANGED <<allocated, dataBlock, dataSize, statSize, written, reader, overlapped, filePanic>>
    BY <1>5
  <2>5. blocks \in [Mf!Block -> Seq(Mf!Byte)] /\ <<>> \in Seq(Mf!Byte) /\ Len(<<>>) = 0
    <3>1. blocks \in [Mf!Block -> Seq(Mf!Byte)]
      BY DEF Mf!Inv, Mf!TypeOK
    <3>. QED  BY <3>1
  <2>6. /\ blocks' \in [Mf!Block -> Seq(Mf!Byte)] /\ blocks'[dataBlock] = <<>>
        /\ \A d \in Mf!Block : d # dataBlock => blocks'[d] = blocks[d]
    BY <1>1, <1>5, <2>5
  <2>7. Mf!TypeOK'
    BY <2>3, <2>4, <2>6 DEF Mf!Inv, Mf!TypeOK
  <2>8. Mf!HeapInv'
    BY <1>1, <2>4, <2>6 DEF Mf!Inv, Mf!HeapInv
  <2>9. Mf!RestInv(p)'
    BY <1>1, <2>2, <2>3, <2>4 DEF Mf!Inv, Mf!RestInv, Mf!Placing, Mf!Growing
  <2>10. ASSUME ~ overlapped
         PROVE  /\ Mf!DataInv'
                /\ Mf!GrowInv(p)' /\ Mf!SizeInv(p)' /\ Mf!LoadInv(p)' /\ Mf!ReadInv(p)'
                /\ \A q \in Client : q # p => Mf!LoadInv(q)' /\ Mf!ReadInv(q)'
    <3>1. Mf!DataInv'
      BY <2>2, <2>3, <2>4, <2>10 DEF Mf!Inv, Mf!DataInv
    <3>2. b \in 1 .. allocated /\ b # dataBlock /\ Mf!Holds(b)
      BY <1>1, <2>1, <2>10 DEF Mf!Inv, Mf!GrowInv, Mf!Growing
    <3>3. Mf!Holds(b)' /\ Mf!Room(dataBlock)' = 0
      BY <2>4, <2>5, <2>6, <3>2 DEF Mf!Holds, Mf!Room
    <3>4. Mf!GrowInv(p)'
      BY <2>2, <2>3, <2>4, <3>2, <3>3 DEF Mf!GrowInv, Mf!Growing, Mf!Placing
    <3>5. Mf!SizeInv(p)'
      BY <1>1, <2>2, <2>3, <2>4, <2>10 DEF Mf!Inv, Mf!SizeInv, Mf!Writing
    <3>6. \A q \in Client : Mf!LoadInv(q)'
      <4>1. ASSUME NEW q \in Client, fileCall'[q].at \in {"size", "copy"}
            PROVE  fileCall'[q] = fileCall[q] /\ fileCall[q].block \in Mf!Block
        <5>1. q # p
          BY <2>2, <2>3, <4>1
        <5>. QED  BY <2>3, <5>1, CallIs DEF Mf!Inv
      <4>. QED  BY <2>4, <2>6, <2>10, <4>1 DEF Mf!Inv, Mf!LoadInv, Mf!Room
    <3>7. \A q \in Client : Mf!ReadInv(q)'
      BY <2>2, <2>3, <2>4, <2>10 DEF Mf!Inv, Mf!ReadInv
    <3>. QED  BY <3>1, <3>4, <3>5, <3>6, <3>7
  <2>11. c.at \in Mf!Writing
    BY <2>2 DEF Mf!Writing
  <2>. QED  BY <1>1, <2>2, <2>4, <2>7, <2>8, <2>9, <2>10, <2>11, ChangeKeeps
<1>. QED  BY <1>3, <1>4, <1>5 DEF Mf!Release

\* The Vector takes the new block.
LEMMA InstallKeeps ==
    ASSUME Mf!MemoryFileAssumption, Mf!Inv, NEW p \in Client, Mf!Install(p)
    PROVE  Mf!Inv'
<1>. USE DEF Mf!heapVars
<1>1. PICK b \in Mf!Block, to \in {"append", "place"} : b = fileCall[p].block /\ to = fileCall[p].then
  BY CallIs DEF Mf!Inv
<1>. DEFINE c == [fileCall[p] EXCEPT !.at = to, !.block = Mf!Null, !.then = "append"]
<1>2. /\ c \in Mf!CallType
      /\ c.at = to /\ c.n = fileCall[p].n /\ c.rest = fileCall[p].rest /\ c.number = fileCall[p].number
  <2>1. to \in Mf!Writing \cup Mf!Truncating \cup {"idle", "size", "copy"}
    BY DEF Mf!Writing
  <2>2. fileCall[p] \in Mf!CallType /\ Mf!Null \in Mf!Block
    BY CallIs, NumbersAre DEF Mf!Inv
  <2>. QED  BY <2>1, <2>2 DEF Mf!CallType
<1>3. /\ fileCall' = [fileCall EXCEPT ![p] = c] /\ fileCall[p].at = "install" /\ dataBlock' = b
      /\ UNCHANGED <<blocks, allocated, dataSize, statSize, written, reader, overlapped, filePanic>>
  BY <1>1 DEF Mf!Install
<1>. HIDE DEF c
<1>4. /\ fileCall' \in [Client -> Mf!CallType] /\ fileCall'[p] = c
      /\ \A q \in Client : q # p => fileCall'[q] = fileCall[q]
  BY <1>2, <1>3, CallStep DEF Mf!Inv
<1>5. /\ dataSize \in Nat /\ allocated \in Nat /\ dataBlock \in Nat
      /\ dataBlock \in Mf!Block /\ Mf!Null \in Mf!Block /\ Mf!Null = 0 /\ Mf!Room(b) \in Nat
  <2>1. Mf!Room(b) \in Nat
    BY RoomIs DEF Mf!Inv
  <2>. QED  BY <2>1, NumbersAre
<1>6. Mf!TypeOK'
  BY <1>3, <1>4 DEF Mf!Inv, Mf!TypeOK
<1>7. Mf!Changes(p)
  BY <1>3 DEF Mf!Changes, Mf!Writing
<1>8. Mf!RestInv(p)'
  BY <1>1, <1>2, <1>3, <1>4 DEF Mf!Inv, Mf!RestInv, Mf!Placing, Mf!Growing
<1>9. Mf!HeapInv'
  BY <1>1, <1>3 DEF Mf!Inv, Mf!HeapInv
<1>10. ASSUME ~ overlapped
       PROVE  /\ Mf!DataInv'
              /\ Mf!GrowInv(p)' /\ Mf!SizeInv(p)' /\ Mf!LoadInv(p)' /\ Mf!ReadInv(p)'
              /\ \A q \in Client : q # p => Mf!LoadInv(q)' /\ Mf!ReadInv(q)'
  <2>1. b \in 1 .. allocated /\ b # dataBlock /\ Mf!Holds(b) /\ Mf!Room(dataBlock) = 0
    BY <1>1, <1>3, <1>10 DEF Mf!Inv, Mf!GrowInv, Mf!Growing
  <2>2. dataSize = Len(written)
    BY <1>10 DEF Mf!Inv, Mf!DataInv
  <2>3. Mf!DataInv'
    BY <1>3, <1>5, <2>1, <2>2 DEF Mf!DataInv, Mf!Holds, Mf!Room
  <2>4. Mf!GrowInv(p)'
    BY <1>1, <1>2, <1>3, <1>4, <2>1 DEF Mf!GrowInv, Mf!Growing, Mf!Placing, Mf!Holds, Mf!Room
  <2>5. Mf!SizeInv(p)'
    BY <1>2, <1>3, <1>4, <1>10 DEF Mf!Inv, Mf!SizeInv, Mf!Writing
  <2>6. \A q \in Client : Mf!LoadInv(q)'
    <3>1. ASSUME NEW q \in Client, fileCall'[q].at \in {"size", "copy"}
          PROVE  fileCall'[q] = fileCall[q]
      BY <1>2, <1>4, <3>1
    <3>. QED  BY <1>3, <1>10, <2>1, <3>1 DEF Mf!Inv, Mf!LoadInv, Mf!Room
  <2>7. \A q \in Client : Mf!ReadInv(q)'
    BY <1>2, <1>3, <1>4, <1>10 DEF Mf!Inv, Mf!ReadInv
  <2>. QED  BY <2>3, <2>4, <2>5, <2>6, <2>7
<1>11. c.at \in Mf!Writing
  BY <1>2 DEF Mf!Writing
<1>. QED  BY <1>2, <1>3, <1>6, <1>7, <1>8, <1>9, <1>10, <1>11, ChangeKeeps

\* A byte is put behind the others.
LEMMA StoreKeeps ==
    ASSUME Mf!MemoryFileAssumption, Mf!Inv, NEW p \in Client, Mf!Store(p)
    PROVE  Mf!Inv'
<1>. USE DEF Mf!heapVars, Mf!fileVars
<1>1. PICK b \in Mf!Block, i \in Nat : b = fileCall[p].block /\ i = fileCall[p].number + 1
  <2>1. fileCall[p].block \in Mf!Block /\ fileCall[p].number + 1 \in Nat
    BY CallIs DEF Mf!Inv
  <2>. QED  BY <2>1
<1>2. /\ dataSize \in Nat /\ allocated \in Nat /\ dataBlock \in Nat
      /\ dataBlock \in Mf!Block /\ Mf!Null \in Mf!Block /\ Mf!Null = 0 /\ Mf!Room(b) \in Nat
      /\ fileCall[p].at = "store" /\ Mf!Changes(p)
  <2>1. Mf!Room(b) \in Nat
    BY RoomIs DEF Mf!Inv
  <2>. QED  BY <2>1, NumbersAre DEF Mf!Store, Mf!Changes, Mf!Writing
<1>3. ASSUME ~ overlapped PROVE b = dataBlock /\ i = dataSize + 1 /\ dataSize < Mf!Room(b)
  BY <1>1, <1>2, <1>3 DEF Mf!Inv, Mf!GrowInv, Mf!Placing
<1>4. CASE ~ overlapped /\ i > Mf!Room(b)
  BY <1>2, <1>3, <1>4
<1>5. CASE overlapped /\ Mf!Stop("overwritten")
  BY <1>5, StopKeeps
<1>6. CASE /\ i <= Mf!Room(b)
           /\ blocks' = [blocks EXCEPT ![b][i] = p]
           /\ fileCall' = [fileCall EXCEPT ![p] = [@ EXCEPT !.at = "count", !.number = dataSize]]
           /\ UNCHANGED <<allocated, Mf!fileVars, reader, overlapped, filePanic>>
  <2>. DEFINE c == [fileCall[p] EXCEPT !.at = "count", !.number = dataSize]
  <2>1. /\ c \in Mf!CallType
        /\ c.at = "count" /\ c.n = fileCall[p].n /\ c.rest = fileCall[p].rest
        /\ c.block = b /\ c.number = dataSize
    <3>1. "count" \in Mf!Writing \cup Mf!Truncating \cup {"idle", "size", "copy"}
      BY DEF Mf!Writing
    <3>2. fileCall[p] \in Mf!CallType
      BY CallIs DEF Mf!Inv
    <3>. QED  BY <1>1, <1>2, <3>1, <3>2 DEF Mf!CallType
  <2>2. fileCall' = [fileCall EXCEPT ![p] = c]
    BY <1>6
  <2>. HIDE DEF c
  <2>3. /\ fileCall' \in [Client -> Mf!CallType] /\ fileCall'[p] = c
        /\ \A q \in Client : q # p => fileCall'[q] = fileCall[q]
    BY <2>1, <2>2, CallStep DEF Mf!Inv
  <2>4. UNCHANGED <<allocated, dataBlock, dataSize, statSize, written, reader, overlapped, filePanic>>
    BY <1>6
  <2>5. /\ blocks \in [Mf!Block -> Seq(Mf!Byte)] /\ blocks[b] \in Seq(Mf!Byte)
        /\ i \in 1 .. Len(blocks[b]) /\ p \in Mf!Byte
    <3>1. blocks \in [Mf!Block -> Seq(Mf!Byte)] /\ p \in Mf!Byte
      BY DEF Mf!Inv, Mf!TypeOK, Mf!Byte
    <3>2. 1 <= i
      BY <1>1, CallIs DEF Mf!Inv
    <3>. QED  BY <1>6, <3>1, <3>2 DEF Mf!Room
  <2>6. PICK new : new = [blocks[b] EXCEPT ![i] = p]
    OBVIOUS
  <2>7. /\ new \in Seq(Mf!Byte) /\ Len(new) = Len(blocks[b])
        /\ new[i] = p /\ \A j \in 1 .. Len(blocks[b]) : j # i => new[j] = blocks[b][j]
    BY <2>5, <2>6
  <2>8. /\ blocks' \in [Mf!Block -> Seq(Mf!Byte)] /\ blocks'[b] = new
        /\ \A d \in Mf!Block : d # b => blocks'[d] = blocks[d]
    <3>1. blocks' = [blocks EXCEPT ![b] = new]
      BY <1>6, <2>5, <2>6
    <3>. QED  BY <2>5, <2>7, <3>1
  <2>9. \A d \in Mf!Block : Len(blocks'[d]) = Len(blocks[d])
    BY <2>7, <2>8
  <2>10. Mf!TypeOK'
    BY <2>3, <2>4, <2>8 DEF Mf!Inv, Mf!TypeOK
  <2>11. Mf!HeapInv'
    <3>1. ASSUME NEW d \in Mf!Block, blocks[d] = <<>> PROVE blocks'[d] = <<>>
      <4>1. blocks'[d] \in Seq(Mf!Byte) /\ Len(blocks'[d]) = 0
        BY <2>8, <2>9, <3>1
      <4>. QED  BY <4>1
    <3>. QED  BY <1>2, <2>4, <3>1 DEF Mf!Inv, Mf!HeapInv
  <2>12. Mf!RestInv(p)'
    BY <1>2, <2>1, <2>3, <2>4 DEF Mf!Inv, Mf!RestInv, Mf!Placing, Mf!Growing
  <2>13. ASSUME ~ overlapped
         PROVE  /\ Mf!DataInv'
                /\ Mf!GrowInv(p)' /\ Mf!SizeInv(p)' /\ Mf!LoadInv(p)' /\ Mf!ReadInv(p)'
                /\ \A q \in Client : q # p => Mf!LoadInv(q)' /\ Mf!ReadInv(q)'
    <3>1. \A q \in Client : fileCall[q].at # "install"
      <4>1. \A q \in Client : q # p => fileCall[q].at # "install"
        BY <1>2, <2>13, NoOther
      <4>. QED  BY <1>2, <4>1
    <3>2. /\ dataSize = Len(written) /\ dataSize <= Len(blocks[dataBlock])
          /\ \A j \in 1 .. dataSize : blocks[dataBlock][j] = written[j]
          /\ dataBlock = Mf!Null \/ Len(blocks[dataBlock]) > 0
          /\ dataBlock <= allocated
      BY <2>13, <3>1 DEF Mf!Inv, Mf!DataInv, Mf!Room
    <3>3. b = dataBlock /\ i = dataSize + 1 /\ dataSize < Len(blocks[b]) /\ Len(blocks[b]) \in Nat
      BY <1>2, <1>3, <2>13 DEF Mf!Room
    <3>4. \A j \in 1 .. dataSize : new[j] = written[j]
      <4>1. ASSUME NEW j \in 1 .. dataSize PROVE new[j] = written[j]
        <5>1. j \in 1 .. Len(blocks[b]) /\ j # i
          BY <1>2, <3>3
        <5>. QED  BY <2>7, <3>2, <3>3, <5>1
      <4>. QED  BY <4>1
    <3>5. Mf!DataInv'
      BY <2>4, <2>7, <2>8, <3>2, <3>3, <3>4 DEF Mf!DataInv, Mf!Room
    <3>6. Mf!GrowInv(p)'
      BY <2>1, <2>3, <2>4, <2>7, <2>8, <3>3 DEF Mf!GrowInv, Mf!Growing, Mf!Placing, Mf!Room
    <3>7. Mf!SizeInv(p)'
      BY <1>2, <2>1, <2>3, <2>4, <2>13 DEF Mf!Inv, Mf!SizeInv, Mf!Writing
    <3>8. \A q \in Client : Mf!LoadInv(q)'
      <4>1. ASSUME NEW q \in Client, fileCall'[q].at \in {"size", "copy"}
            PROVE  fileCall'[q] = fileCall[q] /\ fileCall[q].block \in Mf!Block
        <5>1. q # p
          BY <2>1, <2>3, <4>1
        <5>. QED  BY <2>3, <5>1, CallIs DEF Mf!Inv
      <4>. QED  BY <2>4, <2>9, <2>13, <4>1 DEF Mf!Inv, Mf!LoadInv, Mf!Room
    <3>9. \A q \in Client : Mf!ReadInv(q)'
      BY <2>1, <2>3, <2>4, <2>13 DEF Mf!Inv, Mf!ReadInv
    <3>. QED  BY <3>5, <3>6, <3>7, <3>8, <3>9
  <2>14. c.at \in Mf!Writing
    BY <2>1 DEF Mf!Writing
  <2>. QED  BY <1>2, <2>2, <2>1, <2>4, <2>10, <2>11, <2>12, <2>13, <2>14, ChangeKeeps
<1>. QED  BY <1>1, <1>2, <1>4, <1>5, <1>6 DEF Mf!Store

\* The byte is counted.
LEMMA ExtendCountKeeps ==
    ASSUME Mf!MemoryFileAssumption, Mf!Inv, NEW p \in Client, Mf!Count(p)
    PROVE  Mf!Inv'
<1>. USE DEF Mf!heapVars
<1>. DEFINE c == [fileCall[p] EXCEPT !.at = "append", !.rest = fileCall[p].rest - 1, !.block = Mf!Null, !.number = 0]
<1>1. /\ fileCall[p] \in Mf!CallType /\ fileCall[p].at = "count" /\ fileCall[p].rest \in Nat
      /\ fileCall[p].rest > 0 /\ fileCall[p].number \in Nat /\ fileCall[p].n \in Nat
  BY CallIs DEF Mf!Inv, Mf!RestInv, Mf!Placing, Mf!Count
<1>2. /\ c \in Mf!CallType
      /\ c.at = "append" /\ c.n = fileCall[p].n /\ c.rest = fileCall[p].rest - 1
  <2>1. "append" \in Mf!Writing \cup Mf!Truncating \cup {"idle", "size", "copy"}
    BY DEF Mf!Writing
  <2>2. Mf!Null \in Mf!Block /\ 0 \in Nat /\ fileCall[p].rest - 1 \in Nat
    BY <1>1, NumbersAre
  <2>. QED  BY <1>1, <2>1, <2>2 DEF Mf!CallType
<1>3. /\ fileCall' = [fileCall EXCEPT ![p] = c] /\ dataSize' = fileCall[p].number + 1
      /\ written' = Append(written, p)
      /\ UNCHANGED <<blocks, allocated, dataBlock, statSize, reader, overlapped, filePanic>>
  BY DEF Mf!Count
<1>. HIDE DEF c
<1>4. /\ fileCall' \in [Client -> Mf!CallType] /\ fileCall'[p] = c
      /\ \A q \in Client : q # p => fileCall'[q] = fileCall[q]
  BY <1>2, <1>3, CallStep DEF Mf!Inv
<1>5. dataSize \in Nat /\ statSize \in Nat /\ written \in Seq(Client) /\ Len(written) \in Nat
  BY NumbersAre
<1>6. /\ written' \in Seq(Client) /\ Len(written') = Len(written) + 1
      /\ written'[Len(written) + 1] = p /\ \A j \in 1 .. Len(written) : written'[j] = written[j]
  BY <1>3, <1>5
<1>7. Mf!TypeOK'
  <2>1. dataSize' \in Nat
    BY <1>1, <1>3
  <2>. QED  BY <1>3, <1>4, <1>6, <2>1 DEF Mf!Inv, Mf!TypeOK
<1>8. Mf!HeapInv' /\ Mf!RestInv(p)' /\ Mf!Changes(p)
  BY <1>1, <1>2, <1>3, <1>4 DEF Mf!Inv, Mf!HeapInv, Mf!RestInv, Mf!Placing, Mf!Growing, Mf!Changes, Mf!Writing
<1>9. ASSUME ~ overlapped
      PROVE  /\ Mf!DataInv'
             /\ Mf!GrowInv(p)' /\ Mf!SizeInv(p)' /\ Mf!LoadInv(p)' /\ Mf!ReadInv(p)'
             /\ \A q \in Client : q # p => Mf!LoadInv(q)' /\ Mf!ReadInv(q)'
  <2>1. \A q \in Client : fileCall[q].at # "install"
    <3>1. \A q \in Client : q # p => fileCall[q].at # "install"
      BY <1>8, <1>9, NoOther
    <3>. QED  BY <1>1, <3>1
  <2>2. /\ dataSize = Len(written)
        /\ \A j \in 1 .. dataSize : blocks[dataBlock][j] = written[j]
        /\ dataBlock = Mf!Null \/ Mf!Room(dataBlock) > 0
        /\ dataBlock <= allocated
    BY <1>9, <2>1 DEF Mf!Inv, Mf!DataInv
  <2>3. /\ dataSize < Mf!Room(dataBlock) /\ fileCall[p].number = dataSize
        /\ blocks[dataBlock][dataSize + 1] = p
    BY <1>1, <1>9 DEF Mf!Inv, Mf!GrowInv, Mf!Placing
  <2>4. dataSize' = dataSize + 1 /\ dataSize' = Len(written')
    BY <1>3, <1>6, <2>2, <2>3
  <2>5. Mf!DataInv'
    <3>1. ASSUME NEW j \in 1 .. dataSize' PROVE blocks'[dataBlock'][j] = written'[j]
      <4>1. CASE j = dataSize + 1
        BY <1>3, <1>6, <2>2, <2>3, <4>1
      <4>2. CASE j # dataSize + 1
        <5>1. j \in 1 .. dataSize
          BY <1>5, <2>4, <4>2
        <5>. QED  BY <1>3, <1>6, <2>2, <5>1
      <4>. QED  BY <4>1, <4>2
    <3>2. dataSize' <= Mf!Room(dataBlock)
      BY <1>5, <2>3, <2>4, NumbersAre
    <3>. QED  BY <1>3, <2>2, <2>4, <3>1, <3>2 DEF Mf!DataInv, Mf!Room
  <2>6. Mf!GrowInv(p)' /\ Mf!LoadInv(p)'
    BY <1>2, <1>4 DEF Mf!GrowInv, Mf!LoadInv, Mf!Growing, Mf!Placing
  <2>7. Mf!SizeInv(p)'
    <3>1. dataSize = statSize + (fileCall[p].n - fileCall[p].rest) /\ fileCall[p].rest <= fileCall[p].n
      BY <1>1, <1>9 DEF Mf!Inv, Mf!SizeInv, Mf!Writing
    <3>2. dataSize' = statSize' + (c.n - c.rest) /\ c.rest <= c.n
      BY <1>1, <1>2, <1>3, <1>5, <2>4, <3>1
    <3>. QED  BY <1>2, <1>4, <3>2 DEF Mf!SizeInv
  <2>8. \A q \in Client : q # p => Mf!LoadInv(q)'
    BY <1>3, <1>4, <1>9 DEF Mf!Inv, Mf!LoadInv, Mf!Room
  <2>9. ASSUME NEW q \in Client PROVE Mf!ReadInv(q)'
    <3>1. CASE reader[q].plain
      <4>1. /\ reader[q].offset \in 0 .. dataSize /\ reader[q].got = SubSeq(written, 1, reader[q].offset)
            /\ fileCall[q].at = "copy" => fileCall[q].number <= dataSize
        BY <1>9, <3>1 DEF Mf!Inv, Mf!ReadInv
      <4>2. PICK o \in 0 .. dataSize : o = reader[q].offset
        BY <4>1
      <4>3. SubSeq(written', 1, o) = SubSeq(written, 1, o)
        BY <1>5, <1>6, <2>2, <4>2
      <4>4. o \in 0 .. dataSize'
        BY <1>5, <2>4, <4>2
      <4>5. fileCall'[q].at = "copy" => fileCall'[q].number <= dataSize'
        <5>1. CASE q = p
          BY <1>2, <1>4, <5>1
        <5>2. CASE q # p
          <6>1. fileCall'[q] = fileCall[q] /\ fileCall[q].number \in Nat
            BY <1>4, <5>2, CallIs DEF Mf!Inv
          <6>. QED  BY <1>5, <2>4, <4>1, <6>1
        <5>. QED  BY <5>1, <5>2
      <4>. QED  BY <1>3, <4>1, <4>2, <4>3, <4>4, <4>5 DEF Mf!ReadInv
    <3>2. CASE ~ reader[q].plain
      BY <1>3, <3>2 DEF Mf!ReadInv
    <3>. QED  BY <3>1, <3>2
  <2>. QED  BY <2>5, <2>6, <2>7, <2>8, <2>9
<1>10. c.at \in Mf!Writing
  BY <1>2 DEF Mf!Writing
<1>. QED  BY <1>2, <1>3, <1>7, <1>8, <1>9, <1>10, ChangeKeeps

\* The file is empty and nobody has opened it.
LEMMA FileInit ==
    ASSUME Mf!MemoryFileAssumption, Mf!Init
    PROVE  Mf!Inv
<1>. USE DEF Mf!Init
<1>1. /\ Mf!Null \in Mf!Block /\ Mf!Null = 0 /\ <<>> \in Seq(Mf!Byte) /\ Len(<<>>) = 0
      /\ <<>> \in Seq(Client) /\ dataBlock = Mf!Null /\ blocks[Mf!Null] = <<>>
  BY DEF Mf!Block, Mf!Null, Mf!MemoryFileAssumption
<1>2. /\ Mf!Idle \in Mf!CallType /\ Mf!NewHandle \in Mf!HandleType
      /\ Mf!Idle.at = "idle" /\ Mf!Idle.block = Mf!Null
      /\ Mf!NewHandle.offset = 0 /\ Mf!NewHandle.got = <<>>
  BY <1>1 DEF Mf!Idle, Mf!Call, Mf!CallType, Mf!NewHandle, Mf!HandleType
<1>3. Mf!TypeOK
  BY <1>1, <1>2 DEF Mf!TypeOK
<1>4. Mf!HeapInv /\ \A p \in Client : Mf!RestInv(p)
  BY <1>1, <1>2 DEF Mf!HeapInv, Mf!RestInv, Mf!Placing, Mf!Growing
<1>5. Mf!DataInv
  BY <1>1 DEF Mf!DataInv, Mf!Room
<1>6. \A p \in Client : ~ Mf!Changes(p)
  BY <1>2 DEF Mf!Changes, Mf!Writing, Mf!Truncating
<1>7. Mf!AloneInv /\ Mf!PanicInv
  BY <1>6 DEF Mf!AloneInv, Mf!PanicInv
<1>8. ASSUME NEW p \in Client
      PROVE  Mf!GrowInv(p) /\ Mf!SizeInv(p) /\ Mf!LoadInv(p) /\ Mf!ReadInv(p)
  <2>1. Mf!GrowInv(p) /\ Mf!SizeInv(p) /\ Mf!LoadInv(p)
    BY <1>2 DEF Mf!GrowInv, Mf!SizeInv, Mf!LoadInv, Mf!Growing, Mf!Placing, Mf!Writing
  <2>2. Mf!ReadInv(p)
    <3>1. written \in Seq(Client) /\ 0 \in 0 .. dataSize /\ reader[p] = Mf!NewHandle /\ fileCall[p] = Mf!Idle
      BY <1>1
    <3>2. SubSeq(written, 1, 0) = <<>>
      BY <3>1
    <3>. HIDE DEF Mf!Init
    <3>. QED  BY <1>2, <3>1, <3>2 DEF Mf!ReadInv
  <2>. QED  BY <2>1, <2>2
<1>. QED  BY <1>3, <1>4, <1>5, <1>7, <1>8 DEF Mf!Inv

LEMMA FileNext ==
    ASSUME Mf!MemoryFileAssumption, Mf!Inv, Mf!Next
    PROVE  Mf!Inv'
<1>1. ASSUME NEW p \in Client, Mf!Open(p) \/ Mf!Truncate(p) \/ Mf!Clear(p) \/ Mf!Reset(p) PROVE Mf!Inv'
  BY <1>1, OpenKeeps, TruncateKeeps, ClearKeeps, ResetKeeps
<1>2. ASSUME NEW p \in Client, Mf!Extend(p) \/ Mf!Append1(p) \/ Mf!Move(p) \/ Mf!Release(p) \/ Mf!Install(p)
      PROVE  Mf!Inv'
  BY <1>2, ExtendKeeps, Append1Keeps, MoveKeeps, ReleaseKeeps, InstallKeeps
<1>3. ASSUME NEW p \in Client, Mf!Place(p) \/ Mf!Store(p) \/ Mf!Count(p) \/ Mf!Extended(p) \/ Mf!Add(p)
      PROVE  Mf!Inv'
  BY <1>3, ExtendPlaceKeeps, StoreKeeps, ExtendCountKeeps, ExtendedKeeps, AddKeeps
<1>4. ASSUME NEW p \in Client, Mf!Slice(p) \/ Mf!Copy(p) PROVE Mf!Inv'
  BY <1>4, SliceKeeps, CopyKeeps
<1>5. ASSUME NEW p \in Client, NEW n \in 0 .. MaxCount, Mf!Write(p, n) \/ Mf!Read(p, n) PROVE Mf!Inv'
  <2>1. n \in Nat
    BY DEF Mf!MemoryFileAssumption
  <2>. QED  BY <1>5, <2>1, WriteKeeps, ReadKeeps
<1>. QED  BY <1>1, <1>2, <1>3, <1>4, <1>5 DEF Mf!Next

LEMMA FileStutters == ASSUME Mf!Inv, UNCHANGED Mf!vars PROVE Mf!Inv'
<1>. USE DEF Mf!vars, Mf!heapVars, Mf!fileVars
<1>1. Mf!TypeOK' /\ Mf!HeapInv' /\ \A q \in Client : Mf!RestInv(q)'
  BY DEF Mf!Inv, Mf!TypeOK, Mf!HeapInv, Mf!RestInv
<1>2. ASSUME ~ overlapped'
      PROVE  /\ Mf!DataInv' /\ Mf!AloneInv' /\ Mf!PanicInv'
             /\ \A q \in Client : Mf!GrowInv(q)' /\ Mf!SizeInv(q)' /\ Mf!LoadInv(q)' /\ Mf!ReadInv(q)'
  <2>1. ~ overlapped
    BY <1>2
  <2>2. Mf!DataInv' /\ Mf!AloneInv' /\ Mf!PanicInv'
    BY <2>1 DEF Mf!Inv, Mf!DataInv, Mf!AloneInv, Mf!PanicInv, Mf!Room, Mf!Changes
  <2>3. ASSUME NEW q \in Client
        PROVE  Mf!GrowInv(q)' /\ Mf!SizeInv(q)' /\ Mf!LoadInv(q)' /\ Mf!ReadInv(q)'
    <3>1. Mf!GrowInv(q) /\ Mf!SizeInv(q) /\ Mf!LoadInv(q) /\ Mf!ReadInv(q)
      BY <2>1 DEF Mf!Inv
    <3>. QED  BY <3>1 DEF Mf!GrowInv, Mf!Holds, Mf!Room, Mf!SizeInv, Mf!LoadInv, Mf!ReadInv
  <2>. QED  BY <2>2, <2>3
<1>. QED  BY <1>1, <1>2 DEF Mf!Inv

\* While no two calls change the file at a time, its block holds what was written, one call has a
\* new block that is not the file's, and what a read has loaded is the file's block or a released
\* one (Vector.hpp:66-95, MemoryFileSystem.hpp:47-77).
THEOREM FileInvariance == Mf!MemoryFileAssumption => (Mf!Spec => []Mf!Inv)
<1>. SUFFICES ASSUME Mf!MemoryFileAssumption PROVE Mf!Spec => []Mf!Inv
  OBVIOUS
<1>1. Mf!Init => Mf!Inv
  BY FileInit
<1>2. Mf!Inv /\ [Mf!Next]_(Mf!vars) => Mf!Inv'
  BY FileNext, FileStutters
<1>. QED  BY <1>1, <1>2, PTL DEF Mf!Spec

\* A handle reads the bytes of the file in their order and each once (MemoryFileSystem.hpp:71-77).
THEOREM ReadsFromTheBeginning == Mf!MemoryFileAssumption => (Mf!Spec => []ReadsBeginning)
<1>. SUFFICES ASSUME Mf!MemoryFileAssumption PROVE Mf!Spec => []ReadsBeginning
  OBVIOUS
<1>1. Mf!Inv => ReadsBeginning
  <2>. SUFFICES ASSUME Mf!Inv, ~ overlapped, NEW p \in Client, reader[p].plain
                PROVE  reader[p].offset <= Len(written) /\ reader[p].got = SubSeq(written, 1, reader[p].offset)
    BY DEF ReadsBeginning, Mf!ReadsBeginning
  <2>1. reader[p].offset \in 0 .. dataSize /\ reader[p].got = SubSeq(written, 1, reader[p].offset)
    BY DEF Mf!Inv, Mf!ReadInv
  <2>2. dataSize = Len(written)
    BY DEF Mf!Inv, Mf!DataInv
  <2>. QED  BY <2>1, <2>2
<1>2. Mf!Spec => []Mf!Inv
  BY FileInvariance
<1>. QED  BY <1>1, <1>2, PTL

\* fstat() tells of no more than is there, and between the calls of all (MemoryFileSystem.hpp:47-57).
THEOREM FstatNeverTooMuch == Mf!MemoryFileAssumption => (Mf!Spec => []FstatTellsTheSize)
<1>. SUFFICES ASSUME Mf!MemoryFileAssumption PROVE Mf!Spec => []FstatTellsTheSize
  OBVIOUS
<1>1. Mf!Inv => FstatTellsTheSize
  <2>. SUFFICES ASSUME Mf!Inv, ~ overlapped PROVE Mf!FstatTellsTheSize
    BY DEF FstatTellsTheSize, Mf!FstatTellsTheSize
  <2>1. (\A p \in Client : ~ Mf!Changes(p)) => statSize = dataSize
    BY DEF Mf!Inv, Mf!AloneInv
  <2>2. ASSUME \A p \in Client : fileCall[p].at \notin Mf!Truncating PROVE statSize <= dataSize
    <3>1. dataSize \in Nat /\ statSize \in Nat
      BY DEF Mf!Inv, Mf!TypeOK
    <3>2. CASE \A p \in Client : ~ Mf!Changes(p)
      BY <2>1, <3>1, <3>2
    <3>3. ASSUME NEW p \in Client, Mf!Changes(p) PROVE statSize <= dataSize
      <4>1. dataSize = statSize + (fileCall[p].n - fileCall[p].rest) /\ fileCall[p].rest <= fileCall[p].n
        BY <2>2, <3>3 DEF Mf!Inv, Mf!SizeInv, Mf!Changes
      <4>2. fileCall[p].n \in Nat /\ fileCall[p].rest \in Nat
        BY CallIs DEF Mf!Inv
      <4>. QED  BY <3>1, <4>1, <4>2
    <3>. QED  BY <3>2, <3>3
  <2>. QED  BY <2>1, <2>2 DEF Mf!FstatTellsTheSize
<1>2. Mf!Spec => []Mf!Inv
  BY FileInvariance
<1>. QED  BY <1>1, <1>2, PTL

-----------------------------------------------------------------------------
(* The directories *)

\* What is mounted.
LEMMA MountedIs ==
    ASSUME Fs!FileSystemAssumption, NEW m \in Fs!Mounted
    PROVE  /\ m = <<m[1], m[2]>> /\ m[1] \in Fs!Directory /\ m[2] \in Name
           /\ Fs!MountedFile(m) \in Fs!File /\ Fs!MountedFile(m) # Missing
           /\ Fs!Home(m) = m[1] /\ Fs!NameOf(m) = m[2]
           /\ m \in Fs!Node /\ m \notin NewFile /\ m # Missing
           /\ Fs!Root(m[1]) \in Fs!Mounted /\ Fs!Root(m[1]) \in Fs!Ahead(m) /\ m \in Fs!Ahead(m)
           /\ Fs!Ahead(m) \subseteq Fs!Mounted
<1>1. /\ m = <<m[1], m[2]>> /\ m[1] \in {"/", "/dev", "/bin"}
      /\ m[2] \in {".", "..", "dev", "bin", "tty", "sh"}
      /\ <<m[1], ".">> \in Fs!Mounted
  BY DEF Fs!Mounted
<1>2. {".", "..", "dev", "bin", "tty", "sh"} \subseteq Name
  BY DEF Fs!FileSystemAssumption
<1>3. Fs!MountedFile(m) \in {"/", "/dev", "/bin", "/dev/tty", "/bin/sh"}
  BY <1>1 DEF Fs!MountedFile, Fs!Console, Fs!Flash
<1>4. {"/", "/dev", "/bin", "/dev/tty", "/bin/sh"} \subseteq Fs!File
  BY DEF Fs!File, Fs!Directory, Fs!Console, Fs!Flash
<1>5. Missing \notin Fs!Node /\ Missing \notin Fs!File /\ NewFile \cap Fs!Mounted = {}
  BY DEF Fs!FileSystemAssumption
<1>6. m \in Fs!Node /\ m \notin NewFile /\ m # Missing
  BY <1>5 DEF Fs!Node
<1>7. Fs!Root(m[1]) \in Fs!Mounted /\ Fs!Root(m[1]) \in Fs!Ahead(m) /\ m \in Fs!Ahead(m)
  <2>1. <<m[1], ".">>[1] = m[1] /\ <<m[1], ".">>[2] = "."
    OBVIOUS
  <2>. QED  BY <1>1, <2>1 DEF Fs!Root, Fs!Ahead
<1>8. Fs!Ahead(m) \subseteq Fs!Mounted
  BY DEF Fs!Ahead
<1>9. Fs!Home(m) = m[1] /\ Fs!NameOf(m) = m[2]
  BY DEF Fs!Home, Fs!NameOf
<1>10. m[1] \in Fs!Directory /\ m[2] \in Name
  BY <1>1, <1>2 DEF Fs!Directory
<1>. QED  BY <1>1, <1>3, <1>4, <1>5, <1>6, <1>7, <1>8, <1>9, <1>10

\* A node that is not mounted has no entry, or one that nothing mounted has.
LEMMA NodeIs ==
    ASSUME Fs!FileSystemAssumption, Fs!TypeOK, Fs!MountInv, NEW n \in Fs!Node, Fs!Home(n) # Missing
    PROVE  /\ Fs!Home(n) \in Fs!Directory /\ Fs!NameOf(n) \in Name
           /\ n \in Fs!Mounted <=> <<Fs!Home(n), Fs!NameOf(n)>> \in Fs!Mounted
           /\ n \in Fs!Mounted => n = <<Fs!Home(n), Fs!NameOf(n)>>
<1>1. CASE n \in Fs!Mounted
  BY <1>1, MountedIs
<1>2. CASE n \notin Fs!Mounted
  <2>1. n \in NewFile
    BY <1>2 DEF Fs!Node
  <2>2. entry[n] \in (Fs!Directory \X Name) \cup {Fs!NoEntry} /\ entry[n] \notin Fs!Mounted
    BY <2>1 DEF Fs!TypeOK, Fs!MountInv
  <2>3. Fs!Home(n) = entry[n][1] /\ Fs!NameOf(n) = entry[n][2]
    BY <1>2 DEF Fs!Home, Fs!NameOf
  <2>4. entry[n] # Fs!NoEntry
    BY <2>3 DEF Fs!NoEntry
  <2>5. entry[n] \in Fs!Directory \X Name
    BY <2>2, <2>4
  <2>. QED  BY <1>2, <2>2, <2>3, <2>5
<1>. QED  BY <1>1, <1>2

\* The nodes ahead of one that is mounted lead to it.
LEMMA AheadLeads ==
    ASSUME Fs!FileSystemAssumption, NEW m \in Fs!Mounted, NEW n \in Fs!Ahead(m)
    PROVE  /\ n[1] = m[1]
           /\ Rank[m[2]] = Rank[n[2]] => n = m
           /\ Rank[m[2]] < Rank[n[2]] => Fs!MountedLeft(n) \in Fs!Ahead(m)
           /\ Rank[m[2]] > Rank[n[2]] => Fs!MountedRight(n) \in Fs!Ahead(m)
<1>1. /\ Rank["."] < Rank[".."] /\ Rank["."] \in Nat /\ Rank[".."] \in Nat
      /\ Rank[".."] < Rank["bin"] /\ Rank[".."] < Rank["dev"]
      /\ Rank[".."] < Rank["tty"] /\ Rank[".."] < Rank["sh"]
      /\ Rank["bin"] < Rank["dev"]
      /\ Rank["bin"] \in Nat /\ Rank["dev"] \in Nat /\ Rank["tty"] \in Nat /\ Rank["sh"] \in Nat
  <2>1. {".", "..", "dev", "bin", "tty", "sh"} \subseteq Name /\ Rank \in [Name -> Nat]
    BY DEF Fs!FileSystemAssumption
  <2>. QED  BY <2>1 DEF Fs!FileSystemAssumption
<1>2. /\ n[1] = m[1] /\ n \in Fs!Mounted
      /\ \/ n = m
         \/ n[2] = "."
         \/ n[2] = ".." /\ m[2] # "."
         \/ n[2] = "dev" /\ m[2] = "bin"
  BY DEF Fs!Ahead
<1>3. NewFile \cap Fs!Mounted = {}
  BY DEF Fs!FileSystemAssumption
<1>4. n \notin NewFile
  BY <1>2, <1>3
<1>5. CASE n = m
  <2>1. Rank[m[2]] \in Nat
    BY MountedIs DEF Fs!FileSystemAssumption
  <2>. QED  BY <1>5, <2>1
<1>6. CASE n # m /\ n[2] = "."
  <2>1. n = <<m[1], ".">> /\ m # <<m[1], ".">>
    BY <1>2, <1>6, MountedIs
  <2>2. m[2] \in {"..", "dev", "bin", "tty", "sh"} /\ <<m[1], "..">> \in Fs!Mounted
    BY <2>1 DEF Fs!Mounted
  <2>3. Fs!MountedRight(n) = <<m[1], "..">>
    BY <1>4, <2>1 DEF Fs!MountedRight
  <2>4. <<m[1], "..">> \in Fs!Ahead(m)
    <3>1. <<m[1], "..">>[1] = m[1] /\ <<m[1], "..">>[2] = ".." /\ m[2] # "."
      BY <2>2
    <3>. QED  BY <2>2, <3>1 DEF Fs!Ahead
  <2>5. Rank[n[2]] < Rank[m[2]] /\ Rank[n[2]] \in Nat /\ Rank[m[2]] \in Nat
    BY <1>1, <1>6, <2>2
  <2>. QED  BY <1>2, <2>3, <2>4, <2>5
<1>7. CASE n # m /\ n[2] = ".." /\ m[2] # "."
  <2>1. n = <<m[1], "..">> /\ m # <<m[1], "..">>
    BY <1>2, <1>7, MountedIs
  <2>2. /\ m[2] \in {"dev", "bin", "tty", "sh"}
        /\ m[1] = "/" => m[2] \in {"dev", "bin"} /\ <<"/", "dev">> \in Fs!Mounted
        /\ m[1] = "/dev" => m = <<"/dev", "tty">>
        /\ m[1] = "/bin" => m = <<"/bin", "sh">>
        /\ m[1] \in {"/", "/dev", "/bin"}
    BY <1>7, <2>1 DEF Fs!Mounted
  <2>3. Rank[n[2]] < Rank[m[2]] /\ Rank[n[2]] \in Nat /\ Rank[m[2]] \in Nat
    BY <1>1, <1>7, <2>2
  <2>4. CASE m[1] = "/"
    <3>1. Fs!MountedRight(n) = <<"/", "dev">>
      BY <1>4, <2>1, <2>4 DEF Fs!MountedRight
    <3>2. <<"/", "dev">>[1] = m[1] /\ <<"/", "dev">>[2] = "dev"
      BY <2>4
    <3>3. m = <<"/", "dev">> \/ m[2] = "bin"
      BY <2>2, <2>4, MountedIs
    <3>4. <<"/", "dev">> \in Fs!Ahead(m)
      BY <2>2, <2>4, <3>2, <3>3 DEF Fs!Ahead
    <3>. QED  BY <1>2, <2>3, <3>1, <3>4
  <2>5. CASE m[1] = "/dev"
    <3>1. Fs!MountedRight(n) = m
      BY <1>4, <2>1, <2>2, <2>5 DEF Fs!MountedRight
    <3>. QED  BY <1>2, <2>3, <3>1, MountedIs
  <2>6. CASE m[1] = "/bin"
    <3>1. Fs!MountedRight(n) = m
      BY <1>4, <2>1, <2>2, <2>6 DEF Fs!MountedRight
    <3>. QED  BY <1>2, <2>3, <3>1, MountedIs
  <2>. QED  BY <2>2, <2>4, <2>5, <2>6
<1>8. CASE n # m /\ n[2] = "dev" /\ m[2] = "bin"
  <2>1. n = <<"/", "dev">> /\ m = <<"/", "bin">>
    BY <1>2, <1>8 DEF Fs!Mounted
  <2>2. Fs!MountedLeft(n) = m
    BY <2>1 DEF Fs!MountedLeft
  <2>3. Rank[m[2]] < Rank[n[2]] /\ Rank[n[2]] \in Nat /\ Rank[m[2]] \in Nat
    BY <1>1, <1>8
  <2>. QED  BY <1>2, <2>2, <2>3, MountedIs
<1>. QED  BY <1>2, <1>5, <1>6, <1>7, <1>8

\* What a process is doing, and its handle.
LEMMA PathCallIs ==
    ASSUME Fs!TypeOK, NEW p \in Client
    PROVE  /\ pathCall[p] \in Fs!CallType
           /\ pathCall[p].path \in Seq(Name) /\ Len(pathCall[p].path) \in Nat
           /\ pathCall[p].given \in Nat /\ pathCall[p].i \in Nat
           /\ pathCall[p].file \in Fs!File /\ pathCall[p].name \in Name \cup {Missing}
           /\ pathCall[p].node \in Fs!Node \cup {Missing} /\ pathCall[p].above \in Fs!Node \cup {Missing}
           /\ pathCall[p].side \in {"less", "equal", "greater"}
           /\ lister[p] \in Fs!ListerType
           /\ lister = [lister EXCEPT ![p] = lister[p]]
<1>1. pathCall[p] \in Fs!CallType /\ lister[p] \in Fs!ListerType
  BY DEF Fs!TypeOK
<1>2. lister = [lister EXCEPT ![p] = lister[p]]
  BY DEF Fs!TypeOK
<1>3. /\ pathCall[p].path \in Seq(Name)
      /\ pathCall[p].given \in Nat /\ pathCall[p].i \in Nat
      /\ pathCall[p].file \in Fs!File /\ pathCall[p].name \in Name \cup {Missing}
      /\ pathCall[p].node \in Fs!Node \cup {Missing} /\ pathCall[p].above \in Fs!Node \cup {Missing}
      /\ pathCall[p].side \in {"less", "equal", "greater"}
  BY <1>1 DEF Fs!CallType
<1>. QED  BY <1>1, <1>2, <1>3

\* The nodes that are in a directory stay there.
NodesStay == \A n \in Fs!Node : Fs!Home(n) # Missing => Fs!Home(n)' = Fs!Home(n) /\ Fs!NameOf(n)' = Fs!NameOf(n)

\* What a process has found out about them stays right.
LEMMA FoundStays ==
    ASSUME Fs!FileSystemAssumption, NodesStay, NEW d \in Fs!CallType,
           Fs!LookInv(d), Fs!InsertInv(d)
    PROVE  Fs!LookInv(d)' /\ Fs!InsertInv(d)'
<1>1. d.node \in Fs!Node \cup {Missing} /\ d.above \in Fs!Node \cup {Missing} /\ d.file \in Fs!File
  BY DEF Fs!CallType
<1>2. Missing \notin Fs!Directory
  BY DEF Fs!FileSystemAssumption, Fs!File
<1>3. Fs!LookInv(d)'
  <2>1. SUFFICES ASSUME d.at \in Fs!Looking PROVE Fs!LookInv(d)'
    BY DEF Fs!LookInv
  <2>2. Fs!PathInv(d)'
    BY <2>1 DEF Fs!LookInv, Fs!PathInv, Fs!Follows
  <2>3. ASSUME d.at \in {"search", "value"}, d.node # Missing PROVE d.node \in Fs!Node /\ Fs!Home(d.node) # Missing
    BY <1>1, <1>2, <2>1, <2>3 DEF Fs!LookInv
  <2>4. d.at \in {"search", "value"} => (d.node # Missing => Fs!Home(d.node)' = d.file)
    BY <2>1, <2>3 DEF Fs!LookInv, NodesStay
  <2>5. d.at = "value" => Fs!NameOf(d.node)' = d.path[d.i + 1]
    BY <2>1, <2>3 DEF Fs!LookInv, NodesStay
  <2>. HIDE DEF Fs!Home, Fs!NameOf
  <2>. QED  BY <2>1, <2>2, <2>4, <2>5 DEF Fs!LookInv
<1>4. Fs!InsertInv(d)'
  <2>1. SUFFICES ASSUME d.at \in Fs!Inserting PROVE Fs!InsertInv(d)'
    BY DEF Fs!InsertInv
  <2>2. d.file \in Fs!Node /\ Fs!Home(d.file) # Missing
    BY <2>1 DEF Fs!InsertInv, Fs!Node
  <2>3. Fs!Home(d.file)' = Fs!Home(d.file) /\ Fs!NameOf(d.file)' = Fs!NameOf(d.file)
    BY <2>2 DEF NodesStay
  <2>4. /\ d.node # Missing => Fs!Home(d.node)' = Fs!Home(d.node)
        /\ d.above # Missing => Fs!Home(d.above)' = Fs!Home(d.above)
    BY <1>1, <2>1, <2>2 DEF Fs!InsertInv, NodesStay
  <2>. QED  BY <2>1, <2>3, <2>4 DEF Fs!InsertInv
<1>. QED  BY <1>3, <1>4

\* A step of one process, which changes what the others have found out about no node.
LEMMA DirectoryStep ==
    ASSUME Fs!FileSystemAssumption, Fs!Inv, NEW p \in Client,
           NEW c \in Fs!CallType, Fs!Becomes(p, c),
           NEW l \in Fs!ListerType, lister' = [lister EXCEPT ![p] = l],
           begun' \in Nat, torn' \subseteq Fs!Directory, cwd' \in [Client -> Seq(Name)],
           entry' \in [NewFile -> (Fs!Directory \X Name) \cup {Fs!NoEntry}],
           nodeValue' \in [Fs!Node -> Fs!File \cup {Missing}],
           leftNode' \in [Fs!Node -> Fs!Node \cup {Missing}],
           rightNode' \in [Fs!Node -> Fs!Node \cup {Missing}],
           parentNode' \in [Fs!Node -> Fs!Node \cup {Missing}],
           Fs!MountInv', Fs!HomeInv', Fs!CwdInv', NodesStay,
           Fs!LookInv(c)', Fs!InsertInv(c)', Fs!WalkInv(c, l)
    PROVE  Fs!Inv'
<1>1. /\ pathCall \in [Client -> Fs!CallType] /\ lister \in [Client -> Fs!ListerType]
      /\ pathCall' = [pathCall EXCEPT ![p] = c]
  BY DEF Fs!Inv, Fs!TypeOK, Fs!Becomes
<1>2. /\ pathCall' \in [Client -> Fs!CallType] /\ lister' \in [Client -> Fs!ListerType]
      /\ pathCall'[p] = c /\ lister'[p] = l
      /\ \A q \in Client : q # p => pathCall'[q] = pathCall[q] /\ lister'[q] = lister[q]
  BY <1>1
<1>3. Fs!TypeOK'
  BY <1>2 DEF Fs!TypeOK
<1>4. ASSUME NEW q \in Client
      PROVE  Fs!LookInv(pathCall[q])' /\ Fs!InsertInv(pathCall[q])' /\ Fs!WalkInv(pathCall[q], lister[q])'
  <2>1. PICK d \in Fs!CallType : d = pathCall'[q]
    BY <1>2
  <2>2. Fs!LookInv(d)' /\ Fs!InsertInv(d)'
    <3>1. CASE q = p
      BY <1>2, <2>1, <3>1
    <3>2. CASE q # p
      <4>1. d = pathCall[q]
        BY <1>2, <2>1, <3>2
      <4>2. Fs!LookInv(d) /\ Fs!InsertInv(d)
        BY <4>1 DEF Fs!Inv
      <4>. QED  BY <4>2, FoundStays
    <3>. QED  BY <3>1, <3>2
  <2>3. Fs!LookInv(pathCall[q])'
    <3>1. Fs!PathInv(d)' => Fs!PathInv(pathCall[q])'
      BY <2>1 DEF Fs!PathInv
    <3>. QED  BY <2>1, <2>2, <3>1 DEF Fs!LookInv, Fs!Home, Fs!NameOf
  <2>4. Fs!InsertInv(pathCall[q])'
    BY <2>1, <2>2 DEF Fs!InsertInv, Fs!Home, Fs!NameOf
  <2>5. Fs!WalkInv(pathCall[q], lister[q])'
    BY <1>2 DEF Fs!WalkInv, Fs!Inv
  <2>. QED  BY <2>3, <2>4, <2>5
<1>. QED  BY <1>3, <1>4 DEF Fs!Inv

\* The same where no directory changes.
LEMMA QuietDirectoryStep ==
    ASSUME Fs!FileSystemAssumption, Fs!Inv, NEW p \in Client,
           NEW c \in Fs!CallType, Fs!Becomes(p, c),
           NEW l \in Fs!ListerType, lister' = [lister EXCEPT ![p] = l],
           begun' \in Nat, torn' = torn, UNCHANGED <<Fs!treeVars, cwd>>,
           Fs!LookInv(c), Fs!InsertInv(c), Fs!WalkInv(c, l)
    PROVE  Fs!Inv'
<1>1. /\ entry' = entry /\ nodeValue' = nodeValue /\ leftNode' = leftNode
      /\ rightNode' = rightNode /\ parentNode' = parentNode /\ cwd' = cwd
  BY DEF Fs!treeVars
<1>2. NodesStay
  BY <1>1 DEF NodesStay, Fs!Home, Fs!NameOf
<1>3. /\ torn' \subseteq Fs!Directory /\ cwd' \in [Client -> Seq(Name)]
      /\ entry' \in [NewFile -> (Fs!Directory \X Name) \cup {Fs!NoEntry}]
      /\ nodeValue' \in [Fs!Node -> Fs!File \cup {Missing}]
      /\ leftNode' \in [Fs!Node -> Fs!Node \cup {Missing}]
      /\ rightNode' \in [Fs!Node -> Fs!Node \cup {Missing}]
      /\ parentNode' \in [Fs!Node -> Fs!Node \cup {Missing}]
  BY <1>1 DEF Fs!Inv, Fs!TypeOK
<1>4. Fs!MountInv' /\ Fs!HomeInv' /\ Fs!CwdInv'
  BY <1>1 DEF Fs!Inv, Fs!MountInv, Fs!HomeInv, Fs!Home, Fs!CwdInv, Fs!Follows
<1>5. Fs!LookInv(c)' /\ Fs!InsertInv(c)'
  BY <1>1 DEF Fs!LookInv, Fs!InsertInv, Fs!PathInv, Fs!Follows, Fs!Home, Fs!NameOf
<1>. QED  BY <1>2, <1>3, <1>4, <1>5, DirectoryStep

\* The same for a process whose handle stays.
LEMMA QuietCall ==
    ASSUME Fs!FileSystemAssumption, Fs!Inv, NEW p \in Client,
           NEW c \in Fs!CallType, Fs!Becomes(p, c), lister' = lister,
           begun' \in Nat, torn' = torn, UNCHANGED <<Fs!treeVars, cwd>>,
           Fs!LookInv(c), Fs!InsertInv(c), Fs!WalkInv(c, lister[p])
    PROVE  Fs!Inv'
<1>1. lister[p] \in Fs!ListerType /\ lister' = [lister EXCEPT ![p] = lister[p]]
  BY PathCallIs DEF Fs!Inv
<1>. QED  BY <1>1, QuietDirectoryStep

\* A call that goes on somewhere else.
LEMMA GoesOn ==
    ASSUME Fs!TypeOK, NEW p \in Client,
           NEW to \in {"idle"} \cup Fs!Looking \cup Fs!Inserting \cup Fs!Walking, Fs!Goes(p, to)
    PROVE  \E c \in Fs!CallType :
              /\ Fs!Becomes(p, c)
              /\ c.at = to /\ c.path = pathCall[p].path /\ c.given = pathCall[p].given
              /\ c.i = pathCall[p].i /\ c.file = pathCall[p].file /\ c.name = pathCall[p].name
              /\ c.node = pathCall[p].node /\ c.above = pathCall[p].above /\ c.side = pathCall[p].side
<1>. DEFINE c == [pathCall[p] EXCEPT !.at = to]
<1>1. pathCall[p] \in Fs!CallType
  BY PathCallIs
<1>2. /\ c \in Fs!CallType
      /\ c.at = to /\ c.path = pathCall[p].path /\ c.given = pathCall[p].given
      /\ c.i = pathCall[p].i /\ c.file = pathCall[p].file /\ c.name = pathCall[p].name
      /\ c.node = pathCall[p].node /\ c.above = pathCall[p].above /\ c.side = pathCall[p].side
  BY <1>1 DEF Fs!CallType
<1>3. Fs!Becomes(p, c)
  BY DEF Fs!Goes
<1>. HIDE DEF c
<1>. QED  BY <1>2, <1>3

\* The next component of a path.
LEMMA ComponentIs ==
    ASSUME Fs!TypeOK, NEW p \in Client, pathCall[p].i \in Nat, pathCall[p].i < Len(pathCall[p].path)
    PROVE  /\ pathCall[p].i + 1 \in 1 .. Len(pathCall[p].path)
           /\ pathCall[p].path[pathCall[p].i + 1] \in Name
<1>1. pathCall[p].path \in Seq(Name) /\ Len(pathCall[p].path) \in Nat
  BY PathCallIs
<1>2. pathCall[p].i + 1 \in 1 .. Len(pathCall[p].path)
  BY <1>1
<1>. QED  BY <1>1, <1>2, ElementOfSeq

\* The keys of what is mounted are never moved.
LEMMA ComparedIs ==
    ASSUME Fs!FileSystemAssumption, Fs!Inv, NEW name \in Name, NEW n \in Fs!Node, Fs!Home(n) # Missing,
           NEW side \in Fs!Compared(name, n)
    PROVE  /\ side \in {"less", "equal", "greater"}
           /\ side = "equal" => name = Fs!NameOf(n)
           /\ n \in Fs!Mounted /\ side = "less" => Rank[name] < Rank[Fs!NameOf(n)]
           /\ n \in Fs!Mounted /\ side = "greater" => Rank[name] > Rank[Fs!NameOf(n)]
<1>1. n \in Fs!Mounted => ~ Fs!Damaged(n)
  <2>1. SUFFICES ASSUME n \in Fs!Mounted, NEW q \in Client, pathCall[q].at = "take", pathCall[q].node = n
                 PROVE  FALSE
    BY DEF Fs!Damaged
  <2>2. Fs!InsertInv(pathCall[q])
    BY DEF Fs!Inv
  <2>3. n \in NewFile
    BY <2>1, <2>2 DEF Fs!InsertInv, Fs!Inserting
  <2>. QED  BY <2>1, <2>3 DEF Fs!FileSystemAssumption
<1>2. Fs!NameOf(n) \in Name
  BY NodeIs DEF Fs!Inv
<1>3. /\ Rank[name] \in Nat /\ Rank[Fs!NameOf(n)] \in Nat
      /\ Rank[name] = Rank[Fs!NameOf(n)] => name = Fs!NameOf(n)
  BY <1>2 DEF Fs!FileSystemAssumption
<1>. QED  BY <1>1, <1>3 DEF Fs!Compared

\* A name is searched below the right nodes.
LEMMA SearchKeeps ==
    ASSUME Fs!FileSystemAssumption, Fs!Inv, NEW p \in Client, pathCall[p].at = "search", Fs!Search(p)
    PROVE  Fs!Inv'
<1>. DEFINE c == pathCall[p]
            w == pathCall[p].path[pathCall[p].i + 1]
            m == <<c.file, w>>
<1>1. /\ Fs!TypeOK /\ Fs!MountInv /\ Fs!HomeInv
      /\ Fs!LookInv(c)
  BY DEF Fs!Inv
<1>2. /\ c \in Fs!CallType /\ c.i \in Nat /\ c.node \in Fs!Node
      /\ begun \in Nat /\ UNCHANGED <<Fs!treeVars, lister, cwd, begun, torn>>
  BY <1>1, PathCallIs DEF Fs!Search, Fs!TypeOK
<1>3. /\ c.i < Len(c.path) /\ c.file \in Fs!Directory /\ Fs!PathInv(c) /\ c.i \in 0 .. Len(c.path)
      /\ Fs!Home(c.node) = c.file
      /\ m \in Fs!Mounted => c.node \in Fs!Ahead(m)
  BY <1>1, <1>2 DEF Fs!LookInv, Fs!Looking, Fs!Search
<1>4. w \in Name
  BY <1>1, <1>2, <1>3, ComponentIs
<1>5. Fs!Home(c.node) # Missing
  BY <1>3 DEF Fs!FileSystemAssumption, Fs!File
<1>6. PICK side \in Fs!Compared(w, c.node) :
         IF side = "equal" THEN Fs!Goes(p, "value")
         ELSE Fs!Becomes(p, [c EXCEPT !.above = c.node,
                                      !.node = IF side = "less" THEN leftNode[c.node] ELSE rightNode[c.node]])
  BY DEF Fs!Search, Fs!Wanted
<1>7. /\ side \in {"less", "equal", "greater"}
      /\ side = "equal" => w = Fs!NameOf(c.node)
      /\ c.node \in Fs!Mounted /\ side = "less" => Rank[w] < Rank[Fs!NameOf(c.node)]
      /\ c.node \in Fs!Mounted /\ side = "greater" => Rank[w] > Rank[Fs!NameOf(c.node)]
  BY <1>2, <1>4, <1>5, ComparedIs
<1>8. CASE side = "equal"
  <2>1. "value" \in {"idle"} \cup Fs!Looking \cup Fs!Inserting \cup Fs!Walking
    BY DEF Fs!Looking
  <2>2. PICK d \in Fs!CallType :
              /\ Fs!Becomes(p, d)
              /\ d.at = "value" /\ d.path = c.path /\ d.given = c.given /\ d.i = c.i
              /\ d.file = c.file /\ d.name = c.name /\ d.node = c.node
    BY <1>1, <1>6, <1>8, <2>1, GoesOn
  <2>3. Fs!PathInv(d)
    BY <1>3, <2>2 DEF Fs!PathInv
  <2>4. Fs!LookInv(d)
    <3>1. d.node # Missing /\ Fs!Home(d.node) = d.file /\ Fs!NameOf(d.node) = d.path[d.i + 1]
      BY <1>2, <1>3, <1>7, <1>8, <2>2 DEF Fs!FileSystemAssumption
    <3>2. <<d.file, d.path[d.i + 1]>> \in Fs!Mounted => d.node \in Fs!Ahead(<<d.file, d.path[d.i + 1]>>)
      BY <1>3, <2>2
    <3>3. d.i \in 0 .. Len(d.path) /\ d.i < Len(d.path) /\ d.file \in Fs!Directory
      BY <1>3, <2>2
    <3>. QED  BY <2>2, <2>3, <3>1, <3>2, <3>3 DEF Fs!LookInv
  <2>5. Fs!InsertInv(d) /\ Fs!WalkInv(d, lister[p])
    BY <2>2 DEF Fs!InsertInv, Fs!WalkInv, Fs!Inserting
  <2>. QED  BY <1>2, <2>2, <2>4, <2>5, QuietCall
<1>9. CASE side # "equal"
  <2>. DEFINE n == IF side = "less" THEN leftNode[c.node] ELSE rightNode[c.node]
              d == [c EXCEPT !.above = c.node, !.node = n]
  <2>1. n \in Fs!Node \cup {Missing}
    BY <1>1, <1>2 DEF Fs!TypeOK
  <2>2. /\ d \in Fs!CallType
        /\ d.at = "search" /\ d.path = c.path /\ d.given = c.given /\ d.i = c.i
        /\ d.file = c.file /\ d.name = c.name /\ d.node = n
    BY <1>2, <2>1 DEF Fs!CallType
  <2>3. Fs!Becomes(p, d)
    BY <1>6, <1>9
  <2>4. n # Missing => Fs!Home(n) = c.file
    BY <1>1, <1>2, <1>3 DEF Fs!HomeInv
  <2>5. m \in Fs!Mounted => n \in Fs!Ahead(m)
    <3>1. SUFFICES ASSUME m \in Fs!Mounted PROVE n \in Fs!Ahead(m)
      OBVIOUS
    <3>2. c.node \in Fs!Ahead(m) /\ c.node \in Fs!Mounted /\ m[2] = w /\ Fs!NameOf(c.node) = c.node[2]
      BY <1>3, <3>1, MountedIs
    <3>3. Missing \notin Fs!Ahead(m)
      BY <3>1, MountedIs DEF Fs!FileSystemAssumption, Fs!Node
    <3>4. CASE side = "less"
      <4>1. Fs!MountedLeft(c.node) \in Fs!Ahead(m)
        BY <1>7, <3>1, <3>2, <3>4, AheadLeads
      <4>2. leftNode[c.node] = Fs!MountedLeft(c.node)
        BY <1>1, <3>2, <3>3, <4>1 DEF Fs!MountInv
      <4>. QED  BY <3>4, <4>1, <4>2
    <3>5. CASE side = "greater"
      <4>1. Fs!MountedRight(c.node) \in Fs!Ahead(m)
        BY <1>7, <3>1, <3>2, <3>5, AheadLeads
      <4>2. rightNode[c.node] = Fs!MountedRight(c.node)
        BY <1>1, <3>2, <3>3, <4>1 DEF Fs!MountInv
      <4>. QED  BY <3>5, <4>1, <4>2
    <3>. QED  BY <1>7, <1>9, <3>4, <3>5
  <2>. HIDE DEF d, n
  <2>6. Fs!PathInv(d)
    BY <1>3, <2>2 DEF Fs!PathInv
  <2>7. Fs!LookInv(d)
    BY <1>3, <2>2, <2>4, <2>5, <2>6 DEF Fs!LookInv
  <2>8. Fs!InsertInv(d) /\ Fs!WalkInv(d, lister[p])
    BY <2>2 DEF Fs!InsertInv, Fs!WalkInv, Fs!Inserting
  <2>. QED  BY <1>2, <2>2, <2>3, <2>7, <2>8, QuietCall
<1>. QED  BY <1>8, <1>9

\* A place is searched, and the node of the same name is found only if it is none that is mounted.
LEMMA PlaceKeeps ==
    ASSUME Fs!FileSystemAssumption, Fs!Inv, NEW p \in Client, pathCall[p].at = "place", Fs!Search(p)
    PROVE  Fs!Inv'
<1>. DEFINE c == pathCall[p]
<1>1. /\ Fs!TypeOK /\ Fs!MountInv /\ Fs!HomeInv
      /\ Fs!InsertInv(c)
  BY DEF Fs!Inv
<1>2. /\ c \in Fs!CallType /\ c.node \in Fs!Node /\ c.node # Missing
      /\ begun \in Nat /\ UNCHANGED <<Fs!treeVars, lister, cwd, begun, torn>>
  BY <1>1, PathCallIs DEF Fs!Search, Fs!TypeOK
<1>3. /\ c.file \in NewFile /\ Fs!Home(c.file) # Missing /\ Fs!NameOf(c.file) = c.name
      /\ Fs!Home(c.node) = Fs!Home(c.file)
      /\ c.file \in Fs!Node /\ c.file \notin Fs!Mounted
  BY <1>1, <1>2 DEF Fs!InsertInv, Fs!Inserting, Fs!Node, Fs!FileSystemAssumption
<1>4. /\ c.name \in Name
      /\ <<Fs!Home(c.file), c.name>> \notin Fs!Mounted
  BY <1>1, <1>3, NodeIs
<1>5. PICK side \in Fs!Compared(c.name, c.node) :
         IF side = "equal" THEN Fs!Goes(p, "forget")
         ELSE Fs!Becomes(p, [c EXCEPT !.above = c.node,
                                      !.node = IF side = "less" THEN leftNode[c.node] ELSE rightNode[c.node]])
  BY DEF Fs!Search, Fs!Wanted
<1>6. side = "equal" => c.name = Fs!NameOf(c.node)
  BY <1>2, <1>3, <1>4, ComparedIs
<1>7. CASE side = "equal"
  <2>1. c.node \in NewFile
    <3>1. <<Fs!Home(c.node), Fs!NameOf(c.node)>> \notin Fs!Mounted
      BY <1>3, <1>4, <1>6, <1>7
    <3>. QED  BY <1>1, <1>2, <1>3, <3>1, NodeIs DEF Fs!Node
  <2>2. "forget" \in {"idle"} \cup Fs!Looking \cup Fs!Inserting \cup Fs!Walking
    BY DEF Fs!Inserting
  <2>3. PICK d \in Fs!CallType :
              /\ Fs!Becomes(p, d)
              /\ d.at = "forget" /\ d.file = c.file /\ d.name = c.name /\ d.node = c.node /\ d.above = c.above
    BY <1>1, <1>5, <1>7, <2>2, GoesOn
  <2>4. Fs!InsertInv(d)
    BY <1>1, <1>2, <1>3, <2>1, <2>3 DEF Fs!InsertInv, Fs!Inserting
  <2>5. Fs!LookInv(d) /\ Fs!WalkInv(d, lister[p])
    BY <2>3 DEF Fs!LookInv, Fs!WalkInv, Fs!Looking
  <2>. QED  BY <1>2, <2>3, <2>4, <2>5, QuietCall
<1>8. CASE side # "equal"
  <2>. DEFINE n == IF side = "less" THEN leftNode[c.node] ELSE rightNode[c.node]
              d == [c EXCEPT !.above = c.node, !.node = n]
  <2>1. n \in Fs!Node \cup {Missing}
    BY <1>1, <1>2 DEF Fs!TypeOK
  <2>2. /\ d \in Fs!CallType
        /\ d.at = "place" /\ d.file = c.file /\ d.name = c.name /\ d.node = n /\ d.above = c.node
    BY <1>2, <2>1 DEF Fs!CallType
  <2>3. Fs!Becomes(p, d)
    BY <1>5, <1>8
  <2>4. n # Missing => Fs!Home(n) = Fs!Home(c.file)
    BY <1>1, <1>2, <1>3 DEF Fs!HomeInv
  <2>. HIDE DEF d, n
  <2>5. Fs!InsertInv(d)
    BY <1>2, <1>3, <2>2, <2>4 DEF Fs!InsertInv
  <2>6. Fs!LookInv(d) /\ Fs!WalkInv(d, lister[p])
    BY <2>2 DEF Fs!LookInv, Fs!WalkInv, Fs!Looking
  <2>. QED  BY <1>2, <2>2, <2>3, <2>5, <2>6, QuietCall
<1>. QED  BY <1>7, <1>8

\* What is mounted is not missed.
LEMMA NotThereKeeps ==
    ASSUME Fs!FileSystemAssumption, Fs!Inv, NEW p \in Client, Fs!NotThere(p)
    PROVE  Fs!Inv'
<1>. DEFINE c == pathCall[p]
<1>1. /\ Fs!TypeOK /\ Fs!LookInv(c) /\ Fs!InsertInv(c)
      /\ begun \in Nat /\ UNCHANGED <<Fs!treeVars, lister, cwd, begun, torn>>
      /\ c.node = Missing
  BY DEF Fs!Inv, Fs!NotThere, Fs!TypeOK
<1>2. CASE c.at = "search" /\ Fs!Goes(p, "missing")
  <2>1. "missing" \in {"idle"} \cup Fs!Looking \cup Fs!Inserting \cup Fs!Walking
    BY DEF Fs!Looking
  <2>2. PICK d \in Fs!CallType :
              /\ Fs!Becomes(p, d)
              /\ d.at = "missing" /\ d.path = c.path /\ d.given = c.given /\ d.i = c.i
              /\ d.file = c.file /\ d.name = c.name /\ d.node = c.node
    BY <1>1, <1>2, <2>1, GoesOn
  <2>3. /\ c.i \in 0 .. Len(c.path) /\ Fs!PathInv(c) /\ c.i < Len(c.path) /\ c.file \in Fs!Directory
        /\ <<c.file, c.path[c.i + 1]>> \in Fs!Mounted => c.node \in Fs!Ahead(<<c.file, c.path[c.i + 1]>>)
    BY <1>1, <1>2 DEF Fs!LookInv, Fs!Looking
  <2>4. <<d.file, d.path[d.i + 1]>> \notin Fs!Mounted
    <3>1. SUFFICES ASSUME <<c.file, c.path[c.i + 1]>> \in Fs!Mounted PROVE FALSE
      BY <2>2
    <3>2. Missing \in Fs!Mounted
      BY <1>1, <2>3, <3>1, MountedIs
    <3>. QED  BY <3>2, MountedIs
  <2>5. Fs!PathInv(d)
    BY <2>2, <2>3 DEF Fs!PathInv
  <2>6. Fs!LookInv(d)
    BY <2>2, <2>3, <2>4, <2>5 DEF Fs!LookInv
  <2>7. Fs!InsertInv(d) /\ Fs!WalkInv(d, lister[p])
    BY <2>2 DEF Fs!InsertInv, Fs!WalkInv, Fs!Inserting
  <2>. QED  BY <1>1, <2>2, <2>6, <2>7, QuietCall
<1>3. CASE c.at = "place" /\ Fs!Goes(p, "slot")
  <2>1. "slot" \in {"idle"} \cup Fs!Looking \cup Fs!Inserting \cup Fs!Walking
    BY DEF Fs!Inserting
  <2>2. PICK d \in Fs!CallType :
              /\ Fs!Becomes(p, d)
              /\ d.at = "slot" /\ d.file = c.file /\ d.name = c.name /\ d.node = c.node /\ d.above = c.above
    BY <1>1, <1>3, <2>1, GoesOn
  <2>3. Fs!InsertInv(d)
    BY <1>1, <1>3, <2>2 DEF Fs!InsertInv, Fs!Inserting
  <2>4. Fs!LookInv(d) /\ Fs!WalkInv(d, lister[p])
    BY <2>2 DEF Fs!LookInv, Fs!WalkInv, Fs!Looking
  <2>. QED  BY <1>1, <2>2, <2>3, <2>4, QuietCall
<1>. QED  BY <1>2, <1>3 DEF Fs!NotThere

\* Arriving at a file on the way.
LEMMA ArrivedIs ==
    ASSUME Fs!FileSystemAssumption, NEW d \in Fs!CallType, d.i \in 0 .. Len(d.path), Fs!PathInv(d),
           NEW l
    PROVE  /\ Fs!Arrived(d) \in Fs!CallType
           /\ Fs!LookInv(Fs!Arrived(d)) /\ Fs!InsertInv(Fs!Arrived(d)) /\ Fs!WalkInv(Fs!Arrived(d), l)
<1>. DEFINE e == Fs!Arrived(d)
<1>1. d.i \in Nat /\ Len(d.path) \in Nat /\ d.file \in Fs!File
  BY DEF Fs!CallType
<1>2. CASE d.i = Len(d.path)
  <2>1. /\ e \in Fs!CallType
        /\ e.at = "found" /\ e.path = d.path /\ e.given = d.given /\ e.i = d.i
        /\ e.file = d.file /\ e.name = d.name
    BY <1>2 DEF Fs!Arrived, Fs!CallType, Fs!Looking
  <2>. HIDE DEF e
  <2>2. Fs!PathInv(e)
    BY <2>1 DEF Fs!PathInv
  <2>3. Fs!LookInv(e) /\ Fs!InsertInv(e) /\ Fs!WalkInv(e, l)
    BY <1>2, <2>1, <2>2 DEF Fs!LookInv, Fs!InsertInv, Fs!WalkInv, Fs!Inserting
  <2>. QED  BY <2>1, <2>3 DEF e
<1>3. CASE d.i # Len(d.path) /\ d.file \notin Fs!Directory
  <2>1. /\ e \in Fs!CallType
        /\ e.at = "notdir" /\ e.path = d.path /\ e.given = d.given /\ e.i = d.i
        /\ e.file = d.file /\ e.name = d.name
    BY <1>3 DEF Fs!Arrived, Fs!CallType, Fs!Looking
  <2>. HIDE DEF e
  <2>2. Fs!PathInv(e)
    BY <2>1 DEF Fs!PathInv
  <2>3. Fs!LookInv(e) /\ Fs!InsertInv(e) /\ Fs!WalkInv(e, l)
    BY <1>1, <1>3, <2>1, <2>2 DEF Fs!LookInv, Fs!InsertInv, Fs!WalkInv, Fs!Inserting
  <2>. QED  BY <2>1, <2>3 DEF e
<1>4. CASE d.i # Len(d.path) /\ d.file \in Fs!Directory
  <2>1. Fs!Root(d.file) \in Fs!Mounted /\ <<d.file, ".">>[1] = d.file
    BY <1>4 DEF Fs!Root, Fs!Mounted, Fs!Directory
  <2>2. Fs!Root(d.file) \in Fs!Node
    BY <2>1 DEF Fs!Node
  <2>3. /\ e \in Fs!CallType
        /\ e.at = "search" /\ e.path = d.path /\ e.given = d.given /\ e.i = d.i
        /\ e.file = d.file /\ e.name = d.name /\ e.node = Fs!Root(d.file)
    BY <1>4, <2>2 DEF Fs!Arrived, Fs!CallType, Fs!Looking
  <2>. HIDE DEF e
  <2>4. Fs!PathInv(e)
    BY <2>3 DEF Fs!PathInv
  <2>5. Fs!Home(e.node) = e.file
    BY <2>1, <2>3 DEF Fs!Home, Fs!Root
  <2>6. <<e.file, e.path[e.i + 1]>> \in Fs!Mounted => e.node \in Fs!Ahead(<<e.file, e.path[e.i + 1]>>)
    BY <2>3, MountedIs
  <2>7. Fs!LookInv(e) /\ Fs!InsertInv(e) /\ Fs!WalkInv(e, l)
    BY <1>1, <1>4, <2>3, <2>4, <2>5, <2>6 DEF Fs!LookInv, Fs!InsertInv, Fs!WalkInv, Fs!Inserting
  <2>. QED  BY <2>3, <2>7 DEF e
<1>. QED  BY <1>2, <1>3, <1>4

\* A path goes on to a file: either it is the next of the mounted directories, or none.
LEMMA PathGoesOn ==
    ASSUME Fs!FileSystemAssumption, Fs!TypeOK, Fs!MountInv,
           NEW c \in Fs!CallType, c.at = "value", Fs!LookInv(c), c.node \in Fs!Node, nodeValue[c.node] # Missing,
           NEW d \in Fs!CallType, d.path = c.path, d.given = c.given, d.name = c.name,
           d.i = c.i + 1, d.file = nodeValue[c.node]
    PROVE  Fs!PathInv(d)
<1>. DEFINE w == c.path[c.i + 1]
            m == <<c.file, w>>
<1>1. /\ c.i \in 0 .. Len(c.path) /\ c.i < Len(c.path) /\ Fs!PathInv(c) /\ c.file \in Fs!Directory
      /\ c.node # Missing /\ Fs!Home(c.node) = c.file /\ Fs!NameOf(c.node) = w
  BY DEF Fs!LookInv, Fs!Looking, Fs!FileSystemAssumption
<1>2. c.path \in Seq(Name) /\ Len(c.path) \in Nat /\ c.given \in Nat /\ c.i \in Nat
  BY DEF Fs!CallType
<1>3. PICK f \in [0 .. Len(c.path) -> Fs!Directory], k \in c.given .. Len(c.path) :
         /\ Fs!Follows(f, c.path, k)
         /\ IF c.i <= k THEN c.file = f[c.i] ELSE c.file \notin Fs!Directory
         /\ c.name # Missing => <<f[k], IF k = Len(c.path) THEN c.name ELSE c.path[k + 1]>> \notin Fs!Mounted
  BY <1>1 DEF Fs!PathInv
<1>4. c.i <= k /\ c.file = f[c.i] /\ k \in Nat /\ k <= Len(c.path)
  BY <1>1, <1>2, <1>3
<1>5. Fs!Home(c.node) # Missing
  BY <1>1 DEF Fs!FileSystemAssumption, Fs!File
<1>6. c.node \in Fs!Mounted <=> m \in Fs!Mounted
  BY <1>1, <1>5, NodeIs
<1>7. m \in Fs!Mounted => d.file = Fs!MountedFile(m)
  <2>1. m \in Fs!Mounted => c.node = m
    BY <1>1, <1>5, <1>6, NodeIs
  <2>. QED  BY <2>1 DEF Fs!MountInv
<1>8. m \notin Fs!Mounted => d.file \notin Fs!Directory
  <2>1. SUFFICES ASSUME m \notin Fs!Mounted PROVE d.file \notin Fs!Directory
    OBVIOUS
  <2>2. c.node \in NewFile
    BY <1>6, <2>1 DEF Fs!Node
  <2>3. d.file \in NewFile
    BY <2>2 DEF Fs!MountInv
  <2>. QED  BY <2>3 DEF Fs!FileSystemAssumption
<1>9. CASE c.i < k
  <2>1. c.i + 1 \in 1 .. k /\ (c.i + 1) - 1 = c.i
    BY <1>2, <1>4, <1>9
  <2>2. <<f[c.i], w>> \in Fs!MountedDirectory /\ f[c.i + 1] = Fs!MountedFile(<<f[c.i], w>>)
    BY <1>3, <2>1 DEF Fs!Follows
  <2>3. d.file = f[d.i] /\ d.i <= k
    BY <1>4, <1>7, <2>1, <2>2 DEF Fs!MountedDirectory
  <2>. QED  BY <1>3, <2>3 DEF Fs!PathInv
<1>10. CASE c.i = k /\ d.file \in Fs!Directory
  <2>1. m \in Fs!Mounted /\ m \in Fs!MountedDirectory /\ d.file = Fs!MountedFile(m)
    BY <1>7, <1>8, <1>10 DEF Fs!MountedDirectory
  <2>2. c.name = Missing
    <3>1. k # Len(c.path) /\ <<f[k], c.path[k + 1]>> = m
      BY <1>1, <1>4, <1>10
    <3>. QED  BY <1>3, <2>1, <3>1
  <2>. DEFINE g == [j \in 0 .. Len(c.path) |-> IF j = k + 1 THEN d.file ELSE f[j]]
  <2>3. g \in [0 .. Len(c.path) -> Fs!Directory]
    BY <1>3, <1>10
  <2>4. k + 1 \in c.given .. Len(c.path) /\ k + 1 \in 0 .. Len(c.path) /\ k \in 0 .. Len(c.path)
    BY <1>1, <1>2, <1>3, <1>4, <1>10
  <2>5. \A j \in 0 .. k : g[j] = f[j]
    BY <1>4, <2>4
  <2>6. g[k + 1] = d.file
    BY <2>4
  <2>. HIDE DEF g
  <2>7. Fs!Follows(g, d.path, k + 1)
    <3>1. g[0] = "/"
      BY <1>3, <1>4, <2>5 DEF Fs!Follows
    <3>2. ASSUME NEW j \in 1 .. k + 1
          PROVE  /\ <<g[j - 1], d.path[j]>> \in Fs!MountedDirectory
                 /\ g[j] = Fs!MountedFile(<<g[j - 1], d.path[j]>>)
      <4>1. CASE j = k + 1
        <5>1. j - 1 = k /\ g[j - 1] = f[k] /\ d.path[j] = w
          BY <1>4, <1>10, <2>5, <4>1
        <5>. QED  BY <1>4, <1>10, <2>1, <2>6, <4>1, <5>1
      <4>2. CASE j # k + 1
        <5>1. j \in 1 .. k /\ j \in 0 .. k /\ j - 1 \in 0 .. k
          BY <1>4, <4>2
        <5>. QED  BY <1>3, <2>5, <5>1 DEF Fs!Follows
      <4>. QED  BY <4>1, <4>2
    <3>. QED  BY <3>1, <3>2 DEF Fs!Follows
  <2>8. d.i = k + 1 /\ d.file = g[d.i]
    BY <1>10, <2>6
  <2>. QED  BY <1>4, <2>2, <2>3, <2>4, <2>7, <2>8 DEF Fs!PathInv
<1>11. CASE c.i = k /\ d.file \notin Fs!Directory
  <2>1. ~ (d.i <= k)
    BY <1>4, <1>11
  <2>. QED  BY <1>3, <1>11, <2>1 DEF Fs!PathInv
<1>. QED  BY <1>2, <1>4, <1>9, <1>10, <1>11

\* The file that a name stands for.
LEMMA ValueKeeps ==
    ASSUME Fs!FileSystemAssumption, Fs!Inv, NEW p \in Client, Fs!Value(p)
    PROVE  Fs!Inv'
<1>. DEFINE c == pathCall[p]
            found == nodeValue[c.node]
<1>1. /\ Fs!TypeOK /\ Fs!MountInv /\ Fs!LookInv(c) /\ c \in Fs!CallType
      /\ begun \in Nat /\ UNCHANGED <<Fs!treeVars, lister, cwd, begun, torn>>
      /\ c.at = "value"
  BY PathCallIs DEF Fs!Inv, Fs!Value, Fs!TypeOK
<1>2. /\ c.i \in 0 .. Len(c.path) /\ c.i < Len(c.path) /\ Fs!PathInv(c) /\ c.file \in Fs!Directory
      /\ c.node # Missing /\ Fs!Home(c.node) = c.file /\ Fs!NameOf(c.node) = c.path[c.i + 1]
      /\ c.path \in Seq(Name) /\ Len(c.path) \in Nat /\ c.i \in Nat
  BY <1>1, PathCallIs DEF Fs!LookInv, Fs!Looking
<1>3. c.node \in Fs!Node
  BY <1>1, <1>2, PathCallIs
<1>4. found \in Fs!File \cup {Missing}
  BY <1>1, <1>3 DEF Fs!TypeOK
<1>5. CASE found = Missing
  <2>1. "missing" \in {"idle"} \cup Fs!Looking \cup Fs!Inserting \cup Fs!Walking
    BY DEF Fs!Looking
  <2>2. PICK d \in Fs!CallType :
              /\ Fs!Becomes(p, d)
              /\ d.at = "missing" /\ d.path = c.path /\ d.given = c.given /\ d.i = c.i
              /\ d.file = c.file /\ d.name = c.name /\ d.node = c.node
    BY <1>1, <1>5, <2>1, GoesOn DEF Fs!Value
  <2>3. <<d.file, d.path[d.i + 1]>> \notin Fs!Mounted
    <3>1. SUFFICES ASSUME <<c.file, c.path[c.i + 1]>> \in Fs!Mounted PROVE FALSE
      BY <2>2
    <3>2. Fs!Home(c.node) # Missing
      BY <1>2 DEF Fs!FileSystemAssumption, Fs!File
    <3>3. c.node \in Fs!Mounted
      BY <1>1, <1>2, <1>3, <3>1, <3>2, NodeIs
    <3>4. found = Fs!MountedFile(c.node)
      BY <1>1, <3>3 DEF Fs!MountInv
    <3>. QED  BY <1>5, <3>3, <3>4, MountedIs
  <2>4. Fs!PathInv(d)
    BY <1>2, <2>2 DEF Fs!PathInv
  <2>5. Fs!LookInv(d)
    BY <1>2, <2>2, <2>3, <2>4 DEF Fs!LookInv
  <2>6. Fs!InsertInv(d) /\ Fs!WalkInv(d, lister[p])
    BY <2>2 DEF Fs!InsertInv, Fs!WalkInv, Fs!Inserting
  <2>. QED  BY <1>1, <2>2, <2>5, <2>6, QuietCall
<1>6. CASE found # Missing
  <2>. DEFINE d == [c EXCEPT !.file = found, !.i = @ + 1, !.node = Missing, !.above = Missing]
  <2>1. /\ d \in Fs!CallType /\ d.path = c.path /\ d.given = c.given /\ d.name = c.name
        /\ d.i = c.i + 1 /\ d.file = found
    <3>1. found \in Fs!File /\ c.i + 1 \in Nat /\ Missing \in Fs!Node \cup {Missing}
      BY <1>2, <1>4, <1>6
    <3>2. c \in Fs!CallType
      BY <1>1
    <3>. HIDE DEF c, found
    <3>. QED  BY <3>1, <3>2 DEF Fs!CallType
  <2>2. Fs!Becomes(p, Fs!Arrived(d))
    BY <1>6 DEF Fs!Value
  <2>. HIDE DEF d
  <2>3. Fs!PathInv(d)
    BY <1>1, <1>3, <1>6, <2>1, PathGoesOn
  <2>4. d.i \in 0 .. Len(d.path)
    BY <1>2, <2>1
  <2>5. /\ Fs!Arrived(d) \in Fs!CallType
        /\ Fs!LookInv(Fs!Arrived(d)) /\ Fs!InsertInv(Fs!Arrived(d)) /\ Fs!WalkInv(Fs!Arrived(d), lister[p])
    BY <2>1, <2>3, <2>4, ArrivedIs
  <2>. QED  BY <1>1, <2>2, <2>5, QuietCall
<1>. QED  BY <1>5, <1>6

\* A process that makes no call.
LEMMA IdleIs ==
    ASSUME NEW l
    PROVE  /\ Fs!Idle \in Fs!CallType /\ Fs!LookInv(Fs!Idle) /\ Fs!InsertInv(Fs!Idle) /\ Fs!WalkInv(Fs!Idle, l)
           /\ Fs!Idle.at = "idle"
<1>1. "/" \in Fs!File /\ <<>> \in Seq(Name)
  BY DEF Fs!File, Fs!Directory
<1>2. Fs!Idle \in Fs!CallType
  BY <1>1 DEF Fs!Idle, Fs!CallType
<1>3. Fs!Idle.at = "idle"
  BY DEF Fs!Idle
<1>. QED  BY <1>2, <1>3 DEF Fs!LookInv, Fs!InsertInv, Fs!WalkInv, Fs!Looking, Fs!Inserting

LEMMA CallReturns ==
    ASSUME Fs!FileSystemAssumption, Fs!Inv, NEW p \in Client, Fs!Returns(p)
    PROVE  Fs!Inv'
<1>1. Fs!Becomes(p, Fs!Idle) /\ begun' \in Nat /\ torn' = torn /\ lister' = lister /\ UNCHANGED <<Fs!treeVars, cwd>>
  BY DEF Fs!Returns, Fs!Inv, Fs!TypeOK
<1>. QED  BY <1>1, IdleIs, QuietCall

\* What is said of the directories stays true when nothing but panic changes.
LEMMA DirectoriesStay ==
    ASSUME Fs!FileSystemAssumption, Fs!Inv, UNCHANGED <<Fs!treeVars, pathCall, lister, cwd, begun, torn>>
    PROVE  Fs!Inv'
<1>1. /\ entry' = entry /\ nodeValue' = nodeValue /\ leftNode' = leftNode
      /\ rightNode' = rightNode /\ parentNode' = parentNode /\ cwd' = cwd
      /\ pathCall' = pathCall /\ lister' = lister /\ begun' = begun /\ torn' = torn
  BY DEF Fs!treeVars
<1>2. NodesStay
  BY <1>1 DEF NodesStay, Fs!Home, Fs!NameOf
<1>3. Fs!TypeOK' /\ Fs!MountInv' /\ Fs!HomeInv' /\ Fs!CwdInv'
  <2>1. Fs!TypeOK'
    BY <1>1 DEF Fs!Inv, Fs!TypeOK
  <2>2. Fs!MountInv' /\ Fs!HomeInv' /\ Fs!CwdInv'
    BY <1>1 DEF Fs!Inv, Fs!MountInv, Fs!HomeInv, Fs!Home, Fs!CwdInv, Fs!Follows
  <2>. QED  BY <2>1, <2>2
<1>4. ASSUME NEW q \in Client
      PROVE  Fs!LookInv(pathCall[q])' /\ Fs!InsertInv(pathCall[q])' /\ Fs!WalkInv(pathCall[q], lister[q])'
  <2>1. PICK d \in Fs!CallType : d = pathCall[q]
    BY PathCallIs DEF Fs!Inv
  <2>2. Fs!LookInv(d) /\ Fs!InsertInv(d)
    BY <2>1 DEF Fs!Inv
  <2>3. Fs!LookInv(d)' /\ Fs!InsertInv(d)'
    BY <1>2, <2>2, FoundStays
  <2>4. Fs!LookInv(pathCall[q])'
    <3>1. Fs!PathInv(d)' => Fs!PathInv(pathCall[q])'
      BY <1>1, <2>1 DEF Fs!PathInv
    <3>. QED  BY <1>1, <2>1, <2>3, <3>1 DEF Fs!LookInv, Fs!Home, Fs!NameOf
  <2>5. Fs!InsertInv(pathCall[q])'
    BY <1>1, <2>1, <2>3 DEF Fs!InsertInv, Fs!Home, Fs!NameOf
  <2>6. Fs!WalkInv(pathCall[q], lister[q])'
    BY <1>1 DEF Fs!WalkInv, Fs!Inv
  <2>. QED  BY <2>4, <2>5, <2>6
<1>. QED  BY <1>3, <1>4 DEF Fs!Inv

LEMMA HaltKeeps ==
    ASSUME Fs!FileSystemAssumption, Fs!Inv, NEW why, Fs!Stop(why)
    PROVE  Fs!Inv'
  BY DirectoriesStay DEF Fs!Stop

\* A path that is absolute starts nowhere, one that is relative behind the working directory.
LEMMA LookupKeeps ==
    ASSUME Fs!FileSystemAssumption, Fs!Inv, NEW p \in Client, NEW path \in Path, Fs!Lookup(p, path)
    PROVE  Fs!Inv'
<1>. DEFINE components == IF path.absolute THEN path.components ELSE cwd[p] \o path.components
            given == IF path.absolute THEN 0 ELSE Len(cwd[p])
            d == [Fs!Idle EXCEPT !.path = components, !.given = given]
<1>1. /\ path.components \in Seq(Name) /\ cwd[p] \in Seq(Name) /\ Len(cwd[p]) \in Nat /\ begun \in Nat
      /\ Fs!Idle \in Fs!CallType
  <2>1. path \in [absolute : BOOLEAN, components : Seq(Name)]
    BY DEF Fs!FileSystemAssumption
  <2>2. cwd[p] \in Seq(Name) /\ begun \in Nat
    BY DEF Fs!Inv, Fs!TypeOK
  <2>. QED  BY <2>1, <2>2, IdleIs
<1>2. components \in Seq(Name) /\ Len(components) \in Nat /\ given \in 0 .. Len(components)
  <2>1. CASE path.absolute
    BY <1>1, <2>1
  <2>2. CASE ~ path.absolute
    <3>1. /\ cwd[p] \o path.components \in Seq(Name)
          /\ Len(cwd[p] \o path.components) = Len(cwd[p]) + Len(path.components)
      BY <1>1, ConcatProperties
    <3>2. Len(path.components) \in Nat
      BY <1>1
    <3>3. components = cwd[p] \o path.components /\ given = Len(cwd[p])
      BY <2>2
    <3>. HIDE DEF components, given
    <3>4. Len(components) = Len(cwd[p]) + Len(path.components) /\ components \in Seq(Name)
      BY <3>1, <3>3
    <3>5. Len(cwd[p]) \in Nat
      BY <1>1
    <3>6. Len(components) \in Nat /\ given \in 0 .. Len(components)
      <4>1. given = Len(cwd[p]) /\ Len(components) = Len(cwd[p]) + Len(path.components)
        BY <3>3, <3>4
      <4>2. \A a, b \in Nat : a + b \in Nat /\ a \in 0 .. a + b
        OBVIOUS
      <4>. QED  BY <3>2, <3>5, <4>1, <4>2, Zenon
    <3>. QED  BY <3>4, <3>6
  <2>. QED  BY <2>1, <2>2
<1>3. /\ Fs!Becomes(p, Fs!Arrived(d)) /\ begun' = begun + 1
      /\ lister' = lister /\ torn' = torn /\ UNCHANGED <<Fs!treeVars, cwd>>
  BY DEF Fs!Lookup
<1>4. \E f \in [0 .. Len(components) -> Fs!Directory] : Fs!Follows(f, components, given)
  <2>1. CASE path.absolute
    <3>. DEFINE f == [j \in 0 .. Len(components) |-> "/"]
    <3>1. f \in [0 .. Len(components) -> Fs!Directory] /\ f[0] = "/"
      <4>. HIDE DEF components
      <4>1. "/" \in Fs!Directory /\ 0 \in 0 .. Len(components)
        BY <1>2 DEF Fs!Directory
      <4>. QED  BY <4>1
    <3>2. Fs!Follows(f, components, given)
      BY <2>1, <3>1 DEF Fs!Follows
    <3>. QED  BY <3>1, <3>2
  <2>2. CASE ~ path.absolute
    <3>1. PICK f \in [0 .. Len(cwd[p]) -> Fs!Directory] : Fs!Follows(f, cwd[p], Len(cwd[p]))
      BY DEF Fs!Inv, Fs!CwdInv
    <3>. DEFINE g == [j \in 0 .. Len(components) |-> IF j <= Len(cwd[p]) THEN f[j] ELSE "/"]
    <3>2. g \in [0 .. Len(components) -> Fs!Directory]
      BY <1>1, <1>2, <3>1 DEF Fs!Directory
    <3>3. given = Len(cwd[p]) /\ \A j \in 0 .. given : g[j] = f[j]
      BY <1>1, <1>2, <2>2
    <3>4. \A j \in 1 .. given : components[j] = cwd[p][j]
      BY <1>1, <2>2, <3>3
    <3>. HIDE DEF g, components, given
    <3>5. Fs!Follows(g, components, given)
      <4>1. \A j \in 1 .. given : j \in 0 .. given /\ j - 1 \in 0 .. given
        BY <1>1, <3>3
      <4>2. 0 \in 0 .. given
        BY <1>1, <3>3
      <4>. QED  BY <3>1, <3>3, <3>4, <4>1, <4>2 DEF Fs!Follows
    <3>. QED  BY <3>2, <3>5
  <2>. QED  BY <2>1, <2>2
<1>5. /\ d \in Fs!CallType /\ d.path = components /\ d.given = given /\ d.i = 0 /\ d.file = "/"
      /\ d.name = Missing
  <2>1. components \in Seq(Name) /\ given \in Nat
    BY <1>2
  <2>. HIDE DEF components, given
  <2>2. d \in Fs!CallType /\ d.path = components /\ d.given = given
    BY <1>1, <2>1 DEF Fs!CallType
  <2>3. d.i = 0 /\ d.file = "/" /\ d.name = Missing
    BY DEF Fs!Idle
  <2>. QED  BY <2>2, <2>3
<1>. HIDE DEF components, given, d
<1>6. Fs!PathInv(d)
  <2>1. PICK f \in [0 .. Len(components) -> Fs!Directory] : Fs!Follows(f, components, given)
    BY <1>4
  <2>2. d.i <= given /\ d.file = f[d.i] /\ given \in d.given .. Len(d.path)
    BY <1>2, <1>5, <2>1 DEF Fs!Follows
  <2>. QED  BY <1>5, <2>1, <2>2 DEF Fs!PathInv
<1>7. d.i \in 0 .. Len(d.path)
  BY <1>2, <1>5
<1>8. /\ Fs!Arrived(d) \in Fs!CallType
      /\ Fs!LookInv(Fs!Arrived(d)) /\ Fs!InsertInv(Fs!Arrived(d)) /\ Fs!WalkInv(Fs!Arrived(d), lister[p])
  BY <1>5, <1>6, <1>7, ArrivedIs
<1>. QED  BY <1>1, <1>3, <1>8, QuietCall

\* The directory for a new file is looked up along the same path.
LEMMA OpenMissingKeeps ==
    ASSUME Fs!FileSystemAssumption, Fs!Inv, NEW p \in Client, NEW flags, Fs!OpenMissing(p, flags)
    PROVE  Fs!Inv'
<1>. DEFINE c == pathCall[p]
            n == Len(pathCall[p].path)
            front == SubSeq(c.path, 1, n - 1)
            d == [Fs!Idle EXCEPT !.path = front, !.given = c.given, !.name = c.path[n]]
<1>1. /\ c.at = "missing" /\ c.name = Missing /\ Fs!LookInv(c) /\ begun \in Nat
      /\ c.path \in Seq(Name) /\ n \in Nat /\ c.given \in Nat /\ c.i \in Nat
      /\ Fs!Idle \in Fs!CallType
      /\ Fs!Becomes(p, Fs!Arrived(d)) /\ UNCHANGED <<Fs!treeVars, lister, cwd, begun, torn>>
  BY PathCallIs, IdleIs DEF Fs!Inv, Fs!TypeOK, Fs!OpenMissing, Fs!Absent
<1>2. /\ c.i \in 0 .. n /\ c.i < n /\ Fs!PathInv(c) /\ c.file \in Fs!Directory
      /\ <<c.file, c.path[c.i + 1]>> \notin Fs!Mounted
  BY <1>1 DEF Fs!LookInv, Fs!Looking
<1>3. PICK f \in [0 .. n -> Fs!Directory], k \in c.given .. n :
         Fs!Follows(f, c.path, k) /\ IF c.i <= k THEN c.file = f[c.i] ELSE c.file \notin Fs!Directory
  BY <1>2 DEF Fs!PathInv
<1>4. c.i = k
  <2>1. c.i <= k /\ c.file = f[c.i] /\ k \in Nat
    BY <1>1, <1>2, <1>3
  <2>2. ASSUME c.i < k PROVE FALSE
    <3>1. c.i + 1 \in 1 .. k /\ (c.i + 1) - 1 = c.i
      BY <1>1, <2>1, <2>2
    <3>2. <<f[c.i], c.path[c.i + 1]>> \in Fs!MountedDirectory
      BY <1>3, <3>1 DEF Fs!Follows
    <3>. QED  BY <1>2, <2>1, <3>2 DEF Fs!MountedDirectory
  <2>. QED  BY <1>1, <2>1, <2>2
<1>5. /\ front \in Seq(Name) /\ Len(front) = n - 1 /\ \A j \in 1 .. n - 1 : front[j] = c.path[j]
      /\ c.path[n] \in Name
  <2>1. n - 1 \in Nat /\ n - 1 <= n /\ n \in 1 .. n
    BY <1>1, <1>2
  <2>2. c.path[n] \in Name
    BY <1>1, <2>1, ElementOfSeq
  <2>. HIDE DEF n
  <2>3. Len(c.path) = n
    BY DEF n
  <2>. HIDE DEF c
  <2>4. front \in Seq(Name) /\ Len(front) = n - 1 /\ \A j \in 1 .. n - 1 : front[j] = c.path[j]
    BY <1>1, <2>1, <2>3
  <2>. QED  BY <2>2, <2>4 DEF n
<1>6. /\ d \in Fs!CallType /\ d.path = front /\ d.given = c.given /\ d.i = 0 /\ d.file = "/"
      /\ d.name = c.path[n]
  <2>. HIDE DEF c, n, front
  <2>1. d \in Fs!CallType /\ d.path = front /\ d.given = c.given /\ d.name = c.path[n]
    BY <1>1, <1>5 DEF Fs!CallType
  <2>2. d.i = 0 /\ d.file = "/"
    BY DEF Fs!Idle
  <2>. QED  BY <2>1, <2>2
<1>7. /\ k \in c.given .. Len(front) /\ 0 <= k /\ k <= n - 1 /\ k \in Nat
      /\ c.file = f[k]
  BY <1>1, <1>2, <1>3, <1>4, <1>5
<1>8. <<f[k], IF k = Len(front) THEN c.path[n] ELSE front[k + 1]>> \notin Fs!Mounted
  <2>1. CASE k = n - 1
    BY <1>1, <1>2, <1>4, <1>5, <1>7, <2>1
  <2>2. CASE k # n - 1
    <3>1. k + 1 \in 1 .. n - 1
      BY <1>1, <1>7, <2>2
    <3>. QED  BY <1>1, <1>2, <1>4, <1>5, <1>7, <2>2, <3>1
  <2>. QED  BY <2>1, <2>2
<1>. HIDE DEF front, d
<1>9. Fs!PathInv(d)
  <2>. DEFINE g == [j \in 0 .. Len(front) |-> f[j]]
  <2>1. g \in [0 .. Len(front) -> Fs!Directory]
    BY <1>1, <1>2, <1>3, <1>5
  <2>2. \A j \in 0 .. k : g[j] = f[j]
    BY <1>1, <1>5, <1>7
  <2>. HIDE DEF g
  <2>3. Fs!Follows(g, front, k)
    <3>1. \A j \in 1 .. k : j \in 0 .. k /\ j - 1 \in 0 .. k /\ front[j] = c.path[j]
      BY <1>1, <1>5, <1>7
    <3>2. 0 \in 0 .. k /\ k \in 0 .. k
      BY <1>7
    <3>. QED  BY <1>3, <2>2, <3>1, <3>2 DEF Fs!Follows
  <2>4. d.i <= k /\ d.file = g[d.i] /\ g[k] = f[k]
    BY <1>6, <1>7, <2>2, <2>3 DEF Fs!Follows
  <2>. QED  BY <1>6, <1>7, <1>8, <2>1, <2>3, <2>4 DEF Fs!PathInv
<1>10. d.i \in 0 .. Len(d.path)
  BY <1>1, <1>2, <1>5, <1>6
<1>11. /\ Fs!Arrived(d) \in Fs!CallType
       /\ Fs!LookInv(Fs!Arrived(d)) /\ Fs!InsertInv(Fs!Arrived(d)) /\ Fs!WalkInv(Fs!Arrived(d), lister[p])
  BY <1>6, <1>9, <1>10, ArrivedIs
<1>. QED  BY <1>1, <1>11, QuietCall

\* The calls of open() that find something, or nothing.
LEMMA OpenExistingKeeps ==
    ASSUME Fs!FileSystemAssumption, Fs!Inv, NEW p \in Client, NEW flags, Fs!OpenExisting(p, flags)
    PROVE  Fs!Inv'
<1>. DEFINE d == pathCall[p].file
<1>1. CASE d \notin Fs!Directory
  BY <1>1, CallReturns DEF Fs!OpenExisting
<1>2. CASE d \in Fs!Directory
  <2>. DEFINE l == [directory |-> d, iterator |-> Fs!Root(d), listed |-> <<>>,
                    owed |-> Fs!Linked(d), sure |-> TRUE]
              e == [Fs!Idle EXCEPT !.at = "down"]
  <2>1. /\ lister' = [lister EXCEPT ![p] = l] /\ Fs!Becomes(p, e)
        /\ begun' \in Nat /\ torn' = torn /\ UNCHANGED <<Fs!treeVars, cwd>>
    BY <1>2 DEF Fs!OpenExisting, Fs!Inv, Fs!TypeOK
  <2>2. /\ Fs!Root(d) \in Fs!Node /\ Fs!Root(d) # Missing /\ Fs!Linked(d) \in SUBSET Fs!Node /\ <<>> \in Seq(Fs!Node)
    <3>1. Fs!Root(d) \in Fs!Mounted
      BY <1>2 DEF Fs!Root, Fs!Mounted, Fs!Directory
    <3>. QED  BY <3>1, MountedIs DEF Fs!Linked
  <2>3. l \in Fs!ListerType /\ l.iterator = Fs!Root(d)
    BY <1>2, <2>2 DEF Fs!ListerType
  <2>4. e \in Fs!CallType /\ e.at = "down"
    BY IdleIs DEF Fs!CallType, Fs!Walking
  <2>. HIDE DEF l, e
  <2>5. Fs!LookInv(e) /\ Fs!InsertInv(e) /\ Fs!WalkInv(e, l)
    BY <2>2, <2>3, <2>4 DEF Fs!LookInv, Fs!InsertInv, Fs!WalkInv, Fs!Looking, Fs!Inserting
  <2>. QED  BY <2>1, <2>3, <2>4, <2>5, QuietDirectoryStep
<1>. QED  BY <1>1, <1>2

\* An entry is made for a name that nothing mounted has.
LEMMA CreateKeeps ==
    ASSUME Fs!FileSystemAssumption, Fs!Inv, NEW p \in Client, Fs!Create(p)
    PROVE  Fs!Inv'
<1>. DEFINE c == pathCall[p]
            n == Len(pathCall[p].path)
<1>0. PICK d, w : d = pathCall[p].file /\ w = pathCall[p].name
  OBVIOUS
<1>1. /\ Fs!TypeOK /\ Fs!MountInv /\ Fs!HomeInv /\ Fs!CwdInv /\ Fs!LookInv(c) /\ begun \in Nat
      /\ c.at = "found" /\ w # Missing /\ d \in Fs!Directory
      /\ w \in Name /\ n \in Nat /\ c.given \in Nat /\ c.i \in Nat
      /\ UNCHANGED <<nodeValue, leftNode, rightNode, parentNode, lister, cwd, begun>>
  BY <1>0, PathCallIs DEF Fs!Inv, Fs!TypeOK, Fs!Create, Fs!Creating
<1>2. <<d, w>> \notin Fs!Mounted
  <2>1. c.i = n /\ Fs!PathInv(c)
    BY <1>1 DEF Fs!LookInv, Fs!Looking
  <2>2. PICK f \in [0 .. n -> Fs!Directory], k \in c.given .. n :
           /\ IF c.i <= k THEN c.file = f[c.i] ELSE c.file \notin Fs!Directory
           /\ c.name # Missing => <<f[k], IF k = n THEN c.name ELSE c.path[k + 1]>> \notin Fs!Mounted
    BY <2>1 DEF Fs!PathInv
  <2>3. k = n /\ d = f[k]
    BY <1>0, <1>1, <2>1, <2>2
  <2>. QED  BY <1>0, <1>1, <2>2, <2>3
<1>3. PICK new \in NewFile :
         /\ entry[new] = Fs!NoEntry
         /\ entry' = [entry EXCEPT ![new] = <<d, w>>]
         /\ Fs!Becomes(p, [Fs!Idle EXCEPT !.at = "place", !.name = w, !.file = new, !.node = Fs!Root(d)])
  BY <1>0 DEF Fs!Create
<1>. DEFINE e == [Fs!Idle EXCEPT !.at = "place", !.name = w, !.file = new, !.node = Fs!Root(d)]
<1>4. /\ new \in Fs!Node /\ new \in Fs!File /\ new \notin Fs!Mounted
      /\ Missing \notin Fs!Directory /\ Missing \notin Fs!Node
  BY DEF Fs!Node, Fs!File, Fs!FileSystemAssumption
<1>5. /\ entry' \in [NewFile -> (Fs!Directory \X Name) \cup {Fs!NoEntry}]
      /\ entry'[new] = <<d, w>> /\ \A o \in NewFile : o # new => entry'[o] = entry[o]
  <2>1. entry \in [NewFile -> (Fs!Directory \X Name) \cup {Fs!NoEntry}]
    BY <1>1 DEF Fs!TypeOK
  <2>2. <<d, w>> \in Fs!Directory \X Name
    BY <1>1
  <2>. QED  BY <1>3, <2>1, <2>2
<1>6. Fs!Home(new) = Missing
  BY <1>3, <1>4 DEF Fs!Home, Fs!NoEntry
<1>7. ASSUME NEW o \in Fs!Node, o # new
      PROVE  Fs!Home(o)' = Fs!Home(o) /\ Fs!NameOf(o)' = Fs!NameOf(o)
  BY <1>5, <1>7 DEF Fs!Home, Fs!NameOf, Fs!Node
<1>8. NodesStay
  BY <1>6, <1>7 DEF NodesStay
<1>9. Fs!MountInv'
  <2>1. \A o \in NewFile : entry'[o] \notin Fs!Mounted
    BY <1>1, <1>2, <1>5 DEF Fs!MountInv
  <2>. QED  BY <1>1, <2>1 DEF Fs!MountInv
<1>10. Fs!HomeInv'
  <2>1. SUFFICES ASSUME NEW o \in Fs!Node
                 PROVE  /\ leftNode[o] # Missing => Fs!Home(o)' # Missing /\ Fs!Home(leftNode[o])' = Fs!Home(o)'
                        /\ rightNode[o] # Missing => Fs!Home(o)' # Missing /\ Fs!Home(rightNode[o])' = Fs!Home(o)'
    BY <1>1 DEF Fs!HomeInv, Fs!Home
  <2>2. leftNode[o] \in Fs!Node \cup {Missing} /\ rightNode[o] \in Fs!Node \cup {Missing}
    BY <1>1 DEF Fs!TypeOK
  <2>3. ASSUME NEW b \in Fs!Node, Fs!Home(o) # Missing, Fs!Home(b) = Fs!Home(o)
        PROVE  Fs!Home(o)' # Missing /\ Fs!Home(b)' = Fs!Home(o)'
    BY <1>8, <2>3 DEF NodesStay
  <2>4. leftNode[o] # Missing => Fs!Home(o)' # Missing /\ Fs!Home(leftNode[o])' = Fs!Home(o)'
    <3>1. SUFFICES ASSUME leftNode[o] # Missing
                   PROVE  Fs!Home(o)' # Missing /\ Fs!Home(leftNode[o])' = Fs!Home(o)'
      BY <1>1
    <3>2. PICK b \in Fs!Node : b = leftNode[o]
      BY <2>2, <3>1
    <3>3. Fs!Home(o) # Missing /\ Fs!Home(b) = Fs!Home(o)
      BY <1>1, <3>1, <3>2 DEF Fs!HomeInv
    <3>4. Fs!Home(o)' # Missing /\ Fs!Home(b)' = Fs!Home(o)' /\ leftNode'[o] = b
      BY <1>1, <2>3, <3>2, <3>3
    <3>. QED  BY <3>4 DEF Fs!Home
  <2>5. rightNode[o] # Missing => Fs!Home(o)' # Missing /\ Fs!Home(rightNode[o])' = Fs!Home(o)'
    <3>1. SUFFICES ASSUME rightNode[o] # Missing
                   PROVE  Fs!Home(o)' # Missing /\ Fs!Home(rightNode[o])' = Fs!Home(o)'
      BY <1>1
    <3>2. PICK b \in Fs!Node : b = rightNode[o]
      BY <2>2, <3>1
    <3>3. Fs!Home(o) # Missing /\ Fs!Home(b) = Fs!Home(o)
      BY <1>1, <3>1, <3>2 DEF Fs!HomeInv
    <3>4. Fs!Home(o)' # Missing /\ Fs!Home(b)' = Fs!Home(o)' /\ rightNode'[o] = b
      BY <1>1, <2>3, <3>2, <3>3
    <3>. QED  BY <3>4 DEF Fs!Home
  <2>. QED  BY <2>4, <2>5
<1>11. Fs!CwdInv'
  BY <1>1 DEF Fs!CwdInv
<1>12. Fs!Root(d) \in Fs!Mounted /\ Fs!Root(d) \in Fs!Node /\ Fs!Root(d)[1] = d
  <2>1. Fs!Root(d) \in Fs!Mounted
    BY <1>1 DEF Fs!Root, Fs!Mounted, Fs!Directory
  <2>. QED  BY <2>1 DEF Fs!Node, Fs!Root
<1>13. /\ e \in Fs!CallType /\ e.at = "place" /\ e.name = w /\ e.file = new /\ e.node = Fs!Root(d)
       /\ e.above = Missing
  <2>1. "place" \in {"idle"} \cup Fs!Looking \cup Fs!Inserting \cup Fs!Walking
    BY DEF Fs!Inserting
  <2>2. Fs!Idle \in Fs!CallType /\ w \in Name
    BY <1>1, IdleIs
  <2>3. Fs!Idle.above = Missing
    BY DEF Fs!Idle
  <2>. QED  BY <1>4, <1>12, <2>1, <2>2, <2>3 DEF Fs!CallType
<1>14. Fs!Becomes(p, e)
  BY <1>3
<1>15. torn' \subseteq Fs!Directory
  BY <1>1 DEF Fs!Create, Fs!TypeOK
<1>16. /\ Fs!Home(new)' = d /\ Fs!NameOf(new)' = w /\ Fs!Home(Fs!Root(d))' = d
  <2>1. Fs!Home(new)' = entry'[new][1] /\ Fs!NameOf(new)' = entry'[new][2] /\ Fs!Home(Fs!Root(d))' = Fs!Root(d)[1]
    BY <1>4, <1>12 DEF Fs!Home, Fs!NameOf
  <2>. QED  BY <1>5, <1>12, <2>1
<1>. HIDE DEF e
<1>17. PICK x \in Fs!CallType :
          /\ Fs!Becomes(p, x)
          /\ x.at = "place" /\ x.file = new /\ x.name = w /\ x.node = Fs!Root(d) /\ x.above = Missing
  BY <1>13, <1>14
<1>18. Fs!Home(x.file)' = d /\ Fs!NameOf(x.file)' = w /\ Fs!Home(x.node)' = d
  BY <1>16, <1>17
<1>19. Fs!InsertInv(x)' /\ Fs!LookInv(x)' /\ Fs!WalkInv(x, lister[p])
  <2>1. "place" \notin {"slot", "link", "complete", "forget", "take", "clear", "set"} /\ "place" # "link"
    OBVIOUS
  <2>2. d # Missing /\ Fs!Root(d) # Missing
    BY <1>1, <1>4, <1>12
  <2>3. Fs!InsertInv(x)'
    BY <1>17, <1>18, <2>1, <2>2 DEF Fs!InsertInv
  <2>. QED  BY <1>17, <2>3 DEF Fs!LookInv, Fs!WalkInv, Fs!Looking
<1>20. lister[p] \in Fs!ListerType /\ lister' = [lister EXCEPT ![p] = lister[p]] /\ begun' \in Nat
       /\ cwd' \in [Client -> Seq(Name)]
  BY <1>1, PathCallIs DEF Fs!TypeOK
<1>21. /\ nodeValue' \in [Fs!Node -> Fs!File \cup {Missing}]
       /\ leftNode' \in [Fs!Node -> Fs!Node \cup {Missing}]
       /\ rightNode' \in [Fs!Node -> Fs!Node \cup {Missing}]
       /\ parentNode' \in [Fs!Node -> Fs!Node \cup {Missing}]
  BY <1>1 DEF Fs!TypeOK
<1>. QED  BY <1>5, <1>8, <1>9, <1>10, <1>11, <1>15, <1>17, <1>19, <1>20, <1>21, DirectoryStep

\* A new node has no child that is mounted.
LEMMA NewFilesLead ==
    ASSUME Fs!FileSystemAssumption, NEW n \in NewFile
    PROVE  Fs!MountedLeft(n) = Missing /\ Fs!MountedRight(n) = Missing
<1>1. n # <<"/", "dev">>
  BY DEF Fs!FileSystemAssumption, Fs!Mounted
<1>2. Fs!MountedLeft(n) = Missing
  BY <1>1 DEF Fs!MountedLeft
<1>3. Fs!MountedRight(n) = Missing
  <2>1. n # <<"/", "..">> /\ n # <<"/dev", "..">> /\ n # <<"/bin", "..">>
    BY DEF Fs!FileSystemAssumption, Fs!Mounted
  <2>. QED  BY <2>1 DEF Fs!MountedRight
<1>. QED  BY <1>2, <1>3

\* A place that is free is none where something is mounted.
LEMMA SlotKeeps ==
    ASSUME Fs!FileSystemAssumption, Fs!Inv, NEW p \in Client, Fs!Slot(p)
    PROVE  Fs!Inv'
<1>. DEFINE c == pathCall[p]
<1>1. /\ Fs!TypeOK /\ Fs!MountInv /\ Fs!InsertInv(c) /\ c \in Fs!CallType /\ c.at = "slot" /\ begun \in Nat
      /\ c.file \in NewFile /\ Fs!Home(c.file) # Missing /\ Fs!NameOf(c.file) = c.name
      /\ c.above # Missing /\ Fs!Home(c.above) = Fs!Home(c.file) /\ c.above \in Fs!Node
      /\ c.node # Missing => Fs!Home(c.node) = Fs!Home(c.file)
  BY PathCallIs DEF Fs!Inv, Fs!TypeOK, Fs!Slot, Fs!InsertInv, Fs!Inserting
<1>2. ASSUME NEW side \in {"less", "greater"},
             side = "less" => leftNode[c.above] = Missing,
             side = "greater" => rightNode[c.above] = Missing,
             Fs!Becomes(p, [c EXCEPT !.at = "link", !.side = side]),
             UNCHANGED <<Fs!treeVars, lister, cwd, begun, torn, panic>>
      PROVE  Fs!Inv'
  <2>. DEFINE d == [c EXCEPT !.at = "link", !.side = side]
  <2>1. /\ d \in Fs!CallType /\ d.at = "link" /\ d.side = side /\ d.file = c.file /\ d.name = c.name
        /\ d.node = c.node /\ d.above = c.above
    <3>1. "link" \in {"idle"} \cup Fs!Looking \cup Fs!Inserting \cup Fs!Walking
      BY DEF Fs!Inserting
    <3>. QED  BY <1>1, <3>1 DEF Fs!CallType
  <2>2. Fs!Becomes(p, d)
    BY <1>2
  <2>. HIDE DEF d
  <2>3. /\ side = "less" => Fs!MountedLeft(c.above) = Missing
        /\ side = "greater" => Fs!MountedRight(c.above) = Missing
    <3>1. CASE c.above \in Fs!Mounted
      BY <1>1, <1>2, <3>1 DEF Fs!MountInv
    <3>2. CASE c.above \notin Fs!Mounted
      <4>1. c.above \in NewFile /\ c.above # <<"/", "dev">>
        BY <1>1, <3>2 DEF Fs!Node, Fs!Mounted
      <4>. QED  BY <4>1, NewFilesLead
    <3>. QED  BY <3>1, <3>2
  <2>4. "link" \notin {"forget", "take", "clear", "set"}
    OBVIOUS
  <2>5. Fs!InsertInv(d)
    BY <1>1, <1>2, <2>1, <2>3, <2>4 DEF Fs!InsertInv
  <2>6. Fs!LookInv(d) /\ Fs!WalkInv(d, lister[p])
    BY <2>1 DEF Fs!LookInv, Fs!WalkInv, Fs!Looking
  <2>. QED  BY <1>1, <1>2, <2>1, <2>2, <2>5, <2>6, QuietCall
<1>3. PICK side \in Fs!Compared(c.name, c.above) :
         \/ /\ \/ side = "less" /\ leftNode[c.above] = Missing
               \/ side = "greater" /\ rightNode[c.above] = Missing
            /\ Fs!Becomes(p, [c EXCEPT !.at = "link", !.side = side])
            /\ UNCHANGED <<Fs!treeVars, lister, cwd, begun, torn, panic>>
         \/ Fs!Stop("assert")
  BY DEF Fs!Slot
<1>4. CASE Fs!Stop("assert")
  BY <1>4, HaltKeeps
<1>. QED  BY <1>2, <1>3, <1>4

\* A new node is linked where there is nothing.
LEMMA LinkKeeps ==
    ASSUME Fs!FileSystemAssumption, Fs!Inv, NEW p \in Client, Fs!Link(p)
    PROVE  Fs!Inv'
<1>1. PICK new, above, side : new = pathCall[p].file /\ above = pathCall[p].above /\ side = pathCall[p].side
  OBVIOUS
<1>2. /\ Fs!TypeOK /\ Fs!MountInv /\ Fs!HomeInv /\ Fs!CwdInv /\ begun \in Nat /\ torn \subseteq Fs!Directory
      /\ new \in NewFile /\ Fs!Home(new) # Missing /\ above # Missing /\ Fs!Home(above) = Fs!Home(new)
      /\ above \in Fs!Node
      /\ side = "less" => Fs!MountedLeft(above) = Missing
      /\ side # "less" => Fs!MountedRight(above) = Missing
  <2>1. Fs!InsertInv(pathCall[p]) /\ pathCall[p].at = "link"
    BY DEF Fs!Inv, Fs!Link
  <2>. QED  BY <1>1, <2>1, PathCallIs DEF Fs!Inv, Fs!TypeOK, Fs!InsertInv, Fs!Inserting
<1>3. /\ nodeValue' = [nodeValue EXCEPT ![new] = new]
      /\ leftNode' = IF side = "less" THEN [leftNode EXCEPT ![above] = new] ELSE leftNode
      /\ rightNode' = IF side = "less" THEN rightNode ELSE [rightNode EXCEPT ![above] = new]
      /\ Fs!Goes(p, "complete")
      /\ entry' = entry /\ parentNode' = parentNode /\ lister' = lister /\ cwd' = cwd /\ begun' = begun /\ torn' = torn
  BY <1>1 DEF Fs!Link
<1>4. new \in Fs!Node /\ new \in Fs!File /\ new \notin Fs!Mounted /\ new # Missing
  BY <1>2 DEF Fs!Node, Fs!File, Fs!FileSystemAssumption
<1>5. /\ nodeValue' \in [Fs!Node -> Fs!File \cup {Missing}]
      /\ leftNode' \in [Fs!Node -> Fs!Node \cup {Missing}]
      /\ rightNode' \in [Fs!Node -> Fs!Node \cup {Missing}]
      /\ parentNode' \in [Fs!Node -> Fs!Node \cup {Missing}]
  BY <1>2, <1>3, <1>4 DEF Fs!TypeOK
<1>6. \A o \in Fs!Node : /\ nodeValue'[o] = IF o = new THEN new ELSE nodeValue[o]
                         /\ leftNode'[o] = IF side = "less" /\ o = above THEN new ELSE leftNode[o]
                         /\ rightNode'[o] = IF side # "less" /\ o = above THEN new ELSE rightNode[o]
  BY <1>2, <1>3, <1>4 DEF Fs!TypeOK
<1>7. Fs!MountInv'
  <2>1. Fs!Mounted \subseteq Fs!Node /\ NewFile \subseteq Fs!Node
    BY DEF Fs!Node
  <2>2. ASSUME NEW o \in Fs!Mounted
        PROVE  /\ nodeValue'[o] = Fs!MountedFile(o)
               /\ Fs!MountedLeft(o) # Missing => leftNode'[o] = Fs!MountedLeft(o)
               /\ Fs!MountedRight(o) # Missing => rightNode'[o] = Fs!MountedRight(o)
    BY <1>2, <1>4, <1>6, <2>1 DEF Fs!MountInv
  <2>3. ASSUME NEW o \in NewFile PROVE nodeValue'[o] \in NewFile \cup {Missing} /\ entry'[o] \notin Fs!Mounted
    BY <1>2, <1>3, <1>6, <2>1 DEF Fs!MountInv
  <2>. QED  BY <2>2, <2>3 DEF Fs!MountInv
<1>8. \A o : Fs!Home(o)' = Fs!Home(o) /\ Fs!NameOf(o)' = Fs!NameOf(o)
  BY <1>3 DEF Fs!Home, Fs!NameOf
<1>9. Fs!HomeInv'
  <2>1. ASSUME NEW o \in Fs!Node
        PROVE  /\ leftNode'[o] # Missing => Fs!Home(o) # Missing /\ Fs!Home(leftNode'[o]) = Fs!Home(o)
               /\ rightNode'[o] # Missing => Fs!Home(o) # Missing /\ Fs!Home(rightNode'[o]) = Fs!Home(o)
    BY <1>2, <1>6 DEF Fs!HomeInv
  <2>. QED  BY <1>3, <2>1 DEF Fs!HomeInv, Fs!Home
<1>10. Fs!CwdInv'
  BY <1>2, <1>3 DEF Fs!CwdInv
<1>11. NodesStay
  BY <1>8 DEF NodesStay
<1>12. PICK d \in Fs!CallType :
          /\ Fs!Becomes(p, d)
          /\ d.at = "complete" /\ d.file = new /\ d.name = pathCall[p].name /\ d.node = pathCall[p].node
          /\ d.above = above
  <2>1. "complete" \in {"idle"} \cup Fs!Looking \cup Fs!Inserting \cup Fs!Walking
    BY DEF Fs!Inserting
  <2>. QED  BY <1>1, <1>2, <1>3, <2>1, GoesOn
<1>13. Fs!InsertInv(d)' /\ Fs!LookInv(d)' /\ Fs!WalkInv(d, lister[p])
  <2>1. /\ Fs!NameOf(new) = d.name
        /\ d.node # Missing => Fs!Home(d.node) = Fs!Home(new)
    <3>1. Fs!InsertInv(pathCall[p]) /\ pathCall[p].at = "link"
      BY DEF Fs!Inv, Fs!Link
    <3>. QED  BY <1>1, <1>12, <3>1 DEF Fs!InsertInv, Fs!Inserting
  <2>2. "complete" \notin {"forget", "take", "clear", "set"} /\ "complete" # "link"
    OBVIOUS
  <2>3. /\ d.file \in NewFile /\ Fs!Home(d.file)' # Missing /\ Fs!NameOf(d.file)' = d.name
        /\ d.node # Missing => Fs!Home(d.node)' = Fs!Home(d.file)'
        /\ d.above # Missing /\ Fs!Home(d.above)' = Fs!Home(d.file)'
    BY <1>2, <1>8, <1>12, <2>1
  <2>4. Fs!InsertInv(d)'
    BY <1>12, <2>2, <2>3 DEF Fs!InsertInv
  <2>. QED  BY <1>12, <2>4 DEF Fs!LookInv, Fs!WalkInv, Fs!Looking
<1>14. /\ lister[p] \in Fs!ListerType /\ lister' = [lister EXCEPT ![p] = lister[p]] /\ begun' \in Nat
       /\ cwd' \in [Client -> Seq(Name)] /\ torn' \subseteq Fs!Directory
       /\ entry' \in [NewFile -> (Fs!Directory \X Name) \cup {Fs!NoEntry}]
  BY <1>2, <1>3, PathCallIs DEF Fs!TypeOK
<1>. QED  BY <1>5, <1>7, <1>9, <1>10, <1>11, <1>12, <1>13, <1>14, DirectoryStep

\* Only the way back changes.
LEMMA CompleteKeeps ==
    ASSUME Fs!FileSystemAssumption, Fs!Inv, NEW p \in Client, Fs!Complete(p)
    PROVE  Fs!Inv'
<1>1. /\ Fs!TypeOK /\ begun \in Nat /\ torn \subseteq Fs!Directory
      /\ pathCall[p].above \in Fs!Node \cup {Missing}
      /\ parentNode' = [parentNode EXCEPT ![pathCall[p].file] = pathCall[p].above]
      /\ Fs!Becomes(p, Fs!Idle)
      /\ entry' = entry /\ nodeValue' = nodeValue /\ leftNode' = leftNode /\ rightNode' = rightNode
      /\ lister' = lister /\ cwd' = cwd /\ begun' = begun /\ torn' = torn
  BY PathCallIs DEF Fs!Inv, Fs!TypeOK, Fs!Complete
<1>2. NodesStay
  BY <1>1 DEF NodesStay, Fs!Home, Fs!NameOf
<1>3. Fs!MountInv' /\ Fs!HomeInv' /\ Fs!CwdInv'
  BY <1>1 DEF Fs!Inv, Fs!MountInv, Fs!HomeInv, Fs!Home, Fs!CwdInv, Fs!Follows
<1>4. /\ lister[p] \in Fs!ListerType /\ lister' = [lister EXCEPT ![p] = lister[p]] /\ begun' \in Nat
      /\ cwd' \in [Client -> Seq(Name)] /\ torn' \subseteq Fs!Directory
      /\ entry' \in [NewFile -> (Fs!Directory \X Name) \cup {Fs!NoEntry}]
      /\ nodeValue' \in [Fs!Node -> Fs!File \cup {Missing}]
      /\ leftNode' \in [Fs!Node -> Fs!Node \cup {Missing}]
      /\ rightNode' \in [Fs!Node -> Fs!Node \cup {Missing}]
      /\ parentNode' \in [Fs!Node -> Fs!Node \cup {Missing}]
  BY <1>1, PathCallIs DEF Fs!TypeOK
<1>5. /\ Fs!Idle \in Fs!CallType /\ Fs!LookInv(Fs!Idle)' /\ Fs!InsertInv(Fs!Idle)' /\ Fs!WalkInv(Fs!Idle, lister[p])
  BY IdleIs DEF Fs!LookInv, Fs!InsertInv, Fs!WalkInv, Fs!Looking, Fs!Inserting
<1>. QED  BY <1>1, <1>2, <1>3, <1>4, <1>5, DirectoryStep

\* An entry that is replaced is none that is mounted.
LEMMA MoveKeyKeeps ==
    ASSUME Fs!FileSystemAssumption, Fs!Inv, NEW p \in Client, Fs!MoveKey(p)
    PROVE  Fs!Inv'
<1>1. /\ Fs!TypeOK /\ Fs!InsertInv(pathCall[p]) /\ begun' \in Nat /\ torn' = torn /\ lister' = lister
      /\ UNCHANGED <<Fs!treeVars, cwd>>
  BY DEF Fs!Inv, Fs!TypeOK, Fs!MoveKey
<1>2. PICK to \in {"take", "clear"} : Fs!Goes(p, to) /\ pathCall[p].at \in {"forget", "take"}
  BY DEF Fs!MoveKey
<1>3. PICK d \in Fs!CallType :
         /\ Fs!Becomes(p, d)
         /\ d.at = to /\ d.file = pathCall[p].file /\ d.name = pathCall[p].name /\ d.node = pathCall[p].node
         /\ d.above = pathCall[p].above
  <2>1. to \in {"idle"} \cup Fs!Looking \cup Fs!Inserting \cup Fs!Walking
    BY DEF Fs!Inserting
  <2>. QED  BY <1>1, <1>2, <2>1, GoesOn
<1>4. Fs!InsertInv(d)
  BY <1>1, <1>2, <1>3 DEF Fs!InsertInv, Fs!Inserting
<1>5. Fs!LookInv(d) /\ Fs!WalkInv(d, lister[p])
  BY <1>2, <1>3 DEF Fs!LookInv, Fs!WalkInv, Fs!Looking
<1>. QED  BY <1>1, <1>3, <1>4, <1>5, QuietCall

LEMMA MoveValueKeeps ==
    ASSUME Fs!FileSystemAssumption, Fs!Inv, NEW p \in Client, Fs!MoveValue(p)
    PROVE  Fs!Inv'
<1>1. PICK n, new : n = pathCall[p].node /\ new = pathCall[p].file
  OBVIOUS
<1>2. /\ Fs!TypeOK /\ begun \in Nat /\ torn \subseteq Fs!Directory /\ Fs!InsertInv(pathCall[p])
      /\ pathCall[p].at \in {"clear", "set"}
      /\ entry' = entry /\ leftNode' = leftNode /\ rightNode' = rightNode /\ parentNode' = parentNode
      /\ lister' = lister /\ cwd' = cwd /\ begun' = begun /\ torn' = torn
  BY DEF Fs!Inv, Fs!TypeOK, Fs!MoveValue
<1>3. new \in NewFile /\ n \in NewFile /\ new \in Fs!File /\ n \in Fs!Node /\ n \notin Fs!Mounted
  BY <1>1, <1>2 DEF Fs!InsertInv, Fs!Inserting, Fs!File, Fs!Node, Fs!FileSystemAssumption
<1>4. PICK v \in NewFile \cup {Missing} : nodeValue' = [nodeValue EXCEPT ![n] = v]
  BY <1>1, <1>3 DEF Fs!MoveValue
<1>5. PICK d \in Fs!CallType :
         Fs!Becomes(p, d) /\ Fs!InsertInv(d) /\ Fs!LookInv(d) /\ Fs!WalkInv(d, lister[p])
  <2>1. CASE Fs!Goes(p, "set")
    <3>1. "set" \in {"idle"} \cup Fs!Looking \cup Fs!Inserting \cup Fs!Walking
      BY DEF Fs!Inserting
    <3>2. PICK d \in Fs!CallType :
             /\ Fs!Becomes(p, d)
             /\ d.at = "set" /\ d.file = pathCall[p].file /\ d.name = pathCall[p].name
             /\ d.node = pathCall[p].node /\ d.above = pathCall[p].above
      BY <1>2, <2>1, <3>1, GoesOn
    <3>3. Fs!InsertInv(d)
      BY <1>2, <3>2 DEF Fs!InsertInv, Fs!Inserting
    <3>4. Fs!LookInv(d) /\ Fs!WalkInv(d, lister[p])
      BY <3>2 DEF Fs!LookInv, Fs!WalkInv, Fs!Looking
    <3>. QED  BY <3>2, <3>3, <3>4
  <2>2. CASE Fs!Becomes(p, Fs!Idle)
    BY <2>2, IdleIs
  <2>. QED  BY <2>1, <2>2 DEF Fs!MoveValue
<1>6. /\ nodeValue' \in [Fs!Node -> Fs!File \cup {Missing}]
      /\ \A o \in Fs!Node : nodeValue'[o] = IF o = n THEN v ELSE nodeValue[o]
  <2>1. v \in Fs!File \cup {Missing}
    BY <1>4 DEF Fs!File
  <2>2. nodeValue \in [Fs!Node -> Fs!File \cup {Missing}]
    BY <1>2 DEF Fs!TypeOK
  <2>. QED  BY <1>3, <1>4, <2>1, <2>2
<1>7. Fs!MountInv'
  <2>1. Fs!Mounted \subseteq Fs!Node /\ NewFile \subseteq Fs!Node
    BY DEF Fs!Node
  <2>. QED  BY <1>2, <1>3, <1>6, <2>1 DEF Fs!Inv, Fs!MountInv
<1>8. NodesStay /\ Fs!HomeInv' /\ Fs!CwdInv'
  BY <1>2 DEF NodesStay, Fs!Inv, Fs!HomeInv, Fs!Home, Fs!NameOf, Fs!CwdInv, Fs!Follows
<1>9. Fs!LookInv(d)' /\ Fs!InsertInv(d)'
  BY <1>5, <1>8, FoundStays
<1>10. /\ lister[p] \in Fs!ListerType /\ lister' = [lister EXCEPT ![p] = lister[p]] /\ begun' \in Nat
       /\ cwd' \in [Client -> Seq(Name)] /\ torn' \subseteq Fs!Directory
       /\ entry' \in [NewFile -> (Fs!Directory \X Name) \cup {Fs!NoEntry}]
       /\ leftNode' \in [Fs!Node -> Fs!Node \cup {Missing}]
       /\ rightNode' \in [Fs!Node -> Fs!Node \cup {Missing}]
       /\ parentNode' \in [Fs!Node -> Fs!Node \cup {Missing}]
  BY <1>2, PathCallIs DEF Fs!TypeOK
<1>. QED  BY <1>5, <1>6, <1>7, <1>8, <1>9, <1>10, DirectoryStep

\* A walk only moves the iterator of its handle.
LEMMA WalkKeeps ==
    ASSUME Fs!FileSystemAssumption, Fs!Inv, NEW p \in Client, UNCHANGED <<Fs!treeVars, cwd, begun, torn>>,
           NEW to \in {"idle"} \cup Fs!Walking, \/ Fs!Goes(p, to)
                                                \/ to = "idle" /\ Fs!Becomes(p, Fs!Idle)
                                                \/ pathCall[p].at = to /\ pathCall' = pathCall,
           to \in {"next", "climb", "top", "entry"} => pathCall[p].node # Missing,
           NEW l \in Fs!ListerType, lister' = [lister EXCEPT ![p] = l],
           to \in {"next", "down", "climb", "top"} => l.iterator # Missing
    PROVE  Fs!Inv'
<1>1. Fs!TypeOK /\ begun' \in Nat /\ torn' = torn
  BY DEF Fs!Inv, Fs!TypeOK
<1>2. to \notin Fs!Looking /\ to \notin Fs!Inserting
  BY DEF Fs!Looking, Fs!Inserting, Fs!Walking
<1>3. PICK d \in Fs!CallType : Fs!Becomes(p, d) /\ d.at = to /\ (to # "idle" => d.node = pathCall[p].node)
  <2>1. CASE Fs!Goes(p, to)
    <3>1. to \in {"idle"} \cup Fs!Looking \cup Fs!Inserting \cup Fs!Walking
      OBVIOUS
    <3>2. PICK d \in Fs!CallType : Fs!Becomes(p, d) /\ d.at = to /\ d.node = pathCall[p].node
      BY <1>1, <2>1, <3>1, GoesOn
    <3>. QED  BY <3>2
  <2>2. CASE to = "idle" /\ Fs!Becomes(p, Fs!Idle)
    BY <2>2, IdleIs
  <2>3. CASE pathCall[p].at = to /\ pathCall' = pathCall
    <3>1. pathCall' = [pathCall EXCEPT ![p] = pathCall[p]]
      BY <1>1, <2>3 DEF Fs!TypeOK
    <3>. QED  BY <1>1, <2>3, <3>1, PathCallIs DEF Fs!Becomes
  <2>. QED  BY <2>1, <2>2, <2>3
<1>4. Fs!LookInv(d) /\ Fs!InsertInv(d)
  BY <1>2, <1>3 DEF Fs!LookInv, Fs!InsertInv
<1>5. Fs!WalkInv(d, l)
  BY <1>3 DEF Fs!WalkInv
<1>. QED  BY <1>1, <1>3, <1>4, <1>5, QuietDirectoryStep

\* An iterator that moves.
LEMMA IteratorMoves ==
    ASSUME Fs!TypeOK, NEW p \in Client, NEW n \in Fs!Node \cup {Missing}, Fs!MovesTo(p, n)
    PROVE  \E l \in Fs!ListerType : lister' = [lister EXCEPT ![p] = l] /\ l.iterator = n
<1>. DEFINE l == [lister[p] EXCEPT !.iterator = n]
<1>1. lister[p] \in Fs!ListerType
  BY PathCallIs
<1>2. l \in Fs!ListerType /\ l.iterator = n
  BY <1>1 DEF Fs!ListerType
<1>3. lister' = [lister EXCEPT ![p] = l]
  BY DEF Fs!MovesTo
<1>. HIDE DEF l
<1>. QED  BY <1>2, <1>3

LEMMA AdvanceKeeps ==
    ASSUME Fs!FileSystemAssumption, Fs!Inv, NEW p \in Client, Fs!Advance(p)
    PROVE  Fs!Inv'
<1>1. /\ Fs!TypeOK /\ pathCall[p].at = "next" /\ Fs!WalkInv(pathCall[p], lister[p])
      /\ UNCHANGED <<Fs!treeVars, cwd, begun, torn>>
  BY DEF Fs!Inv, Fs!Advance
<1>2. pathCall[p].node # Missing /\ lister[p].iterator # Missing /\ lister[p] \in Fs!ListerType
      /\ lister = [lister EXCEPT ![p] = lister[p]]
  BY <1>1, PathCallIs DEF Fs!WalkInv
<1>3. lister[p].iterator \in Fs!Node
  BY <1>2 DEF Fs!ListerType
<1>4. rightNode[lister[p].iterator] \in Fs!Node \cup {Missing}
  BY <1>1, <1>3 DEF Fs!TypeOK
<1>5. {"down", "climb"} \subseteq Fs!Walking
  BY DEF Fs!Walking
<1>6. CASE rightNode[lister[p].iterator] # Missing
  <2>1. PICK n \in Fs!Node : n = rightNode[lister[p].iterator] /\ n # Missing
    BY <1>4, <1>6
  <2>2. Fs!MovesTo(p, n) /\ Fs!Goes(p, "down")
    BY <1>6, <2>1 DEF Fs!Advance
  <2>3. PICK l \in Fs!ListerType : lister' = [lister EXCEPT ![p] = l] /\ l.iterator = n
    BY <1>1, <2>2, IteratorMoves
  <2>. QED  BY <1>1, <1>5, <2>1, <2>2, <2>3, WalkKeeps
<1>7. CASE rightNode[lister[p].iterator] = Missing
  <2>1. Fs!Goes(p, "climb") /\ lister' = [lister EXCEPT ![p] = lister[p]]
    BY <1>2, <1>7 DEF Fs!Advance
  <2>. QED  BY <1>1, <1>2, <1>5, <2>1, WalkKeeps
<1>. QED  BY <1>6, <1>7

LEMMA DownKeeps ==
    ASSUME Fs!FileSystemAssumption, Fs!Inv, NEW p \in Client, Fs!Down(p)
    PROVE  Fs!Inv'
<1>1. /\ Fs!TypeOK /\ pathCall[p].at = "down" /\ Fs!WalkInv(pathCall[p], lister[p])
      /\ UNCHANGED <<Fs!treeVars, cwd, begun, torn>>
  BY DEF Fs!Inv, Fs!Down
<1>2. lister[p].iterator # Missing /\ lister[p] \in Fs!ListerType
      /\ lister = [lister EXCEPT ![p] = lister[p]]
  BY <1>1, PathCallIs DEF Fs!WalkInv
<1>3. lister[p].iterator \in Fs!Node
  BY <1>2 DEF Fs!ListerType
<1>4. leftNode[lister[p].iterator] \in Fs!Node \cup {Missing}
  BY <1>1, <1>3 DEF Fs!TypeOK
<1>5. {"down", "entry"} \subseteq Fs!Walking
  BY DEF Fs!Walking
<1>6. CASE leftNode[lister[p].iterator] # Missing
  <2>1. PICK n \in Fs!Node : n = leftNode[lister[p].iterator] /\ n # Missing
    BY <1>4, <1>6
  <2>2. Fs!MovesTo(p, n) /\ pathCall' = pathCall
    BY <1>6, <2>1 DEF Fs!Down
  <2>3. PICK l \in Fs!ListerType : lister' = [lister EXCEPT ![p] = l] /\ l.iterator = n
    BY <1>1, <2>2, IteratorMoves
  <2>. QED  BY <1>1, <1>5, <2>1, <2>2, <2>3, WalkKeeps
<1>7. CASE leftNode[lister[p].iterator] = Missing
  <2>1. /\ lister' = [lister EXCEPT ![p] = lister[p]]
        /\ IF pathCall[p].node = Missing THEN Fs!Becomes(p, Fs!Idle) ELSE Fs!Goes(p, "entry")
    BY <1>2, <1>7 DEF Fs!Down
  <2>. QED  BY <1>1, <1>2, <1>5, <2>1, WalkKeeps
<1>. QED  BY <1>6, <1>7

LEMMA ClimbKeeps ==
    ASSUME Fs!FileSystemAssumption, Fs!Inv, NEW p \in Client, Fs!Climb(p)
    PROVE  Fs!Inv'
<1>1. /\ Fs!TypeOK /\ pathCall[p].at = "climb" /\ Fs!WalkInv(pathCall[p], lister[p])
      /\ UNCHANGED <<Fs!treeVars, cwd, begun, torn>>
  BY DEF Fs!Inv, Fs!Climb
<1>2. pathCall[p].node # Missing /\ lister[p].iterator # Missing /\ lister[p] \in Fs!ListerType
  BY <1>1, PathCallIs DEF Fs!WalkInv
<1>3. lister[p].iterator \in Fs!Node
  BY <1>2 DEF Fs!ListerType
<1>. DEFINE above == parentNode[lister[p].iterator]
<1>4. above \in Fs!Node \cup {Missing}
  BY <1>1, <1>3 DEF Fs!TypeOK
<1>5. {"climb", "top"} \subseteq Fs!Walking
  BY DEF Fs!Walking
<1>6. CASE above # Missing /\ leftNode[above] # lister[p].iterator
  <2>1. PICK n \in Fs!Node : n = above /\ n # Missing
    BY <1>4, <1>6
  <2>2. Fs!MovesTo(p, n) /\ pathCall' = pathCall
    BY <1>6, <2>1 DEF Fs!Climb
  <2>3. PICK l \in Fs!ListerType : lister' = [lister EXCEPT ![p] = l] /\ l.iterator = n
    BY <1>1, <2>2, IteratorMoves
  <2>. QED  BY <1>1, <1>2, <1>5, <2>1, <2>2, <2>3, WalkKeeps
<1>7. CASE ~ (above # Missing /\ leftNode[above] # lister[p].iterator)
  <2>. DEFINE n == lister[p].iterator
              sure == lister[p].sure /\ (above # Missing \/ n = Fs!Root(Fs!Home(n)))
              l == [lister[p] EXCEPT !.sure = sure]
  <2>1. /\ lister' = [lister EXCEPT ![p] = l] /\ Fs!Goes(p, "top")
    BY <1>7 DEF Fs!Climb
  <2>2. sure \in BOOLEAN
    BY <1>2 DEF Fs!ListerType
  <2>. HIDE DEF sure
  <2>3. l \in Fs!ListerType /\ l.iterator = n
    BY <1>2, <2>2 DEF Fs!ListerType
  <2>. HIDE DEF l
  <2>. QED  BY <1>1, <1>2, <1>5, <2>1, <2>3, WalkKeeps
<1>. QED  BY <1>6, <1>7

LEMMA TopKeeps ==
    ASSUME Fs!FileSystemAssumption, Fs!Inv, NEW p \in Client, Fs!Top(p)
    PROVE  Fs!Inv'
<1>1. /\ Fs!TypeOK /\ pathCall[p].at = "top" /\ Fs!WalkInv(pathCall[p], lister[p])
      /\ UNCHANGED <<Fs!treeVars, cwd, begun, torn>>
  BY DEF Fs!Inv, Fs!Top
<1>2. pathCall[p].node # Missing /\ lister[p].iterator # Missing /\ lister[p] \in Fs!ListerType
  BY <1>1, PathCallIs DEF Fs!WalkInv
<1>3. lister[p].iterator \in Fs!Node
  BY <1>2 DEF Fs!ListerType
<1>4. PICK n \in Fs!Node \cup {Missing} : n = parentNode[lister[p].iterator]
  BY <1>1, <1>3 DEF Fs!TypeOK
<1>5. Fs!MovesTo(p, n) /\ Fs!Goes(p, "entry")
  BY <1>4 DEF Fs!Top
<1>6. PICK l \in Fs!ListerType : lister' = [lister EXCEPT ![p] = l] /\ l.iterator = n
  BY <1>1, <1>5, IteratorMoves
<1>7. "entry" \in {"idle"} \cup Fs!Walking /\ "entry" \notin {"next", "down", "climb", "top"}
  BY DEF Fs!Walking
<1>. QED  BY <1>1, <1>2, <1>5, <1>6, <1>7, WalkKeeps

LEMMA EntryKeeps ==
    ASSUME Fs!FileSystemAssumption, Fs!Inv, NEW p \in Client, Fs!Entry(p)
    PROVE  Fs!Inv'
<1>. DEFINE n == pathCall[p].node
<1>1. CASE nodeValue[n] = Missing \/ Fs!NameOf(n) \in Long
  BY <1>1, HaltKeeps DEF Fs!Entry
<1>2. CASE ~ (nodeValue[n] = Missing \/ Fs!NameOf(n) \in Long)
  <2>. DEFINE l == [lister[p] EXCEPT !.listed = Append(@, n), !.sure = @ /\ ~ Fs!Damaged(n)]
  <2>1. /\ Fs!TypeOK /\ pathCall[p].at = "entry" /\ Fs!WalkInv(pathCall[p], lister[p])
        /\ UNCHANGED <<Fs!treeVars, cwd, begun, torn>> /\ Fs!Becomes(p, Fs!Idle)
        /\ lister' = [lister EXCEPT ![p] = l]
    BY <1>2 DEF Fs!Inv, Fs!Entry
  <2>2. n \in Fs!Node /\ lister[p] \in Fs!ListerType
    BY <2>1, PathCallIs DEF Fs!WalkInv
  <2>3. /\ lister[p].listed \in Seq(Fs!Node) /\ Append(lister[p].listed, n) \in Seq(Fs!Node)
        /\ (lister[p].sure /\ ~ Fs!Damaged(n)) \in BOOLEAN
    BY <2>2 DEF Fs!ListerType
  <2>4. l \in Fs!ListerType
    <3>. HIDE DEF n
    <3>. QED  BY <2>2, <2>3 DEF Fs!ListerType
  <2>. HIDE DEF l
  <2>5. /\ "idle" \in {"idle"} \cup Fs!Walking
        /\ "idle" \notin {"next", "climb", "top", "entry"} /\ "idle" \notin {"next", "down", "climb", "top"}
    OBVIOUS
  <2>. QED  BY <2>1, <2>4, <2>5, WalkKeeps
<1>. QED  BY <1>1, <1>2

\* read() begins the walk.
LEMMA ReadBegins ==
    ASSUME Fs!FileSystemAssumption, Fs!Inv, NEW p \in Client, Fs!Read(p)
    PROVE  Fs!Inv'
<1>. DEFINE e == [Fs!Idle EXCEPT !.at = "next", !.node = lister[p].iterator]
<1>1. /\ Fs!TypeOK /\ lister[p].iterator # Missing /\ lister[p] \in Fs!ListerType
      /\ lister' = lister /\ UNCHANGED <<Fs!treeVars, cwd>> /\ begun' \in Nat /\ torn' = torn
      /\ Fs!Becomes(p, e)
  BY PathCallIs DEF Fs!Inv, Fs!TypeOK, Fs!Read
<1>2. lister[p].iterator \in Fs!Node
  BY <1>1 DEF Fs!ListerType
<1>3. e \in Fs!CallType /\ e.at = "next" /\ e.node = lister[p].iterator
  BY <1>2, IdleIs DEF Fs!CallType, Fs!Walking
<1>. HIDE DEF e
<1>4. Fs!LookInv(e) /\ Fs!InsertInv(e) /\ Fs!WalkInv(e, lister[p])
  BY <1>1, <1>3 DEF Fs!LookInv, Fs!InsertInv, Fs!WalkInv, Fs!Looking, Fs!Inserting
<1>. QED  BY <1>1, <1>3, <1>4, QuietCall

\* A path that led to a directory led there through directories that are mounted.
LEMMA ChdirKeeps ==
    ASSUME Fs!FileSystemAssumption, Fs!Inv, NEW p \in Client, Fs!Chdir(p)
    PROVE  Fs!Inv'
<1>1. PICK path : path = pathCall[p].path
  OBVIOUS
<1>2. /\ Fs!TypeOK /\ Fs!LookInv(pathCall[p]) /\ pathCall[p].at = "found" /\ pathCall[p].file \in Fs!Directory
      /\ path \in Seq(Name) /\ Len(path) \in Nat /\ cwd' = [cwd EXCEPT ![p] = path]
      /\ Fs!Becomes(p, Fs!Idle) /\ UNCHANGED <<Fs!treeVars, lister, begun, torn>>
      /\ begun \in Nat /\ torn \subseteq Fs!Directory /\ pathCall[p].given \in Nat /\ pathCall[p].i \in Nat
  BY <1>1, PathCallIs DEF Fs!Inv, Fs!TypeOK, Fs!Chdir, Fs!Found, Fs!IsDirectory
<1>3. \E f \in [0 .. Len(path) -> Fs!Directory] : Fs!Follows(f, path, Len(path))
  <2>1. pathCall[p].i = Len(path) /\ Fs!PathInv(pathCall[p])
    BY <1>1, <1>2 DEF Fs!LookInv, Fs!Looking
  <2>2. PICK f \in [0 .. Len(path) -> Fs!Directory], k \in pathCall[p].given .. Len(path) :
           /\ Fs!Follows(f, path, k)
           /\ IF pathCall[p].i <= k THEN pathCall[p].file = f[pathCall[p].i]
              ELSE pathCall[p].file \notin Fs!Directory
    BY <1>1, <2>1 DEF Fs!PathInv
  <2>3. k = Len(path)
    BY <1>2, <2>1, <2>2
  <2>. QED  BY <2>2, <2>3
<1>4. /\ cwd' \in [Client -> Seq(Name)] /\ cwd'[p] = path
      /\ \A q \in Client : q # p => cwd'[q] = cwd[q]
  BY <1>2 DEF Fs!TypeOK
<1>5. Fs!CwdInv'
  <2>1. ASSUME NEW q \in Client
        PROVE  \E f \in [0 .. Len(cwd'[q]) -> Fs!Directory] : Fs!Follows(f, cwd'[q], Len(cwd'[q]))
    <3>1. CASE q = p
      BY <1>3, <1>4, <3>1
    <3>2. CASE q # p
      BY <1>4, <3>2 DEF Fs!Inv, Fs!CwdInv
    <3>. QED  BY <3>1, <3>2
  <2>. QED  BY <2>1 DEF Fs!CwdInv
<1>6. /\ entry' = entry /\ nodeValue' = nodeValue /\ leftNode' = leftNode
      /\ rightNode' = rightNode /\ parentNode' = parentNode
  BY <1>2 DEF Fs!treeVars
<1>7. NodesStay
  BY <1>6 DEF NodesStay, Fs!Home, Fs!NameOf
<1>8. Fs!MountInv' /\ Fs!HomeInv'
  BY <1>6 DEF Fs!Inv, Fs!MountInv, Fs!HomeInv, Fs!Home
<1>9. /\ lister[p] \in Fs!ListerType /\ lister' = [lister EXCEPT ![p] = lister[p]] /\ begun' \in Nat
      /\ torn' \subseteq Fs!Directory
      /\ entry' \in [NewFile -> (Fs!Directory \X Name) \cup {Fs!NoEntry}]
      /\ nodeValue' \in [Fs!Node -> Fs!File \cup {Missing}]
      /\ leftNode' \in [Fs!Node -> Fs!Node \cup {Missing}]
      /\ rightNode' \in [Fs!Node -> Fs!Node \cup {Missing}]
      /\ parentNode' \in [Fs!Node -> Fs!Node \cup {Missing}]
  BY <1>2, <1>6, PathCallIs DEF Fs!TypeOK
<1>10. /\ Fs!Idle \in Fs!CallType /\ Fs!LookInv(Fs!Idle)' /\ Fs!InsertInv(Fs!Idle)' /\ Fs!WalkInv(Fs!Idle, lister[p])
  BY IdleIs DEF Fs!LookInv, Fs!InsertInv, Fs!WalkInv, Fs!Looking, Fs!Inserting
<1>. QED  BY <1>2, <1>4, <1>5, <1>7, <1>8, <1>9, <1>10, DirectoryStep

\* Where the nodes are that are mounted.
LEMMA MountedAround ==
    ASSUME Fs!FileSystemAssumption, NEW n \in Fs!Mounted
    PROVE  /\ Fs!MountedLeft(n) # Missing => Fs!MountedLeft(n) \in Fs!Mounted /\ Fs!MountedLeft(n)[1] = n[1]
           /\ Fs!MountedRight(n) # Missing => Fs!MountedRight(n) \in Fs!Mounted /\ Fs!MountedRight(n)[1] = n[1]
<1>1. Fs!MountedLeft(n) # Missing => Fs!MountedLeft(n) \in Fs!Mounted /\ Fs!MountedLeft(n)[1] = n[1]
  BY DEF Fs!MountedLeft, Fs!Mounted
<1>2. n \notin NewFile
  BY MountedIs
<1>3. Fs!MountedRight(n) # Missing => Fs!MountedRight(n) \in Fs!Mounted /\ Fs!MountedRight(n)[1] = n[1]
  <2>1. CASE n = <<"/", "..">>
    <3>1. Fs!MountedRight(n) = <<"/", "dev">>
      BY <1>2, <2>1 DEF Fs!MountedRight
    <3>. QED  BY <2>1, <3>1 DEF Fs!Mounted
  <2>2. CASE n = <<"/dev", "..">>
    <3>1. Fs!MountedRight(n) = <<"/dev", "tty">>
      BY <1>2, <2>2 DEF Fs!MountedRight
    <3>. QED  BY <2>2, <3>1 DEF Fs!Mounted
  <2>3. CASE n = <<"/bin", "..">>
    <3>1. Fs!MountedRight(n) = <<"/bin", "sh">>
      BY <1>2, <2>3 DEF Fs!MountedRight
    <3>. QED  BY <2>3, <3>1 DEF Fs!Mounted
  <2>4. CASE n \notin {<<"/", "..">>, <<"/dev", "..">>, <<"/bin", "..">>}
    <3>1. Fs!MountedRight(n) \in {<<n[1], "..">>, Missing}
      BY <1>2, <2>4 DEF Fs!MountedRight
    <3>2. <<n[1], "..">> \in Fs!Mounted
      BY DEF Fs!Mounted
    <3>. QED  BY <3>1, <3>2
  <2>. QED  BY <2>1, <2>2, <2>3, <2>4
<1>. QED  BY <1>1, <1>3

LEMMA DirectoriesInit == ASSUME Fs!FileSystemAssumption, Fs!Init PROVE Fs!Inv
<1>1. Missing \notin Fs!Node /\ NewFile \cap Fs!Mounted = {} /\ Fs!Node = Fs!Mounted \cup NewFile
  BY DEF Fs!FileSystemAssumption, Fs!Node
<1>2. ASSUME NEW n \in Fs!Node
      PROVE  /\ Fs!MountedLeft(n) \in Fs!Node \cup {Missing} /\ Fs!MountedRight(n) \in Fs!Node \cup {Missing}
             /\ n \in Fs!Mounted => Fs!MountedFile(n) \in Fs!File
             /\ Fs!MountedParent(n) \in Fs!Node \cup {Missing}
  <2>1. Fs!MountedLeft(n) \in Fs!Node \cup {Missing} /\ Fs!MountedRight(n) \in Fs!Node \cup {Missing}
    BY <1>1, MountedAround, NewFilesLead
  <2>2. n \in Fs!Mounted => Fs!MountedFile(n) \in Fs!File
    BY MountedIs
  <2>3. Fs!MountedParent(n) \in Fs!Node \cup {Missing}
    <3>. DEFINE above == {m \in Fs!Mounted : n \in {Fs!MountedLeft(m), Fs!MountedRight(m)} \ {Missing}}
    <3>1. CASE above = {}
      BY <3>1 DEF Fs!MountedParent
    <3>2. CASE above # {}
      <4>1. (CHOOSE m \in above : TRUE) \in above
        BY <3>2
      <4>2. Fs!MountedParent(n) = CHOOSE m \in above : TRUE
        BY <3>2 DEF Fs!MountedParent
      <4>. QED  BY <1>1, <4>1, <4>2
    <3>. QED  BY <3>1, <3>2
  <2>. QED  BY <2>1, <2>2, <2>3
<1>3. Fs!TypeOK
  <2>1. nodeValue \in [Fs!Node -> Fs!File \cup {Missing}]
    BY <1>2 DEF Fs!Init
  <2>2. /\ leftNode \in [Fs!Node -> Fs!Node \cup {Missing}]
        /\ rightNode \in [Fs!Node -> Fs!Node \cup {Missing}]
        /\ parentNode \in [Fs!Node -> Fs!Node \cup {Missing}]
    BY <1>2 DEF Fs!Init
  <2>3. entry \in [NewFile -> (Fs!Directory \X Name) \cup {Fs!NoEntry}]
    BY DEF Fs!Init
  <2>4. pathCall \in [Client -> Fs!CallType]
    BY IdleIs DEF Fs!Init
  <2>5. lister \in [Client -> Fs!ListerType]
    BY DEF Fs!Init, Fs!ListerType
  <2>6. cwd \in [Client -> Seq(Name)] /\ begun \in Nat /\ torn \subseteq Fs!Directory
    BY DEF Fs!Init
  <2>. QED  BY <2>1, <2>2, <2>3, <2>4, <2>5, <2>6 DEF Fs!TypeOK
<1>4. Fs!MountInv
  <2>1. ASSUME NEW n \in Fs!Mounted
        PROVE  /\ nodeValue[n] = Fs!MountedFile(n)
               /\ leftNode[n] = Fs!MountedLeft(n) /\ rightNode[n] = Fs!MountedRight(n)
    BY <1>1 DEF Fs!Init
  <2>2. ASSUME NEW n \in NewFile PROVE nodeValue[n] = Missing /\ entry[n] \notin Fs!Mounted
    <3>1. nodeValue[n] = Missing /\ entry[n] = Fs!NoEntry
      BY <1>1 DEF Fs!Init
    <3>2. Fs!NoEntry \notin Fs!Mounted
      <4>1. SUFFICES ASSUME <<Missing, Missing>> \in Fs!Mounted PROVE FALSE
        BY DEF Fs!NoEntry
      <4>2. Missing \in Name
        BY <4>1, MountedIs
      <4>. QED  BY <4>2 DEF Fs!FileSystemAssumption
    <3>. QED  BY <3>1, <3>2
  <2>. QED  BY <2>1, <2>2 DEF Fs!MountInv
<1>5. Fs!HomeInv
  <2>1. ASSUME NEW n \in Fs!Node
        PROVE  /\ leftNode[n] # Missing => Fs!Home(n) # Missing /\ Fs!Home(leftNode[n]) = Fs!Home(n)
               /\ rightNode[n] # Missing => Fs!Home(n) # Missing /\ Fs!Home(rightNode[n]) = Fs!Home(n)
    <3>1. leftNode[n] = Fs!MountedLeft(n) /\ rightNode[n] = Fs!MountedRight(n)
      BY DEF Fs!Init
    <3>2. CASE n \in NewFile
      BY <3>1, <3>2, NewFilesLead
    <3>3. CASE n \in Fs!Mounted
      <4>1. Fs!Home(n) = n[1] /\ n[1] \in Fs!Directory
        BY <3>3, MountedIs
      <4>2. Fs!Home(n) # Missing
        BY <4>1 DEF Fs!FileSystemAssumption, Fs!File
      <4>3. leftNode[n] # Missing => Fs!Home(leftNode[n]) = n[1]
        BY <3>1, <3>3, MountedAround DEF Fs!Home
      <4>4. rightNode[n] # Missing => Fs!Home(rightNode[n]) = n[1]
        BY <3>1, <3>3, MountedAround DEF Fs!Home
      <4>. QED  BY <4>1, <4>2, <4>3, <4>4
    <3>. QED  BY <1>1, <3>2, <3>3
  <2>. QED  BY <2>1 DEF Fs!HomeInv
<1>6. Fs!CwdInv
  <2>1. SUFFICES ASSUME NEW p \in Client
                 PROVE  \E f \in [0 .. Len(cwd[p]) -> Fs!Directory] : Fs!Follows(f, cwd[p], Len(cwd[p]))
    BY DEF Fs!CwdInv
  <2>2. cwd[p] = <<>> /\ Len(cwd[p]) = 0
    BY DEF Fs!Init
  <2>. DEFINE f == [j \in 0 .. 0 |-> "/"]
  <2>3. f \in [0 .. 0 -> Fs!Directory] /\ f[0] = "/"
    BY DEF Fs!Directory
  <2>. HIDE DEF f
  <2>4. Fs!Follows(f, cwd[p], 0)
    BY <2>3 DEF Fs!Follows
  <2>. QED  BY <2>2, <2>3, <2>4
<1>7. ASSUME NEW p \in Client
      PROVE  Fs!LookInv(pathCall[p]) /\ Fs!InsertInv(pathCall[p]) /\ Fs!WalkInv(pathCall[p], lister[p])
  <2>1. pathCall[p] = Fs!Idle
    BY DEF Fs!Init
  <2>. QED  BY <2>1, IdleIs
<1>. QED  BY <1>3, <1>4, <1>5, <1>6, <1>7 DEF Fs!Inv

LEMMA DirectoriesNext == ASSUME Fs!FileSystemAssumption, Fs!Inv, Fs!Next PROVE Fs!Inv'
<1>1. ASSUME NEW p \in Client, Fs!Search(p) PROVE Fs!Inv'
  <2>1. pathCall[p].at \in {"search", "place"}
    BY <1>1 DEF Fs!Search
  <2>. QED  BY <1>1, <2>1, SearchKeeps, PlaceKeeps
<1>2. ASSUME NEW p \in Client, NEW flags,
             \/ Fs!OpenExisting(p, flags) \/ Fs!OpenStops(p, flags)
             \/ Fs!OpenFails(p, flags) \/ Fs!OpenMissing(p, flags)
      PROVE  Fs!Inv'
  BY <1>2, OpenExistingKeeps, OpenMissingKeeps, CallReturns, HaltKeeps DEF Fs!OpenStops, Fs!OpenFails
<1>3. ASSUME NEW p \in Client, Fs!CreateFails(p) \/ Fs!CreateStops(p) \/ Fs!CallStops(p) \/ Fs!ChdirFails(p)
      PROVE  Fs!Inv'
  BY <1>3, CallReturns, HaltKeeps DEF Fs!CreateFails, Fs!CreateStops, Fs!CallStops, Fs!ChdirFails
<1>4. ASSUME NEW p \in Client,
             \/ Fs!Create(p) \/ Fs!Slot(p) \/ Fs!Link(p) \/ Fs!Complete(p)
             \/ Fs!MoveKey(p) \/ Fs!MoveValue(p)
      PROVE  Fs!Inv'
  BY <1>4, CreateKeeps, SlotKeeps, LinkKeeps, CompleteKeeps, MoveKeyKeeps, MoveValueKeeps
<1>5. ASSUME NEW p \in Client,
             \/ Fs!Read(p) \/ Fs!Advance(p) \/ Fs!Down(p) \/ Fs!Climb(p) \/ Fs!Top(p) \/ Fs!Entry(p)
      PROVE  Fs!Inv'
  BY <1>5, ReadBegins, AdvanceKeeps, DownKeeps, ClimbKeeps, TopKeeps, EntryKeeps
<1>. QED  BY <1>1, <1>2, <1>3, <1>4, <1>5, NotThereKeeps, ValueKeeps, ChdirKeeps, LookupKeeps DEF Fs!Next

\* The mounted directories keep their nodes, and a path that is looked up leads through them as far
\* as the working directory does, for any number of processes and any names, whatever is created and
\* replaced meanwhile and in whatever order the steps of an insertion are seen.
THEOREM DirectoryInvariance == Fs!FileSystemAssumption => (Fs!Spec => []Fs!Inv)
<1>. SUFFICES ASSUME Fs!FileSystemAssumption PROVE Fs!Spec => []Fs!Inv
  OBVIOUS
<1>1. Fs!Init => Fs!Inv
  BY DirectoriesInit
<1>2. Fs!Inv /\ [Fs!Next]_Fs!vars => Fs!Inv'
  BY DirectoriesNext, DirectoriesStay DEF Fs!vars
<1>. QED  BY <1>1, <1>2, PTL DEF Fs!Spec

\* What the invariant says of a path.
LEMMA DirectoryIsThere == ASSUME Fs!FileSystemAssumption, Fs!Inv PROVE Fs!WorkingDirectoryIsThere
<1>. SUFFICES ASSUME NEW p \in Client
              PROVE  LET c == pathCall[p]
                     IN  /\ c.at = "missing" => c.i >= c.given
                         /\ c.at = "notdir" => c.i > c.given
                         /\ (c.at = "found" /\ c.i = c.given) => c.file \in Fs!Directory
  BY DEF Fs!WorkingDirectoryIsThere
<1>. DEFINE c == pathCall[p]
<1>1. SUFFICES ASSUME c.at \in {"missing", "notdir", "found"}
               PROVE  /\ c.at = "missing" => c.i >= c.given
                      /\ c.at = "notdir" => c.i > c.given
                      /\ (c.at = "found" /\ c.i = c.given) => c.file \in Fs!Directory
  OBVIOUS
<1>2. Fs!TypeOK /\ Fs!LookInv(c)
  BY DEF Fs!Inv
<1>3. /\ c.path \in Seq(Name) /\ Len(c.path) \in Nat /\ c.given \in Nat /\ c.i \in Nat
  BY <1>2, PathCallIs
<1>4. /\ c.i \in 0 .. Len(c.path) /\ Fs!PathInv(c)
      /\ c.at = "missing" => c.i < Len(c.path) /\ c.file \in Fs!Directory /\ <<c.file, c.path[c.i + 1]>> \notin Fs!Mounted
      /\ c.at = "notdir" => c.file \notin Fs!Directory
  BY <1>1, <1>2 DEF Fs!LookInv, Fs!Looking
<1>5. PICK f \in [0 .. Len(c.path) -> Fs!Directory], k \in c.given .. Len(c.path) :
         Fs!Follows(f, c.path, k) /\ IF c.i <= k THEN c.file = f[c.i] ELSE c.file \notin Fs!Directory
  BY <1>4 DEF Fs!PathInv
<1>6. k \in Nat /\ c.given <= k
  BY <1>3, <1>5
<1>7. ASSUME c.at = "missing", c.i < c.given PROVE FALSE
  <2>1. c.i + 1 \in 1 .. k /\ (c.i + 1) - 1 = c.i /\ c.i <= k
    BY <1>3, <1>6, <1>7
  <2>2. <<f[c.i], c.path[c.i + 1]>> \in Fs!MountedDirectory /\ c.file = f[c.i]
    BY <1>5, <2>1 DEF Fs!Follows
  <2>. QED  BY <1>4, <1>7, <2>2 DEF Fs!MountedDirectory
<1>8. c.i <= k => c.file \in Fs!Directory
  BY <1>3, <1>4, <1>5
<1>. HIDE DEF c
<1>. QED  BY <1>3, <1>4, <1>6, <1>7, <1>8

-----------------------------------------------------------------------------
(* The editor.  Its lines are counted: the newlines of the text, one by one,  *)
(* are what nlines says as long as every deletion moves all of what is behind. *)

(* The lines of a text *)

\* The newlines are counted one by one.
LEMMA NewlinesStep ==
    ASSUME NEW text, NEW n \in Nat
    PROVE  /\ Ed!Newlines(text, n) \in Nat /\ Ed!Newlines(text, n) <= n
           /\ Ed!Newlines(text, 0) = 0
           /\ Ed!Newlines(text, n + 1) = Ed!Newlines(text, n) + (IF text[n + 1] = Newline THEN 1 ELSE 0)
<1>. DEFINE Of(m) == {i \in 1 .. m : text[i] = Newline}
<1>1. ASSUME NEW m \in Nat
      PROVE IsFiniteSet(Of(m)) /\ Cardinality(Of(m)) \in Nat /\ Cardinality(Of(m)) <= m
  <2>1. IsFiniteSet(1 .. m) /\ Cardinality(1 .. m) = m
    BY FS_Interval
  <2>2. Of(m) \in SUBSET (1 .. m)
    OBVIOUS
  <2>. HIDE DEF Of
  <2>3. IsFiniteSet(Of(m)) /\ Cardinality(Of(m)) <= m
    BY <2>1, <2>2, FS_Subset
  <2>. QED  BY <2>3, FS_CardinalityType
<1>2. Of(0) = {}
  OBVIOUS
<1>3. IF text[n + 1] = Newline THEN Of(n + 1) = Of(n) \cup {n + 1} ELSE Of(n + 1) = Of(n)
  OBVIOUS
<1>4. n + 1 \notin Of(n)
  OBVIOUS
<1>5. \A m : Ed!Newlines(text, m) = Cardinality(Of(m))
  BY DEF Ed!Newlines, Ed!Cardinality, Cardinality
<1>. HIDE DEF Of
<1>6. IF text[n + 1] = Newline THEN Cardinality(Of(n + 1)) = Cardinality(Of(n)) + 1
      ELSE Cardinality(Of(n + 1)) = Cardinality(Of(n))
  BY <1>1, <1>3, <1>4, FS_AddElement
<1>7. Cardinality(Of(0)) = 0
  BY <1>2, FS_EmptySet
<1>. QED  BY <1>1, <1>5, <1>6, <1>7

\* Two texts that begin in the same way have as many newlines there.
LEMMA NewlinesSame ==
    ASSUME NEW text, NEW other, NEW n \in Nat, \A i \in 1 .. n : text[i] = other[i]
    PROVE  Ed!Newlines(text, n) = Ed!Newlines(other, n)
<1>1. {i \in 1 .. n : text[i] = Newline} = {i \in 1 .. n : other[i] = Newline}
  OBVIOUS
<1>. QED  BY <1>1 DEF Ed!Newlines, Ed!Cardinality, Cardinality

\* A part without newlines adds none.
LEMMA NewlinesNone ==
    ASSUME NEW text, NEW n \in Nat, NEW k \in Nat, \A i \in n + 1 .. n + k : text[i] # Newline
    PROVE  Ed!Newlines(text, n + k) = Ed!Newlines(text, n)
<1>1. {i \in 1 .. n + k : text[i] = Newline} = {i \in 1 .. n : text[i] = Newline}
  <2>1. ASSUME NEW i \in 1 .. n + k, text[i] = Newline PROVE i \in 1 .. n
    BY <2>1
  <2>. QED  BY <2>1
<1>. QED  BY <1>1 DEF Ed!Newlines, Ed!Cardinality, Cardinality

\* The k characters of a text behind x are those of another one behind y.
SameLines(text, x, other, y, k) == \A j \in 1 .. k : text[x + j] = other[y + j]

\* The newlines of a part, wherever the part is.
LEMMA NewlinesMove ==
    ASSUME NEW text, NEW other, NEW x \in Nat, NEW y \in Nat, NEW k \in Nat,
           SameLines(text, x, other, y, k)
    PROVE  Ed!Newlines(text, x + k) + Ed!Newlines(other, y) = Ed!Newlines(other, y + k) + Ed!Newlines(text, x)
<1>. DEFINE Same(m) == Ed!Newlines(text, x + m) + Ed!Newlines(other, y) = Ed!Newlines(other, y + m) + Ed!Newlines(text, x)
            T == {m \in 0 .. k : ~ Same(m)}
<1>1. SUFFICES ASSUME T # {} PROVE FALSE
  <2>1. k \in 0 .. k
    OBVIOUS
  <2>2. SUFFICES ASSUME T = {} PROVE Same(k)
    OBVIOUS
  <2>3. k \notin T
    BY <2>2
  <2>4. k \in T <=> (k \in 0 .. k /\ ~ Same(k))
    BY Zenon
  <2>5. Same(k)
    BY <2>1, <2>3, <2>4, Zenon
  <2>. QED  BY <2>5
<1>2. PICK m \in T : \A z \in T : m <= z
  <2>1. T \in SUBSET Nat
    OBVIOUS
  <2>. HIDE DEF T
  <2>. QED  BY <1>1, <2>1, Minimum
<1>3. m \in 0 .. k /\ ~ Same(m)
  OBVIOUS
<1>4. m # 0
  <2>1. Ed!Newlines(text, x) \in Nat /\ Ed!Newlines(other, y) \in Nat /\ x + 0 = x /\ y + 0 = y
    BY NewlinesStep
  <2>2. Same(0)
    BY <2>1
  <2>. QED  BY <1>3, <2>2
<1>5. Same(m - 1)
  <2>1. m - 1 \in 0 .. k /\ ~ (m <= m - 1)
    BY <1>3, <1>4
  <2>. QED  BY <1>2, <2>1
<1>6. text[x + m] = other[y + m]
  BY <1>3, <1>4 DEF SameLines
<1>7. PICK p \in Nat, q \in Nat : p = x + (m - 1) /\ q = y + (m - 1)
  BY <1>3, <1>4
<1>8. p + 1 = x + m /\ q + 1 = y + m
  BY <1>3, <1>7
<1>9. /\ Ed!Newlines(text, p + 1) = Ed!Newlines(text, p) + (IF text[p + 1] = Newline THEN 1 ELSE 0)
      /\ Ed!Newlines(other, q + 1) = Ed!Newlines(other, q) + (IF other[q + 1] = Newline THEN 1 ELSE 0)
      /\ Ed!Newlines(text, p) \in Nat /\ Ed!Newlines(other, q) \in Nat
      /\ Ed!Newlines(text, x) \in Nat /\ Ed!Newlines(other, y) \in Nat
  BY NewlinesStep
<1>10. Ed!Newlines(text, p) + Ed!Newlines(other, y) = Ed!Newlines(other, q) + Ed!Newlines(text, x)
  BY <1>5, <1>7
<1>11. Ed!Newlines(text, p + 1) + Ed!Newlines(other, y) = Ed!Newlines(other, q + 1) + Ed!Newlines(text, x)
  BY <1>6, <1>8, <1>9, <1>10
<1>. QED  BY <1>3, <1>8, <1>11

\* A longer part has no fewer newlines.
LEMMA NewlinesGrow ==
    ASSUME NEW text, NEW m \in Nat, NEW n \in Nat, m <= n
    PROVE  Ed!Newlines(text, m) <= Ed!Newlines(text, n)
<1>1. {i \in 1 .. m : text[i] = Newline} \in SUBSET {i \in 1 .. n : text[i] = Newline}
  OBVIOUS
<1>2. IsFiniteSet({i \in 1 .. n : text[i] = Newline})
  <2>1. IsFiniteSet(1 .. n)
    BY FS_Interval
  <2>2. {i \in 1 .. n : text[i] = Newline} \in SUBSET (1 .. n)
    OBVIOUS
  <2>. QED  BY <2>1, <2>2, FS_Subset
<1>. QED  BY <1>1, <1>2, FS_Subset DEF Ed!Newlines, Ed!Cardinality, Cardinality

\* The loop of buffer_get_line_offset(), where it is behind o characters.
Skips(W, lineno) ==
    W = [o \in 0 .. used |->
            IF o = 0 THEN lineno - 1
            ELSE IF W[o - 1] > 0 /\ data[o] = Newline THEN W[o - 1] - 1 ELSE W[o - 1]]

\* The least offset.
LeastOf(S) == IF S = {} THEN Ed!None ELSE CHOOSE o \in S : \A other \in S : o <= other

LEMMA SkipsExist ==
    ASSUME used \in Nat, NEW lineno \in Nat \ {0}
    PROVE  \E W : Skips(W, lineno)
<1>. DEFINE F(o) == IF Ed!Newlines(data, o) < lineno - 1 THEN lineno - 1 - Ed!Newlines(data, o) ELSE 0
            W == [o \in 0 .. used |-> F(o)]
<1>1. F(0) = lineno - 1
  BY NewlinesStep
<1>2. ASSUME NEW o \in 0 .. used, o # 0
      PROVE  F(o) = IF F(o - 1) > 0 /\ data[o] = Newline THEN F(o - 1) - 1 ELSE F(o - 1)
  <2>1. PICK p \in Nat : p = o - 1
    BY <1>2
  <2>2. p + 1 = o
    BY <1>2, <2>1
  <2>3. PICK x \in Nat, y \in Nat : x = Ed!Newlines(data, p) /\ y = Ed!Newlines(data, p + 1)
    BY NewlinesStep
  <2>4. y = x + (IF data[p + 1] = Newline THEN 1 ELSE 0)
    BY <2>3, NewlinesStep
  <2>5. /\ F(o) = IF y < lineno - 1 THEN lineno - 1 - y ELSE 0
        /\ F(o - 1) = IF x < lineno - 1 THEN lineno - 1 - x ELSE 0
    BY <2>1, <2>2, <2>3
  <2>. HIDE DEF F
  <2>. QED  BY <2>2, <2>4, <2>5
<1>. HIDE DEF F
<1>3. Skips(W, lineno)
  BY <1>1, <1>2 DEF Skips
<1>. QED  BY <1>3

LEMMA SkipsAre ==
    ASSUME used \in Nat, NEW lineno \in Nat \ {0}, NEW W, Skips(W, lineno), NEW n \in 0 .. used
    PROVE  W[n] = IF Ed!Newlines(data, n) < lineno - 1 THEN lineno - 1 - Ed!Newlines(data, n) ELSE 0
<1>. DEFINE F(o) == IF Ed!Newlines(data, o) < lineno - 1 THEN lineno - 1 - Ed!Newlines(data, o) ELSE 0
            T == {o \in 0 .. used : W[o] # F(o)}
<1>1. SUFFICES ASSUME T # {} PROVE FALSE
  <2>1. T = {} => W[n] = F(n)
    OBVIOUS
  <2>. QED  BY <2>1
<1>2. PICK m \in T : \A z \in T : m <= z
  <2>1. T \in SUBSET Nat
    OBVIOUS
  <2>. HIDE DEF T
  <2>. QED  BY <1>1, <2>1, Minimum
<1>3. m \in 0 .. used /\ W[m] # F(m)
  OBVIOUS
<1>4. W[m] = IF m = 0 THEN lineno - 1
             ELSE IF W[m - 1] > 0 /\ data[m] = Newline THEN W[m - 1] - 1 ELSE W[m - 1]
  BY <1>3 DEF Skips
<1>5. m # 0
  <2>1. F(0) = lineno - 1
    BY NewlinesStep
  <2>. QED  BY <1>3, <1>4, <2>1
<1>6. W[m - 1] = F(m - 1)
  <2>1. m - 1 \in 0 .. used /\ ~ (m <= m - 1)
    BY <1>3, <1>5
  <2>. QED  BY <1>2, <2>1
<1>7. PICK p \in Nat : p = m - 1
  BY <1>3, <1>5
<1>8. p + 1 = m
  BY <1>3, <1>7
<1>9. PICK x \in Nat, y \in Nat : x = Ed!Newlines(data, p) /\ y = Ed!Newlines(data, p + 1)
  BY NewlinesStep
<1>10. y = x + (IF data[p + 1] = Newline THEN 1 ELSE 0)
  BY <1>9, NewlinesStep
<1>11. /\ F(m) = IF y < lineno - 1 THEN lineno - 1 - y ELSE 0
       /\ F(m - 1) = IF x < lineno - 1 THEN lineno - 1 - x ELSE 0
  BY <1>7, <1>8, <1>9
<1>. HIDE DEF F, T
<1>. QED  BY <1>3, <1>4, <1>5, <1>6, <1>8, <1>10, <1>11

\* A line begins behind as many newlines as there are lines before it, and is found if there are.
LEMMA LineOffsetIs ==
    ASSUME used \in Nat, NEW lineno \in Nat \ {0}
    PROVE  IF lineno - 1 <= Ed!Newlines(data, used)
           THEN Ed!LineOffset(lineno) \in 0 .. used /\ Ed!Newlines(data, Ed!LineOffset(lineno)) = lineno - 1
           ELSE Ed!LineOffset(lineno) = Ed!None
<1>1. PICK W : Skips(W, lineno) /\ Ed!LineOffset(lineno) = LeastOf({o \in 0 .. used : W[o] = 0})
  <2>. DEFINE C == CHOOSE W : Skips(W, lineno)
  <2>1. Skips(C, lineno)
    BY SkipsExist
  <2>2. Ed!LineOffset(lineno) = LeastOf({o \in 0 .. used : C[o] = 0})
    BY DEF Ed!LineOffset, Skips, LeastOf
  <2>. QED  BY <2>1, <2>2
<1>2. PICK S : S = {o \in 0 .. used : W[o] = 0}
  OBVIOUS
<1>3. \A o : o \in S <=> (o \in 0 .. used /\ lineno - 1 <= Ed!Newlines(data, o))
  <2>1. ASSUME NEW o \in 0 .. used PROVE W[o] = 0 <=> lineno - 1 <= Ed!Newlines(data, o)
    <3>1. Ed!Newlines(data, o) \in Nat
      BY NewlinesStep
    <3>2. W[o] = IF Ed!Newlines(data, o) < lineno - 1 THEN lineno - 1 - Ed!Newlines(data, o) ELSE 0
      BY <1>1, SkipsAre
    <3>. QED  BY <3>1, <3>2
  <2>. QED  BY <1>2, <2>1
<1>4. CASE lineno - 1 <= Ed!Newlines(data, used)
  <2>1. used \in S
    BY <1>3, <1>4
  <2>2. S \in SUBSET Nat
    BY <1>2
  <2>3. PICK o \in S : \A other \in S : o <= other
    BY <2>1, <2>2, Minimum
  <2>4. LeastOf(S) \in S /\ \A other \in S : LeastOf(S) <= other
    BY <2>3 DEF LeastOf
  <2>5. PICK r \in S : r = Ed!LineOffset(lineno) /\ \A other \in S : r <= other
    BY <1>1, <1>2, <2>4
  <2>6. r \in 0 .. used /\ lineno - 1 <= Ed!Newlines(data, r)
    BY <1>3
  <2>7. Ed!Newlines(data, r) = lineno - 1
    <3>1. CASE r = 0
      BY <2>6, <3>1, NewlinesStep
    <3>2. CASE r # 0
      <4>1. PICK p \in Nat : p = r - 1
        BY <2>6, <3>2
      <4>2. p \in 0 .. used /\ p + 1 = r /\ ~ (r <= p)
        BY <2>6, <4>1
      <4>3. ~ (lineno - 1 <= Ed!Newlines(data, p))
        BY <1>3, <2>5, <4>2
      <4>4. Ed!Newlines(data, p) \in Nat /\ Ed!Newlines(data, r) \in Nat
            /\ Ed!Newlines(data, p + 1) = Ed!Newlines(data, p) + (IF data[p + 1] = Newline THEN 1 ELSE 0)
        BY <2>6, NewlinesStep
      <4>. QED  BY <2>6, <4>2, <4>3, <4>4
    <3>. QED  BY <3>1, <3>2
  <2>. QED  BY <1>4, <2>5, <2>6, <2>7
<1>5. CASE ~ (lineno - 1 <= Ed!Newlines(data, used))
  <2>1. \A o \in 0 .. used : Ed!Newlines(data, o) <= Ed!Newlines(data, used)
    BY NewlinesGrow
  <2>2. \A o \in 0 .. used : Ed!Newlines(data, o) \in Nat
    BY NewlinesStep
  <2>3. S = {}
    BY <1>3, <1>5, <2>1, <2>2
  <2>. QED  BY <1>1, <1>2, <1>5, <2>3 DEF LeastOf
<1>. QED  BY <1>4, <1>5


(* The buffer *)

\* memmove() within the buffer.
LEMMA MovedIs ==
    ASSUME data \in Seq(Ed!Memory), NEW to \in Nat, NEW from \in Nat, NEW amount \in Nat,
           to + amount <= Len(data), from + amount <= Len(data)
    PROVE  /\ Ed!Moved(to, from, amount) \in Seq(Ed!Memory)
           /\ Len(Ed!Moved(to, from, amount)) = Len(data)
           /\ \A i \in 1 .. Len(data) :
                 Ed!Moved(to, from, amount)[i]
                    = IF i > to /\ i <= to + amount THEN data[i - to + from] ELSE data[i]
<1>1. PICK n \in Nat : n = Len(data)
  OBVIOUS
<1>2. PICK m : m = Ed!Moved(to, from, amount)
  OBVIOUS
<1>3. m = [i \in 1 .. n |-> IF i \in to + 1 .. to + amount THEN data[i - to + from] ELSE data[i]]
  BY <1>1, <1>2 DEF Ed!Moved
<1>4. ASSUME NEW i \in 1 .. n
      PROVE  /\ m[i] = IF i > to /\ i <= to + amount THEN data[i - to + from] ELSE data[i]
             /\ m[i] \in Ed!Memory
  <2>1. i \in to + 1 .. to + amount <=> i > to /\ i <= to + amount
    OBVIOUS
  <2>2. m[i] = IF i > to /\ i <= to + amount THEN data[i - to + from] ELSE data[i]
    BY <1>3, <2>1
  <2>3. i > to /\ i <= to + amount => i - to + from \in 1 .. n
    BY <1>1
  <2>4. \A j \in 1 .. n : data[j] \in Ed!Memory
    BY <1>1
  <2>. QED  BY <2>2, <2>3, <2>4
<1>5. m = [i \in 1 .. n |-> m[i]]
  BY <1>3
<1>6. m \in Seq(Ed!Memory) /\ Len(m) = n
  BY <1>4, <1>5
<1>. QED  BY <1>1, <1>2, <1>4, <1>6

\* The same, for a copy that has a name.
LEMMA MovedItems ==
    ASSUME data \in Seq(Ed!Memory), NEW q \in Nat, NEW x \in Nat, NEW u \in Nat,
           q + u <= Len(data), x + u <= Len(data), NEW m, m = Ed!Moved(q, x, u)
    PROVE  \A i \in 1 .. Len(data) :
              m[i] = IF i > q /\ i <= q + u THEN data[i - q + x] ELSE data[i]
<1>1. \A i \in 1 .. Len(data) :
         Ed!Moved(q, x, u)[i] = IF i > q /\ i <= q + u THEN data[i - q + x] ELSE data[i]
  BY MovedIs
<1>. QED  BY <1>1

\* The buffer with a piece inserted: memmove() moves what is behind the offset out of the way.
LEMMA InsertedIs ==
    ASSUME data \in Seq(Ed!Memory), used \in Nat, offset \in Nat, NEW piece \in Seq(Ed!Memory),
           offset + Len(piece) + used <= Len(data)
    PROVE  /\ Ed!Inserted(piece) \in Seq(Ed!Memory) /\ Len(Ed!Inserted(piece)) = Len(data)
           /\ \A i \in 1 .. offset + Len(piece) + used :
                 Ed!Inserted(piece)[i] = IF i <= offset THEN data[i]
                                      ELSE IF i <= offset + Len(piece) THEN piece[i - offset]
                                      ELSE data[i - Len(piece)]
<1>1. PICK n \in Nat, l \in Nat : n = Len(data) /\ l = Len(piece)
  OBVIOUS
<1>2. PICK m, w : m = Ed!Moved(offset + l, offset, used) /\ w = Ed!Inserted(piece)
  OBVIOUS
<1>3. /\ m \in Seq(Ed!Memory) /\ Len(m) = n
      /\ \A i \in 1 .. n : m[i] = IF i > offset + l /\ i <= offset + l + used
                                  THEN data[i - (offset + l) + offset] ELSE data[i]
  <2>1. offset + l \in Nat /\ offset + l + used <= Len(data) /\ offset + used <= Len(data)
    BY <1>1
  <2>2. PICK q \in Nat, x \in Nat, u \in Nat : q = offset + l /\ x = offset /\ u = used
    BY <2>1
  <2>3. q + u <= Len(data) /\ x + u <= Len(data) /\ m = Ed!Moved(q, x, u)
    BY <1>1, <1>2, <2>1, <2>2
  <2>4. m \in Seq(Ed!Memory) /\ Len(m) = Len(data)
    BY <2>3, MovedIs
  <2>5. \A i \in 1 .. Len(data) :
           m[i] = IF i > q /\ i <= q + u THEN data[i - q + x] ELSE data[i]
    BY <2>3, MovedItems
  <2>. QED  BY <1>1, <2>2, <2>4, <2>5
<1>4. w = [i \in 1 .. n |-> IF i \in offset + 1 .. offset + l THEN piece[i - offset] ELSE m[i]]
  BY <1>1, <1>2 DEF Ed!Inserted
<1>5. ASSUME NEW i \in 1 .. n
      PROVE  /\ w[i] = IF i > offset /\ i <= offset + l THEN piece[i - offset] ELSE m[i]
             /\ w[i] \in Ed!Memory
  <2>1. i \in offset + 1 .. offset + l <=> i > offset /\ i <= offset + l
    BY <1>1
  <2>2. w[i] = IF i > offset /\ i <= offset + l THEN piece[i - offset] ELSE m[i]
    BY <1>4, <2>1
  <2>3. i > offset /\ i <= offset + l => i - offset \in 1 .. l
    BY <1>1
  <2>4. (\A j \in 1 .. l : piece[j] \in Ed!Memory) /\ (\A j \in 1 .. n : m[j] \in Ed!Memory)
    BY <1>1, <1>3
  <2>. QED  BY <2>2, <2>3, <2>4
<1>6. w = [i \in 1 .. n |-> w[i]]
  BY <1>4
<1>7. w \in Seq(Ed!Memory) /\ Len(w) = n
  <2>1. \A i \in 1 .. n : w[i] \in Ed!Memory
    BY <1>5
  <2>. QED  BY <1>6, <2>1
<1>8. ASSUME NEW i \in 1 .. offset + l + used
      PROVE  w[i] = IF i <= offset THEN data[i]
                    ELSE IF i <= offset + l THEN piece[i - offset] ELSE data[i - l]
  <2>1. i \in 1 .. n
    BY <1>1
  <2>2. w[i] = IF i > offset /\ i <= offset + l THEN piece[i - offset] ELSE m[i]
    BY <1>5, <2>1
  <2>3. m[i] = IF i > offset + l /\ i <= offset + l + used
               THEN data[i - (offset + l) + offset] ELSE data[i]
    BY <1>3, <2>1
  <2>4. i - (offset + l) + offset = i - l
    BY <1>1
  <2>5. CASE i <= offset
    <3>1. ~ (i > offset) /\ ~ (i > offset + l)
      BY <1>1, <2>5
    <3>. QED  BY <2>2, <2>3, <2>5, <3>1
  <2>6. CASE i > offset /\ i <= offset + l
    BY <2>2, <2>6
  <2>7. CASE i > offset + l
    <3>1. ~ (i <= offset) /\ ~ (i <= offset + l) /\ i <= offset + l + used
      BY <1>1, <2>7
    <3>. QED  BY <2>2, <2>3, <2>4, <2>7, <3>1
  <2>8. i <= offset \/ (i > offset /\ i <= offset + l) \/ i > offset + l
    BY <1>1
  <2>. QED  BY <2>5, <2>6, <2>7, <2>8
<1>. QED  BY <1>1, <1>2, <1>7, <1>8

\* The characters of a piece come behind the ones that were typed, wherever the text was split.
LEMMA PieceIsInserted ==
    ASSUME Ed!EditorAssumption, Ed!TypeOK, Ed!InsertInv, editorAt \in {"append", "newline"},
           NEW piece \in Seq(Ed!Memory), NEW next,
           next \in {"append", "newline"}, Ed!AppendAtOffset(piece, next), editorAt' = next,
           before' = before, origin' = origin
    PROVE  Ed!InsertInv'
<1>1. SUFFICES ASSUME origin <= Len(before)
               PROVE  Ed!InsertInv'
  BY DEF Ed!InsertInv
<1>2. PICK l \in Nat, t \in Nat, b \in Nat : l = Len(piece) /\ t = Len(inserted) /\ b = Len(before)
  BY DEF Ed!TypeOK
<1>3. next # "aborted" /\ next # "undefined"
  OBVIOUS
<1>4. /\ data' = Ed!Inserted(piece) /\ used' = used + l /\ offset' = offset + l
      /\ inserted' = inserted \o piece /\ offset + l + used <= Len(data)
  BY <1>2, <1>3 DEF Ed!AppendAtOffset, Ed!TypeOK
<1>5. /\ offset = origin + t /\ used = b + t /\ origin \in Nat /\ origin <= b
      /\ offset \in Nat /\ used \in Nat
  BY <1>1, <1>2 DEF Ed!InsertInv, Ed!TypeOK
<1>6. \A i \in 1 .. used :
         data[i] = IF i <= origin THEN before[i]
                   ELSE IF i <= offset THEN inserted[i - origin] ELSE before[i - t]
  BY <1>1, <1>2 DEF Ed!InsertInv
<1>7. \A i \in 1 .. offset + l + used :
         data'[i] = IF i <= offset THEN data[i]
                    ELSE IF i <= offset + l THEN piece[i - offset] ELSE data[i - l]
  BY <1>2, <1>4, <1>5, InsertedIs DEF Ed!TypeOK
<1>8. /\ Len(inserted') = t + l
      /\ \A k \in 1 .. t + l : inserted'[k] = IF k <= t THEN inserted[k] ELSE piece[k - t]
  BY <1>2, <1>4, ConcatProperties DEF Ed!TypeOK
<1>9. ASSUME NEW i \in 1 .. used + l
      PROVE  data'[i] = IF i <= origin THEN before[i]
                        ELSE IF i <= offset + l THEN inserted'[i - origin] ELSE before[i - (t + l)]
  <2>1. i \in 1 .. offset + l + used
    BY <1>5
  <2>2. data'[i] = IF i <= offset THEN data[i]
                   ELSE IF i <= offset + l THEN piece[i - offset] ELSE data[i - l]
    BY <1>7, <2>1
  <2>3. CASE i <= origin
    <3>1. i \in 1 .. used /\ i <= offset
      BY <1>5, <2>3
    <3>. QED  BY <1>6, <2>2, <2>3, <3>1
  <2>4. CASE i > origin /\ i <= offset
    <3>1. i \in 1 .. used /\ i - origin \in 1 .. t + l /\ i - origin <= t /\ i <= offset + l /\ ~ (i <= origin)
      BY <1>5, <2>4
    <3>2. data'[i] = inserted[i - origin]
      BY <1>6, <2>2, <2>4, <3>1
    <3>3. inserted'[i - origin] = inserted[i - origin]
      BY <1>8, <3>1
    <3>. QED  BY <3>1, <3>2, <3>3
  <2>5. CASE i > offset /\ i <= offset + l
    <3>1. i - origin \in 1 .. t + l /\ ~ (i - origin <= t) /\ ~ (i <= origin) /\ ~ (i <= offset)
          /\ i - offset = i - origin - t
      BY <1>5, <2>5
    <3>2. inserted'[i - origin] = piece[i - origin - t]
      BY <1>8, <3>1
    <3>. QED  BY <2>2, <2>5, <3>1, <3>2
  <2>6. CASE i > offset + l
    <3>1. /\ i - l \in 1 .. used /\ ~ (i - l <= origin) /\ ~ (i - l <= offset)
          /\ ~ (i <= origin) /\ ~ (i <= offset) /\ ~ (i <= offset + l) /\ i - l - t = i - (t + l)
      BY <1>5, <2>6
    <3>2. data[i - l] = before[i - l - t]
      BY <1>6, <3>1
    <3>. QED  BY <2>2, <3>1, <3>2
  <2>7. i <= origin \/ (i > origin /\ i <= offset) \/ (i > offset /\ i <= offset + l) \/ i > offset + l
    BY <1>5
  <2>. QED  BY <2>3, <2>4, <2>5, <2>6, <2>7
<1>10. offset + l = origin + (t + l) /\ used + l = b + (t + l)
  BY <1>5
<1>. QED  BY <1>2, <1>4, <1>8, <1>9, <1>10 DEF Ed!InsertInv

\* The rest of a text after its first a characters.
LEMMA RestOf ==
    ASSUME NEW S, NEW s \in Seq(S), NEW a \in Nat, NEW n \in Nat, a <= n, n = Len(s)
    PROVE  /\ SubSeq(s, a + 1, n) \in Seq(S) /\ Len(SubSeq(s, a + 1, n)) = n - a
           /\ \A i \in 1 .. n - a : SubSeq(s, a + 1, n)[i] = s[a + i]
  OBVIOUS

\* With the text in one piece each its parts, the invariant says what the text is.
LEMMA TextIs ==
    ASSUME Ed!TypeOK, Ed!InsertInv
    PROVE  Ed!InsertsTheLines
<1>1. SUFFICES ASSUME editorAt \in {"append", "newline"}, origin <= Len(before)
               PROVE  SubSeq(data, 1, used)
                         = SubSeq(before, 1, origin) \o inserted \o SubSeq(before, origin + 1, Len(before))
  BY DEF Ed!InsertsTheLines, Ed!Text
<1>2. PICK t \in Nat, b \in Nat : t = Len(inserted) /\ b = Len(before)
  BY DEF Ed!TypeOK
<1>3. /\ offset = origin + t /\ used = b + t /\ origin \in Nat /\ origin <= b
      /\ offset \in Nat /\ used \in Nat /\ used <= Len(data)
  BY <1>1, <1>2 DEF Ed!InsertInv, Ed!TypeOK
<1>4. PICK x, y, z : x = SubSeq(before, 1, origin) /\ y = SubSeq(before, origin + 1, b) /\ z = SubSeq(data, 1, used)
  OBVIOUS
<1>5. x \in Seq(Ed!Memory) /\ Len(x) = origin /\ \A i \in 1 .. origin : x[i] = before[i]
  BY <1>2, <1>3, <1>4 DEF Ed!TypeOK
<1>6. y \in Seq(Ed!Memory) /\ Len(y) = b - origin /\ \A i \in 1 .. b - origin : y[i] = before[origin + i]
  <2>1. before \in Seq(Ed!Memory)
    BY DEF Ed!TypeOK
  <2>. QED  BY <1>2, <1>3, <1>4, <2>1, RestOf
<1>7. z \in Seq(Ed!Memory) /\ Len(z) = used /\ \A i \in 1 .. used : z[i] = data[i]
  BY <1>3, <1>4 DEF Ed!TypeOK
<1>8. PICK v, w : v = x \o inserted /\ w = v \o y
  OBVIOUS
<1>9. /\ v \in Seq(Ed!Memory) /\ Len(v) = origin + t
      /\ \A i \in 1 .. origin + t : v[i] = IF i <= origin THEN x[i] ELSE inserted[i - origin]
  BY <1>2, <1>5, <1>8, ConcatProperties DEF Ed!TypeOK
<1>10. /\ w \in Seq(Ed!Memory) /\ Len(w) = offset + (b - origin)
       /\ \A i \in 1 .. offset + (b - origin) : w[i] = IF i <= offset THEN v[i] ELSE y[i - offset]
  <2>1. Len(v) = offset /\ Len(y) = b - origin /\ v \in Seq(Ed!Memory) /\ y \in Seq(Ed!Memory)
    BY <1>3, <1>6, <1>9
  <2>2. w \in Seq(Ed!Memory) /\ Len(w) = Len(v) + Len(y)
        /\ \A i \in 1 .. Len(v) + Len(y) : w[i] = IF i <= Len(v) THEN v[i] ELSE y[i - Len(v)]
    BY <1>8, <2>1, ConcatProperties
  <2>. QED  BY <2>1, <2>2
<1>11. offset + (b - origin) = used
  BY <1>3
<1>12. ASSUME NEW i \in 1 .. used PROVE z[i] = w[i]
  <2>1. data[i] = IF i <= origin THEN before[i]
                  ELSE IF i <= offset THEN inserted[i - origin] ELSE before[i - t]
    BY <1>1, <1>2 DEF Ed!InsertInv
  <2>2. z[i] = data[i] /\ w[i] = IF i <= offset THEN v[i] ELSE y[i - offset]
    BY <1>7, <1>10, <1>11
  <2>3. CASE i <= offset
    <3>1. i \in 1 .. origin + t
      BY <1>3, <2>3
    <3>2. v[i] = IF i <= origin THEN x[i] ELSE inserted[i - origin]
      BY <1>9, <3>1
    <3>3. i <= origin => x[i] = before[i]
      BY <1>5
    <3>. QED  BY <2>1, <2>2, <2>3, <3>2, <3>3
  <2>4. CASE i > offset
    <3>1. i - offset \in 1 .. b - origin /\ origin + (i - offset) = i - t /\ ~ (i <= origin) /\ ~ (i <= offset)
      BY <1>3, <2>4
    <3>2. y[i - offset] = before[i - t]
      BY <1>6, <3>1
    <3>. QED  BY <2>1, <2>2, <3>1, <3>2
  <2>. QED  BY <1>3, <2>3, <2>4
<1>13. z = w
  BY <1>7, <1>10, <1>11, <1>12, SeqEqual
<1>. QED  BY <1>2, <1>4, <1>8, <1>13

(* The steps *)

\* A line that is found begins within the text, behind the lines before it.
LEMMA FoundIs ==
    ASSUME used \in Nat, NEW lineno \in Nat, Ed!IsFound(lineno)
    PROVE  /\ lineno >= 1 /\ Ed!LineOffset(lineno) \in 0 .. used
           /\ Ed!Newlines(data, Ed!LineOffset(lineno)) = lineno - 1
<1>1. lineno >= 1 /\ Ed!LineOffset(lineno) # Ed!None
  BY DEF Ed!IsFound
<1>2. lineno \in Nat \ {0}
  BY <1>1
<1>. QED  BY <1>1, <1>2, LineOffsetIs

\* A range that is deleted leaves a buffer of the size it had, and as many lines fewer as the range
\* has, when all of what is behind it is moved.
LEMMA DeletesTheRange ==
    ASSUME Ed!EditorAssumption, Ed!TypeOK, Ed!CountInv, editorAt = "prompt", NEW first \in Nat,
           NEW last \in Nat,
           NEW next, next \in {"prompt", "append"}, Ed!DeleteRange(first, last, next)
    PROVE  /\ editorAt' \in {next, "aborted", "undefined"}
           /\ data' \in Seq(Ed!Memory) /\ Len(data') = Len(data) /\ used' \in 0 .. Len(data)
           /\ nlines' \in 0 .. Width - 1 /\ exact' \in BOOLEAN
           /\ editorAt' = next /\ exact' => nlines' = Ed!Newlines(data', used') /\ offset' <= used'
<1>1. CASE editorAt' # next
  BY <1>1 DEF Ed!DeleteRange, Ed!TypeOK, Ed!bufferVars
<1>2. CASE editorAt' = next
  <2>1. PICK from, to : from = Ed!LineOffset(first) /\ to = Ed!LineOffset(last + 1)
    OBVIOUS
  <2>2. next # "aborted" /\ next # "undefined"
    OBVIOUS
  <2>3. /\ ~ (first > last) /\ Ed!IsFound(first) /\ Ed!IsFound(last + 1)
        /\ ~ (to + (to - from) > Len(data))
        /\ data' = Ed!Moved(from, to, to - from)
        /\ used' = used - (to - from)
        /\ nlines' = (nlines - (last - first + 1)) % Width
        /\ exact' = (exact /\ used - to <= to - from /\ offset' <= used')
    BY <1>2, <2>1, <2>2 DEF Ed!DeleteRange
  <2>4. used \in Nat /\ used <= Len(data) /\ data \in Seq(Ed!Memory) /\ Len(data) \in Nat
    BY DEF Ed!TypeOK
  <2>5. first >= 1 /\ from \in 0 .. used /\ Ed!Newlines(data, from) = first - 1
    BY <2>1, <2>3, <2>4, FoundIs
  <2>6. to \in 0 .. used /\ Ed!Newlines(data, to) = last
    <3>1. last + 1 \in Nat /\ last + 1 - 1 = last
      OBVIOUS
    <3>. QED  BY <2>1, <2>3, <2>4, <3>1, FoundIs
  <2>7. from < to
    <3>1. to <= from => Ed!Newlines(data, to) <= Ed!Newlines(data, from)
      BY <2>5, <2>6, NewlinesGrow
    <3>. QED  BY <2>3, <2>5, <2>6, <3>1
  <2>8. PICK c \in Nat, f \in Nat, t \in Nat : c = to - from /\ f = from /\ t = to
    BY <2>5, <2>6, <2>7
  <2>9. t + c <= Len(data) /\ f + c <= Len(data) /\ f + c = t /\ c <= used /\ t <= used
    BY <2>3, <2>4, <2>5, <2>6, <2>8
  <2>10. PICK d : d = Ed!Moved(f, t, c)
    OBVIOUS
  <2>11. d \in Seq(Ed!Memory) /\ Len(d) = Len(data) /\ data' = d
    BY <2>3, <2>4, <2>8, <2>9, <2>10, MovedIs
  <2>12. \A i \in 1 .. Len(data) : d[i] = IF i > f /\ i <= f + c THEN data[i - f + t] ELSE data[i]
    BY <2>4, <2>9, <2>10, MovedItems
  <2>13. used' = used - c /\ used - c \in 0 .. Len(data)
    BY <2>3, <2>4, <2>8, <2>9
  <2>14. nlines' \in 0 .. Width - 1 /\ exact' \in BOOLEAN
    <3>1. nlines - (last - first + 1) \in Int /\ Width \in Nat \ {0}
      BY DEF Ed!TypeOK, Ed!EditorAssumption
    <3>. QED  BY <2>3, <3>1 DEF Ed!TypeOK
  <2>15. ASSUME exact' PROVE nlines' = Ed!Newlines(data', used') /\ offset' <= used'
    <3>1. exact /\ used - t <= c /\ offset' <= used'
      BY <2>3, <2>8, <2>15 DEF Ed!TypeOK
    <3>2. nlines = Ed!Newlines(data, used)
      BY <3>1 DEF Ed!CountInv
    <3>3. PICK k \in Nat : k = used - t
      BY <2>4, <2>9
    <3>4. f + k = used - c /\ t + k = used
      BY <2>4, <2>9, <3>3
    <3>5. ASSUME NEW j \in 1 .. k PROVE d[f + j] = data[t + j]
      <4>1. /\ f + j \in 1 .. Len(data) /\ f + j > f /\ f + j <= f + c
            /\ f + j - f + t = t + j
        BY <2>4, <2>9, <3>1, <3>3
      <4>. QED  BY <2>12, <4>1
    <3>6. Ed!Newlines(d, f + k) + Ed!Newlines(data, t) = Ed!Newlines(data, t + k) + Ed!Newlines(d, f)
      <4>1. SameLines(d, f, data, t, k)
        BY <3>5 DEF SameLines
      <4>. QED  BY <4>1, NewlinesMove
    <3>7. Ed!Newlines(d, f) = Ed!Newlines(data, f)
      <4>1. ASSUME NEW i \in 1 .. f PROVE d[i] = data[i]
        <5>1. i \in 1 .. Len(data) /\ ~ (i > f)
          BY <2>4, <2>9
        <5>. QED  BY <2>12, <5>1
      <4>. QED  BY <4>1, NewlinesSame
    <3>8. /\ Ed!Newlines(d, used - c) + last = nlines + (first - 1)
      BY <2>5, <2>6, <2>8, <3>2, <3>4, <3>6, <3>7
    <3>9. PICK y \in Nat : y = Ed!Newlines(d, used - c)
      BY <3>4, NewlinesStep
    <3>10. y = nlines - (last - first + 1) /\ y \in 0 .. Width - 1
      <4>1. nlines \in 0 .. Width - 1 /\ Width \in Nat
        BY DEF Ed!TypeOK, Ed!EditorAssumption
      <4>. QED  BY <2>3, <3>8, <3>9, <4>1
    <3>11. y % Width = y
      <4>1. Width \in Nat \ {0}
        BY DEF Ed!EditorAssumption
      <4>. QED  BY <3>10, <4>1
    <3>12. nlines' = y
      BY <2>3, <3>10, <3>11
    <3>. QED  BY <2>11, <2>13, <3>1, <3>9, <3>12
  <2>. QED  BY <1>2, <2>11, <2>13, <2>14, <2>15
<1>. QED  BY <1>1, <1>2

\* What is inserted leaves a buffer of the size it had, and the newlines of the piece are all that
\* is added to those of the text.
LEMMA PieceIsCounted ==
    ASSUME Ed!EditorAssumption, Ed!TypeOK, editorAt \in {"append", "newline"},
           NEW piece \in Seq(Ed!Memory),
           NEW next, next \in {"append", "newline"}, Ed!AppendAtOffset(piece, next)
    PROVE  /\ editorAt' \in {next, "aborted", "undefined"}
           /\ data' \in Seq(Ed!Memory) /\ Len(data') = Len(data)
           /\ used' \in 0 .. Len(data) /\ offset' \in 0 .. Len(data) /\ inserted' \in Seq(Ed!Memory)
           /\ editorAt' = next /\ offset <= used =>
                 /\ Ed!Newlines(data', used') = Ed!Newlines(data, used) + Ed!Newlines(piece, Len(piece))
                 /\ offset' <= used'
<1>1. CASE editorAt' # next
  BY <1>1 DEF Ed!AppendAtOffset, Ed!TypeOK
<1>2. CASE editorAt' = next
  <2>1. next # "aborted" /\ next # "undefined"
    OBVIOUS
  <2>2. PICK l \in Nat, x \in Nat, u \in Nat : l = Len(piece) /\ x = offset /\ u = used
    BY DEF Ed!TypeOK
  <2>3. /\ u + l <= Len(data) /\ x + l + u <= Len(data) /\ u <= Len(data) /\ Len(data) \in Nat
        /\ data' = Ed!Inserted(piece) /\ used' = u + l /\ offset' = x + l
        /\ inserted' = inserted \o piece
    BY <1>2, <2>1, <2>2 DEF Ed!AppendAtOffset, Ed!TypeOK
  <2>4. PICK d : d = Ed!Inserted(piece)
    OBVIOUS
  <2>5. /\ d \in Seq(Ed!Memory) /\ Len(d) = Len(data) /\ data' = d
        /\ \A i \in 1 .. x + l + u :
              d[i] = IF i <= x THEN data[i]
                     ELSE IF i <= x + l THEN piece[i - x] ELSE data[i - l]
    BY <2>2, <2>3, <2>4, InsertedIs DEF Ed!TypeOK
  <2>6. inserted' \in Seq(Ed!Memory)
    BY <2>3 DEF Ed!TypeOK
  <2>7. ASSUME x <= u
        PROVE  Ed!Newlines(d, u + l) = Ed!Newlines(data, u) + Ed!Newlines(piece, l)
    <3>1. Ed!Newlines(d, x) = Ed!Newlines(data, x)
      <4>1. ASSUME NEW i \in 1 .. x PROVE d[i] = data[i]
        <5>1. i \in 1 .. x + l + u /\ i <= x
          OBVIOUS
        <5>. QED  BY <2>5, <5>1
      <4>. QED  BY <4>1, NewlinesSame
    <3>2. Ed!Newlines(d, x + l) + Ed!Newlines(piece, 0) = Ed!Newlines(piece, 0 + l) + Ed!Newlines(d, x)
      <4>1. ASSUME NEW j \in 1 .. l PROVE d[x + j] = piece[0 + j]
        <5>1. x + j \in 1 .. x + l + u /\ ~ (x + j <= x) /\ x + j <= x + l /\ x + j - x = j /\ 0 + j = j
          OBVIOUS
        <5>. QED  BY <2>5, <5>1
      <4>2. SameLines(d, x, piece, 0, l)
        BY <4>1 DEF SameLines
      <4>. QED  BY <4>2, NewlinesMove
    <3>3. PICK k \in Nat : k = u - x
      BY <2>7
    <3>4. PICK y \in Nat : y = x + l
      OBVIOUS
    <3>5. Ed!Newlines(d, y + k) + Ed!Newlines(data, x) = Ed!Newlines(data, x + k) + Ed!Newlines(d, y)
      <4>1. ASSUME NEW j \in 1 .. k PROVE d[y + j] = data[x + j]
        <5>1. /\ y + j \in 1 .. x + l + u /\ ~ (y + j <= x) /\ ~ (y + j <= x + l)
              /\ y + j - l = x + j
          BY <2>7, <3>3, <3>4
        <5>2. d[y + j] = data[y + j - l]
          BY <2>5, <5>1
        <5>. QED  BY <5>1, <5>2
      <4>2. SameLines(d, y, data, x, k)
        BY <4>1 DEF SameLines
      <4>. QED  BY <4>2, NewlinesMove
    <3>6. y + k = u + l /\ x + k = u /\ 0 + l = l
      BY <3>3, <3>4
    <3>7. /\ Ed!Newlines(piece, 0) = 0 /\ Ed!Newlines(piece, l) \in Nat
          /\ Ed!Newlines(d, u + l) \in Nat
          /\ Ed!Newlines(data, x) \in Nat /\ Ed!Newlines(data, u) \in Nat
          /\ Ed!Newlines(d, y) \in Nat
      <4>1. u + l \in Nat
        OBVIOUS
      <4>. QED  BY <4>1, NewlinesStep
    <3>8. Ed!Newlines(d, y) = Ed!Newlines(piece, l) + Ed!Newlines(data, x)
      BY <3>1, <3>2, <3>4, <3>6, <3>7
    <3>9. Ed!Newlines(d, u + l) + Ed!Newlines(data, x) = Ed!Newlines(data, u) + Ed!Newlines(d, y)
      BY <3>5, <3>6
    <3>. QED  BY <3>7, <3>8, <3>9
  <2>8. u + l \in 0 .. Len(data) /\ x + l \in 0 .. Len(data) /\ (x <= u => x + l <= u + l)
    BY <2>3
  <2>. QED  BY <1>2, <2>2, <2>3, <2>5, <2>6, <2>7, <2>8
<1>. QED  BY <1>1, <1>2

\* A step that begins or ends the work on a file.
LEMMA LoadKeeps ==
    ASSUME Ed!EditorAssumption, Ed!Inv, NEW content \in Seq(Ed!Memory), Len(content) <= MaxFile,
           Ed!Load(content), named' \in BOOLEAN
    PROVE  Ed!Inv'
<1>1. PICK fill : fill = [i \in 1 .. Slack |-> Undetermined]
  OBVIOUS
<1>2. Slack \in Nat /\ MaxFile \in Nat /\ Width \in Nat /\ Width > 0
  BY DEF Ed!EditorAssumption
<1>3. fill \in Seq(Ed!Memory) /\ Len(fill) = Slack
  BY <1>1, <1>2 DEF Ed!Memory
<1>4. data' = content \o fill /\ data' \in Seq(Ed!Memory) /\ Len(data') = Len(content) + Slack
  BY <1>1, <1>3, ConcatProperties DEF Ed!Load
<1>5. Len(content) \in Nat /\ offset = 0
  BY DEF Ed!Load, Ed!Inv, Ed!OffsetInv
<1>6. Ed!TypeOK'
  BY <1>2, <1>4, <1>5 DEF Ed!Load, Ed!Inv, Ed!TypeOK
<1>7. Ed!OffsetInv' /\ Ed!InsertInv'
  BY <1>5 DEF Ed!Load, Ed!OffsetInv, Ed!InsertInv
<1>8. Ed!CountInv'
  <2>1. SUFFICES ASSUME exact' PROVE nlines' = Ed!Newlines(data', used') /\ offset' <= used'
    BY DEF Ed!CountInv
  <2>2. used' = 0 /\ nlines' = 0 /\ offset' = 0
    BY <1>5, <2>1 DEF Ed!Load
  <2>3. Ed!Newlines(data', 0) = 0
    BY NewlinesStep
  <2>. QED  BY <2>2, <2>3
<1>. QED  BY <1>6, <1>7, <1>8 DEF Ed!Inv

\* What the text is, as a sequence.
LEMMA TextType ==
    ASSUME NEW d \in Seq(Ed!Memory), NEW n \in 0 .. Len(d)
    PROVE  /\ SubSeq(d, 1, n) \in Seq(Ed!Memory) /\ Len(SubSeq(d, 1, n)) = n
           /\ \A i \in 1 .. n : SubSeq(d, 1, n)[i] = d[i]
OBVIOUS

LEMMA AppendLinesKeeps ==
    ASSUME Ed!EditorAssumption, Ed!Inv, NEW s \in Ed!Selections, Ed!AppendLines(s[1], s[2])
    PROVE  Ed!Inv'
<1>1. PICK start, end : start = s[1] /\ end = s[2]
  OBVIOUS
<1>2. /\ start = Ed!None \/ start \in Nat
      /\ end = Ed!None \/ end \in Nat
      /\ end # Ed!None => start \in Nat
  BY <1>1 DEF Ed!Selections, Ed!EditorAssumption, Ed!None
<1>3. Ed!TypeOK /\ Ed!CountInv /\ editorAt = "prompt" /\ Ed!AppendLines(start, end)
  BY <1>1 DEF Ed!Inv, Ed!AppendLines
<1>4. CASE start # Ed!None /\ ~ Ed!IsFound(start + 1)
  BY <1>3, <1>4
     DEF Ed!AppendLines, Ed!Inv, Ed!TypeOK, Ed!OffsetInv, Ed!InsertInv, Ed!CountInv,
         Ed!bufferVars, Ed!historyVars
<1>5. CASE ~ (start # Ed!None /\ ~ Ed!IsFound(start + 1))
  <2>1. /\ offset' = IF start = Ed!None THEN used ELSE Ed!LineOffset(start + 1)
        /\ IF end = Ed!None THEN editorAt' = "append" /\ UNCHANGED <<Ed!bufferVars, exact>>
           ELSE Ed!DeleteRange(start, end, "append")
        /\ before' = SubSeq(data', 1, used') /\ inserted' = <<>> /\ origin' = offset'
        /\ UNCHANGED <<file, named>>
    BY <1>3, <1>5 DEF Ed!AppendLines
  <2>2. offset' \in 0 .. used
    <3>1. CASE start = Ed!None
      BY <1>3, <2>1, <3>1 DEF Ed!TypeOK
    <3>2. CASE start # Ed!None
      <4>1. start + 1 \in Nat /\ Ed!IsFound(start + 1) /\ used \in Nat
        BY <1>2, <1>3, <1>5, <3>2 DEF Ed!TypeOK
      <4>. QED  BY <2>1, <3>2, <4>1, FoundIs
    <3>. QED  BY <3>1, <3>2
  <2>3. /\ editorAt' \in {"append", "aborted", "undefined"}
        /\ data' \in Seq(Ed!Memory) /\ Len(data') = Len(data) /\ used' \in 0 .. Len(data)
        /\ nlines' \in 0 .. Width - 1 /\ exact' \in BOOLEAN
        /\ editorAt' = "append" /\ exact' => nlines' = Ed!Newlines(data', used') /\ offset' <= used'
    <3>1. CASE end = Ed!None
      <4>1. editorAt' = "append" /\ data' = data /\ used' = used /\ nlines' = nlines /\ exact' = exact
        BY <2>1, <3>1 DEF Ed!bufferVars
      <4>2. exact => nlines = Ed!Newlines(data, used)
        BY <1>3 DEF Ed!CountInv
      <4>. QED  BY <1>3, <2>2, <4>1, <4>2 DEF Ed!TypeOK
    <3>2. CASE end # Ed!None
      <4>1. start \in Nat /\ end \in Nat /\ Ed!DeleteRange(start, end, "append")
        BY <1>2, <2>1, <3>2
      <4>2. "append" \in {"prompt", "append"}
        OBVIOUS
      <4>. QED  BY <1>3, <4>1, <4>2, DeletesTheRange
    <3>. QED  BY <3>1, <3>2
  <2>4. PICK d, u : d = data' /\ u = used'
    OBVIOUS
  <2>5. /\ before' \in Seq(Ed!Memory) /\ Len(before') = u
        /\ \A i \in 1 .. u : before'[i] = d[i]
    <3>1. d \in Seq(Ed!Memory) /\ u \in 0 .. Len(d) /\ before' = SubSeq(d, 1, u)
      BY <2>1, <2>3, <2>4
    <3>. QED  BY <3>1, TextType
  <2>6. Len(data) \in Nat /\ Len(data) <= MaxFile + Slack /\ used \in 0 .. Len(data)
    BY <1>3 DEF Ed!TypeOK
  <2>7. Ed!TypeOK'
    <3>1. offset' \in 0 .. Len(data') /\ origin' \in Nat
      BY <2>1, <2>2, <2>3, <2>6
    <3>2. inserted' \in Seq(Ed!Memory)
      BY <2>1
    <3>3. file' \in Seq(Ed!Memory) /\ Len(file') <= MaxFile /\ named' \in BOOLEAN
      BY <1>3, <2>1 DEF Ed!TypeOK
    <3>. QED  BY <2>3, <2>5, <2>6, <3>1, <3>2, <3>3 DEF Ed!TypeOK
  <2>8. Ed!OffsetInv'
    BY <2>3 DEF Ed!OffsetInv
  <2>9. Ed!InsertInv'
    <3>1. SUFFICES ASSUME origin' <= Len(before')
                   PROVE  /\ offset' = origin' + Len(inserted')
                          /\ used' = Len(before') + Len(inserted')
                          /\ \A i \in 1 .. used' :
                                data'[i] = IF i <= origin' THEN before'[i]
                                           ELSE IF i <= offset' THEN inserted'[i - origin']
                                           ELSE before'[i - Len(inserted')]
      BY DEF Ed!InsertInv
    <3>2. Len(inserted') = 0 /\ origin' = offset' /\ u \in Nat /\ offset' \in Nat
      BY <2>1, <2>2, <2>3, <2>4, <2>6
    <3>3. ASSUME NEW i \in 1 .. u
          PROVE  d[i] = IF i <= origin' THEN before'[i]
                        ELSE IF i <= offset' THEN inserted'[i - origin'] ELSE before'[i - Len(inserted')]
      <4>1. before'[i] = d[i]
        BY <2>5
      <4>2. i - Len(inserted') = i
        BY <3>2
      <4>. QED  BY <3>2, <4>1, <4>2
    <3>4. offset' = origin' + Len(inserted') /\ u = Len(before') + Len(inserted')
      <4>1. Len(before') = u
        BY <2>5
      <4>2. \A n \in Nat : n = n + 0
        OBVIOUS
      <4>. QED  BY <3>2, <4>1, <4>2, Zenon
    <3>5. \A i \in 1 .. u :
             d[i] = IF i <= origin' THEN before'[i]
                    ELSE IF i <= offset' THEN inserted'[i - origin'] ELSE before'[i - Len(inserted')]
      BY <3>3
    <3>. QED  BY <2>4, <3>4, <3>5, Zenon
  <2>10. Ed!CountInv'
    BY <2>3 DEF Ed!CountInv
  <2>. QED  BY <2>7, <2>8, <2>9, <2>10 DEF Ed!Inv
<1>. QED  BY <1>4, <1>5

LEMMA DeleteKeeps ==
    ASSUME Ed!EditorAssumption, Ed!Inv, NEW s \in Ed!Selections, Ed!Delete(s[1], s[2])
    PROVE  Ed!Inv'
<1>1. PICK start, end : start = s[1] /\ end = s[2]
  OBVIOUS
<1>2. /\ start = Ed!None \/ start \in Nat
      /\ end = Ed!None \/ end \in Nat
  BY <1>1 DEF Ed!Selections, Ed!EditorAssumption, Ed!None
<1>3. Ed!TypeOK /\ Ed!CountInv /\ editorAt = "prompt" /\ Ed!Delete(start, end)
  BY <1>1 DEF Ed!Inv, Ed!Delete
<1>4. PICK first \in Nat, last \in Nat : Ed!DeleteRange(first, last, "prompt")
  <2>1. nlines + 1 \in Nat
    BY <1>3 DEF Ed!TypeOK
  <2>. QED  BY <1>2, <1>3, <2>1 DEF Ed!Delete
<1>5. offset' = 0 /\ UNCHANGED <<file, named, before, inserted, origin>>
  BY <1>3 DEF Ed!Delete
<1>6. /\ editorAt' \in {"prompt", "aborted", "undefined"}
      /\ data' \in Seq(Ed!Memory) /\ Len(data') = Len(data) /\ used' \in 0 .. Len(data)
      /\ nlines' \in 0 .. Width - 1 /\ exact' \in BOOLEAN
      /\ editorAt' = "prompt" /\ exact' => nlines' = Ed!Newlines(data', used') /\ offset' <= used'
  <2>1. "prompt" \in {"prompt", "append"}
    OBVIOUS
  <2>. QED  BY <1>3, <1>4, <2>1, DeletesTheRange
<1>7. Ed!TypeOK'
  BY <1>3, <1>5, <1>6 DEF Ed!TypeOK
<1>8. Ed!OffsetInv' /\ Ed!InsertInv' /\ Ed!CountInv'
  BY <1>5, <1>6 DEF Ed!OffsetInv, Ed!InsertInv, Ed!CountInv
<1>. QED  BY <1>7, <1>8 DEF Ed!Inv

\* The characters of a line, and the newline behind it.
LEMMA PieceKeeps ==
    ASSUME Ed!EditorAssumption, Ed!Inv, editorAt \in {"append", "newline"},
           NEW piece \in Seq(Ed!Memory),
           NEW next, next \in {"append", "newline"}, Ed!AppendAtOffset(piece, next),
           UNCHANGED <<file, named, exact, before, origin>>,
           nlines' = (nlines + Ed!Newlines(piece, Len(piece))) % Width
    PROVE  Ed!Inv'
<1>1. Ed!TypeOK /\ Ed!InsertInv /\ Ed!CountInv
  BY DEF Ed!Inv
<1>2. /\ editorAt' \in {next, "aborted", "undefined"}
      /\ data' \in Seq(Ed!Memory) /\ Len(data') = Len(data)
      /\ used' \in 0 .. Len(data) /\ offset' \in 0 .. Len(data) /\ inserted' \in Seq(Ed!Memory)
      /\ editorAt' = next /\ offset <= used =>
            /\ Ed!Newlines(data', used') = Ed!Newlines(data, used) + Ed!Newlines(piece, Len(piece))
            /\ offset' <= used'
  BY <1>1, PieceIsCounted
<1>3. PICK c \in Nat : c = Ed!Newlines(piece, Len(piece))
  <2>1. Len(piece) \in Nat
    OBVIOUS
  <2>. QED  BY <2>1, NewlinesStep
<1>4. Width \in Nat \ {0} /\ MaxFile + Slack < Width /\ MaxFile + Slack \in Nat
  BY DEF Ed!EditorAssumption
<1>5. nlines' \in 0 .. Width - 1
  <2>1. nlines + c \in Int
    BY <1>1 DEF Ed!TypeOK
  <2>. QED  BY <1>3, <1>4, <2>1
<1>6. Ed!TypeOK'
  <2>1. editorAt' \in {"append", "newline", "aborted", "undefined"}
    BY <1>2
  <2>. QED  BY <1>1, <1>2, <1>5, <2>1 DEF Ed!TypeOK
<1>7. Ed!OffsetInv'
  BY <1>2 DEF Ed!OffsetInv
<1>8. Ed!InsertInv'
  <2>1. CASE editorAt' = next
    BY <1>1, <2>1, PieceIsInserted
  <2>2. CASE editorAt' # next
    BY <1>2, <2>2 DEF Ed!InsertInv
  <2>. QED  BY <2>1, <2>2
<1>9. Ed!CountInv'
  <2>1. SUFFICES ASSUME exact', editorAt' \in {"start", "prompt", "append", "newline"}
                 PROVE  nlines' = Ed!Newlines(data', used') /\ offset' <= used'
    BY DEF Ed!CountInv
  <2>2. exact /\ editorAt' = next
    BY <1>2, <2>1
  <2>3. nlines = Ed!Newlines(data, used) /\ offset <= used
    BY <1>1, <2>2 DEF Ed!CountInv
  <2>4. Ed!Newlines(data', used') = nlines + c /\ offset' <= used'
    BY <1>2, <1>3, <2>2, <2>3
  <2>5. PICK d, u : d = data' /\ u = used'
    OBVIOUS
  <2>6. Ed!Newlines(d, u) \in Nat /\ Ed!Newlines(d, u) <= u /\ u \in Nat /\ u <= MaxFile + Slack
    <3>1. u \in Nat /\ u <= MaxFile + Slack
      BY <1>1, <1>2, <1>4, <2>5 DEF Ed!TypeOK
    <3>. QED  BY <3>1, NewlinesStep
  <2>7. PICK y \in Nat : y = Ed!Newlines(d, u)
    BY <2>6
  <2>8. y \in 0 .. Width - 1 /\ y = nlines + c
    BY <1>4, <2>4, <2>5, <2>6, <2>7
  <2>9. y % Width = y
    BY <1>4, <2>8
  <2>. QED  BY <1>3, <2>4, <2>5, <2>7, <2>8, <2>9
<1>. QED  BY <1>6, <1>7, <1>8, <1>9 DEF Ed!Inv


\* The invariant holds in every state.
LEMMA EditorInitKeeps ==
    ASSUME Ed!EditorAssumption, Ed!Init
    PROVE  Ed!Inv
<1>1. Width \in Nat \ {0} /\ MaxFile + Slack \in Nat
  BY DEF Ed!EditorAssumption
<1>2. Ed!TypeOK
  <2>1. <<>> \in Seq(Ed!Memory) /\ Len(<<>>) = 0 /\ 0 <= MaxFile /\ 0 <= MaxFile + Slack
    BY DEF Ed!EditorAssumption
  <2>2. 0 \in 0 .. Width - 1 /\ 0 \in 0 .. 0 /\ 0 \in Nat
    BY <1>1
  <2>. QED  BY <2>1, <2>2 DEF Ed!Init, Ed!TypeOK
<1>3. Ed!Newlines(data, 0) = 0
  BY NewlinesStep
<1>4. Ed!OffsetInv /\ Ed!InsertInv /\ Ed!CountInv
  BY <1>3 DEF Ed!Init, Ed!OffsetInv, Ed!InsertInv, Ed!CountInv
<1>. QED  BY <1>2, <1>4 DEF Ed!Inv

LEMMA EditorNextKeeps ==
    ASSUME Ed!EditorAssumption, Ed!Inv, [Ed!Next]_Ed!vars
    PROVE  Ed!Inv'
<1>. USE DEF Ed!Inv
<1>1. CASE Ed!StartWithFile
  BY <1>1, LoadKeeps DEF Ed!StartWithFile, Ed!TypeOK
<1>2. CASE Ed!StartWithoutFile
  <2>1. <<>> \in Seq(Ed!Memory) /\ Len(<<>>) <= MaxFile
    BY DEF Ed!EditorAssumption
  <2>. QED  BY <1>2, <2>1, LoadKeeps DEF Ed!StartWithoutFile
<1>3. CASE Ed!Abort
  BY <1>3
     DEF Ed!Abort, Ed!TypeOK, Ed!OffsetInv, Ed!InsertInv, Ed!CountInv, Ed!bufferVars,
         Ed!historyVars
<1>4. CASE Ed!Quit
  <2>1. Ed!Newlines(<<>>, 0) = 0
    BY NewlinesStep
  <2>2. /\ data' = <<>> /\ used' = 0 /\ nlines' = 0 /\ editorAt' = "start" /\ named' = FALSE
        /\ exact' = TRUE
        /\ offset' = 0 /\ UNCHANGED <<file, before, inserted, origin>>
    BY <1>4 DEF Ed!Quit, Ed!OffsetInv
  <2>3. Width \in Nat \ {0} /\ MaxFile + Slack \in Nat
    BY DEF Ed!EditorAssumption
  <2>4. Ed!TypeOK'
    <3>1. <<>> \in Seq(Ed!Memory) /\ Len(<<>>) = 0 /\ 0 <= MaxFile + Slack
      BY <2>3
    <3>2. 0 \in 0 .. Width - 1 /\ 0 \in 0 .. 0
      BY <2>3
    <3>. QED  BY <2>2, <3>1, <3>2 DEF Ed!TypeOK
  <2>5. Ed!OffsetInv' /\ Ed!InsertInv' /\ Ed!CountInv'
    BY <2>1, <2>2 DEF Ed!OffsetInv, Ed!InsertInv, Ed!CountInv
  <2>. QED  BY <2>4, <2>5
<1>5. ASSUME NEW name \in BOOLEAN, Ed!Write(name) PROVE Ed!Inv'
  <2>1. Ed!Text \in Seq(Ed!Memory) /\ Len(Ed!Text) = used
    BY TextType DEF Ed!TypeOK, Ed!Text
  <2>2. file' \in Seq(Ed!Memory) /\ Len(file') <= MaxFile /\ named' \in BOOLEAN
    BY <1>5, <2>1 DEF Ed!Write, Ed!TypeOK
  <2>3. UNCHANGED <<editorAt, data, used, nlines, offset, exact, before, inserted, origin>>
    BY <1>5 DEF Ed!Write, Ed!bufferVars, Ed!historyVars
  <2>. QED  BY <2>2, <2>3 DEF Ed!TypeOK, Ed!OffsetInv, Ed!InsertInv, Ed!CountInv
<1>6. ASSUME NEW s \in Ed!Selections, Ed!AppendLines(s[1], s[2]) PROVE Ed!Inv'
  BY <1>6, AppendLinesKeeps
<1>7. ASSUME NEW s \in Ed!Selections, Ed!Show(s[1], s[2]) PROVE Ed!Inv'
  BY <1>7
     DEF Ed!Show, Ed!TypeOK, Ed!OffsetInv, Ed!InsertInv, Ed!CountInv, Ed!bufferVars,
         Ed!historyVars
<1>8. ASSUME NEW s \in Ed!Selections, Ed!Delete(s[1], s[2]) PROVE Ed!Inv'
  BY <1>8, DeleteKeeps
<1>9. ASSUME NEW line \in Ed!Texts, Ed!PutLine(line) PROVE Ed!Inv'
  <2>1. CASE line = <<>>
    BY <1>9, <2>1 DEF Ed!PutLine, Ed!TypeOK, Ed!OffsetInv, Ed!InsertInv, Ed!CountInv
  <2>2. CASE line # <<>>
    <3>1. PICK n \in Nat : line \in [1 .. n -> Character]
      BY DEF Ed!Texts, Ed!EditorAssumption
    <3>2. line \in Seq(Ed!Memory) /\ Len(line) = n /\ \A i \in 1 .. n : line[i] # Newline
      BY <3>1 DEF Ed!Memory, Ed!EditorAssumption
    <3>3. Ed!Newlines(line, Len(line)) = 0
      <4>1. ASSUME NEW i \in 0 + 1 .. 0 + n PROVE line[i] # Newline
        BY <3>2
      <4>2. Ed!Newlines(line, 0 + n) = Ed!Newlines(line, 0)
        BY <4>1, NewlinesNone
      <4>3. 0 + n = n /\ Ed!Newlines(line, 0) = 0
        BY NewlinesStep
      <4>. QED  BY <3>2, <4>2, <4>3
    <3>4. Ed!AppendAtOffset(line, "newline") /\ UNCHANGED <<nlines, file, named, exact, before, origin>>
          /\ editorAt = "append"
      BY <1>9, <2>2 DEF Ed!PutLine
    <3>5. nlines' = (nlines + Ed!Newlines(line, Len(line))) % Width
      <4>1. nlines \in 0 .. Width - 1 /\ Width \in Nat
        BY DEF Ed!TypeOK, Ed!EditorAssumption
      <4>2. (nlines + 0) % Width = nlines
        BY <4>1
      <4>. QED  BY <3>3, <3>4, <4>2
    <3>6. "newline" \in {"append", "newline"} /\ editorAt \in {"append", "newline"}
      BY <3>4
    <3>. QED  BY <3>2, <3>4, <3>5, <3>6, PieceKeeps
  <2>. QED  BY <2>1, <2>2
<1>10. CASE Ed!PutNewline
  <2>1. <<Newline>> \in Seq(Ed!Memory) /\ Len(<<Newline>>) = 1
    BY DEF Ed!Memory
  <2>2. Ed!Newlines(<<Newline>>, 1) = 1
    <3>1. Ed!Newlines(<<Newline>>, 0 + 1) = Ed!Newlines(<<Newline>>, 0) + 1 /\ Ed!Newlines(<<Newline>>, 0) = 0
      BY NewlinesStep
    <3>. QED  BY <3>1
  <2>3. Ed!AppendAtOffset(<<Newline>>, "append") /\ UNCHANGED <<file, named, exact, before, origin>>
        /\ editorAt = "newline" /\ nlines' = (nlines + 1) % Width
    BY <1>10 DEF Ed!PutNewline
  <2>4. "append" \in {"append", "newline"} /\ editorAt \in {"append", "newline"}
    BY <2>3
  <2>5. nlines' = (nlines + Ed!Newlines(<<Newline>>, Len(<<Newline>>))) % Width
    BY <2>1, <2>2, <2>3
  <2>. QED  BY <2>1, <2>3, <2>4, <2>5, PieceKeeps
<1>11. CASE Ed!EndAppend
  <2>1. editorAt = "append" /\ editorAt' = "prompt" /\ before' = <<>> /\ inserted' = <<>> /\ origin' = 0 /\ offset' = 0
        /\ UNCHANGED <<data, used, nlines, file, named, exact>>
    BY <1>11 DEF Ed!EndAppend, Ed!bufferVars
  <2>. QED  BY <2>1 DEF Ed!TypeOK, Ed!OffsetInv, Ed!InsertInv, Ed!CountInv
<1>12. CASE UNCHANGED Ed!vars
  BY <1>12
     DEF Ed!vars, Ed!bufferVars, Ed!historyVars, Ed!TypeOK, Ed!OffsetInv, Ed!InsertInv,
         Ed!CountInv
<1>. QED  BY <1>1, <1>2, <1>3, <1>4, <1>5, <1>6, <1>7, <1>8, <1>9, <1>10, <1>11, <1>12 DEF Ed!Next

\* "l" without a selection asks for the lines that there are.
LEMMA LinesAreListed ==
    ASSUME Ed!EditorAssumption, Ed!Inv
    PROVE  Ed!CountsItsLines
<1>1. SUFFICES ASSUME editorAt = "prompt", exact
               PROVE  nlines = Ed!Newlines(data, used) /\ Ed!CanList(Ed!None, Ed!None)
  BY DEF Ed!CountsItsLines
<1>2. nlines = Ed!Newlines(data, used) /\ used \in Nat /\ nlines \in Nat
  BY <1>1 DEF Ed!Inv, Ed!CountInv, Ed!TypeOK
<1>3. (nlines + 1) % Width <= nlines + 1 /\ (nlines + 1) % Width \in Nat
  <2>1. nlines \in 0 .. Width - 1 /\ Width \in Nat \ {0}
    BY DEF Ed!EditorAssumption, Ed!Inv, Ed!TypeOK
  <2>2. CASE nlines + 1 = Width
    BY <2>1, <2>2
  <2>3. CASE nlines + 1 < Width
    BY <2>1, <2>3
  <2>. QED  BY <2>1, <2>2, <2>3
<1>4. ASSUME NEW lineno \in 1 .. ((nlines + 1) % Width) - 1
      PROVE  Ed!IsFound(lineno) /\ Ed!IsFound(lineno + 1)
  <2>1. lineno \in Nat \ {0} /\ lineno + 1 \in Nat \ {0} /\ lineno <= nlines
    BY <1>2, <1>3
  <2>2. lineno - 1 <= Ed!Newlines(data, used) /\ lineno + 1 - 1 <= Ed!Newlines(data, used)
    BY <1>2, <2>1
  <2>3. Ed!LineOffset(lineno) \in 0 .. used /\ Ed!LineOffset(lineno + 1) \in 0 .. used
    BY <1>2, <2>1, <2>2, LineOffsetIs
  <2>4. \A x \in 0 .. used : x # Ed!None
    BY <1>2 DEF Ed!None
  <2>. QED  BY <2>1, <2>3, <2>4 DEF Ed!IsFound
<1>5. Ed!CanList(Ed!None, Ed!None)
  BY <1>4 DEF Ed!CanList
<1>. QED  BY <1>2, <1>5

\* The buffer keeps its size, and what is written to it stays in it.
THEOREM EditorInvariance ==
    ASSUME Ed!EditorAssumption
    PROVE  Ed!Spec => []Ed!Inv
<1>1. Ed!Init => Ed!Inv
  BY EditorInitKeeps
<1>2. Ed!Inv /\ [Ed!Next]_Ed!vars => Ed!Inv'
  BY EditorNextKeeps
<1>. QED  BY <1>1, <1>2, PTL DEF Ed!Spec

\* While lines are appended the text is the one before with the new lines in it, in the order in
\* which they are typed (Editor.c:19-27, 201-219).
THEOREM TypedLinesAreInserted ==
    ASSUME Ed!EditorAssumption
    PROVE  Ed!Spec => []InsertsTheLines
<1>1. Ed!Inv => InsertsTheLines
  BY TextIs DEF Ed!Inv, InsertsTheLines
<1>. QED  BY <1>1, EditorInvariance, PTL

\* The lines are counted as they come and go, so that "l" finds each one that it lists
\* (Editor.c:243-260), for any characters, any lengths and any size of the buffer.
THEOREM LinesAreCounted ==
    ASSUME Ed!EditorAssumption
    PROVE  Ed!Spec => []CountsItsLines
<1>1. Ed!Inv => CountsItsLines
  BY LinesAreListed DEF CountsItsLines
<1>. QED  BY <1>1, EditorInvariance, PTL

-----------------------------------------------------------------------------
(* The run. *)

\* The parts of MCUserland share nothing: what it does is a behaviour of each of them, so that the
\* theorems hold of what the run checks.
THEOREM RunIsEach ==
    UserlandSpec => /\ Spec /\ Sh!Spec /\ Ed!Spec /\ Mf!Spec
                    /\ running = "memmove" => Move!Spec
                    /\ running = "directories" => Fs!Spec
<1>1. UserlandInit => /\ Init /\ Sh!Init /\ Ed!Init /\ Mf!Init
                      /\ running = "memmove" => Move!Init
                      /\ running = "directories" => Fs!Init
  BY DEF UserlandInit
<1>2. [UserlandNext]_<<running, processVars, programVars>>
         => /\ [Next]_vars /\ [Sh!Next]_Sh!vars /\ [Move!Next]_Move!vars
            /\ [Ed!Next]_Ed!vars /\ [Mf!Next]_Mf!vars /\ [Fs!Next]_Fs!vars
  <2>1. /\ UNCHANGED processVars => UNCHANGED vars
        /\ UNCHANGED shellVars => UNCHANGED Sh!vars
        /\ UNCHANGED memmoveVars => UNCHANGED Move!vars
        /\ UNCHANGED editorVars => UNCHANGED Ed!vars
        /\ UNCHANGED contentVars => UNCHANGED Mf!vars
        /\ UNCHANGED treeVars => UNCHANGED Fs!vars
    BY DEF processVars, shellVars, memmoveVars, editorVars, contentVars, treeVars, Sh!vars, Sh!lineVars,
           Sh!wordVars, Move!vars, Ed!vars, Ed!bufferVars, Ed!historyVars,
           Mf!vars, Mf!heapVars, Mf!fileVars, Fs!vars, Fs!treeVars
  <2>. QED  BY <2>1 DEF UserlandNext, Waits, Shells, Moves, Edits, ReadsAndWrites, LooksUp, programVars
<1>. QED  BY <1>1, <1>2, PTL DEF UserlandSpec, Spec, Sh!Spec, Move!Spec, Ed!Spec, Mf!Spec, Fs!Spec

\* However source and destination overlap and are aligned, every byte arrives as it was before the
\* call, and no other byte changes (abi.c:97-117).
THEOREM EveryByteMoves ==
    ASSUME Move!MemmoveAssumption
    PROVE  UserlandSpec => []MovesExactly
<1>1. ASSUME Move!Inv, Move!Returned PROVE Move!MovesExactly
  <2>1. moveIndex = count /\ count \in Nat /\ destination \in Nat
    BY <1>1 DEF Move!Inv, Move!TypeOK, Move!Returned, Move!More, Move!Address
  <2>2. ASSUME NEW a \in Move!Address, a \in destination .. destination + count - 1
        PROVE  Move!Done(a - destination)
    BY <2>1, <2>2 DEF Move!Done, Move!Address
  <2>. QED  BY <1>1, <2>2 DEF Move!Inv, Move!LoopInv, Move!MovesExactly
<1>2. Move!Inv => MovesExactly
  BY <1>1 DEF Move!MovesExactly, MovesExactly
<1>3. ~ (running = "memmove") => MovesExactly
  BY DEF MovesExactly
<1>4. ~ (running = "memmove") /\ [UserlandNext]_<<running, processVars, programVars>>
         => ~ (running = "memmove")'
  BY DEF UserlandNext
<1>. QED  BY <1>2, <1>3, <1>4, MemmoveInvariance, RunIsEach, PTL DEF UserlandSpec

\* The working directory of every process stays a directory, whatever is created, and a path that
\* begins there gets as far (Thread.cpp:342-361, FileSystem.cpp:24-46).
THEOREM DirectoryStays ==
    ASSUME Fs!FileSystemAssumption
    PROVE  UserlandSpec => []WorkingDirectoryIsThere
<1>1. Fs!Inv => WorkingDirectoryIsThere
  BY DirectoryIsThere DEF WorkingDirectoryIsThere
<1>2. ~ (running = "directories") => WorkingDirectoryIsThere
  BY DEF WorkingDirectoryIsThere
<1>3. ~ (running = "directories") /\ [UserlandNext]_<<running, processVars, programVars>>
         => ~ (running = "directories")'
  BY DEF UserlandNext
<1>. QED  BY <1>1, <1>2, <1>3, DirectoryInvariance, RunIsEach, PTL DEF UserlandSpec
=============================================================================
