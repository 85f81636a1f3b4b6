----------------------------- MODULE SyncProofs -----------------------------
(***************************************************************************)
(* Proofs about the journal and the bags, for any nodes, packets, imports  *)
(* and bounds.                                                             *)
(***************************************************************************)
EXTENDS Sync, SequenceTheorems, FiniteSetTheorems, WellFoundedInduction, TLAPS

-----------------------------------------------------------------------------
(* Tables, rows and journals.                                              *)

(* What a packet writes leaves tables.                                     *)
LEMMA WrittenType ==
  ASSUME NEW t \in Table, NEW p \in Packet
  PROVE  Written(t, p) \in Table
  <1>1. Users[p] \in SUBSET User /\ Sender[p] \in User
    BY TablesAssumption
  <1>2. MembersAfter(t, p) \in [Packet -> SUBSET User]
    BY <1>1 DEF MembersAfter, Table
  <1>3. RevokedAfter(t, p) \in SUBSET User
    BY <1>1 DEF RevokedAfter, Table
  <1>4. Dropped(p) \subseteq Packet /\ Inserted(p) \subseteq Packet
    BY DEF Dropped, Inserted
  <1> QED
    BY <1>2, <1>3, <1>4 DEF Written, Table

LEMMA EmptyTableType == EmptyTable \in Table
  BY DEF EmptyTable, Table

(* The chain value of a row is a list of packets, of a journal too.        *)
LEMMA HashType ==
  ASSUME NEW r \in Row
  PROVE  /\ ChainHash(r) \in Seq(Packet)
         /\ Len(ChainHash(r)) = Len(r.prev) + 1
         /\ \A x \in 1..Len(r.prev) : ChainHash(r)[x] = r.prev[x]
         /\ ChainHash(r)[Len(r.prev) + 1] = r.p
  BY AppendProperties DEF ChainHash, Row

LEMMA HeadType ==
  ASSUME NEW j \in Seq(Row)
  PROVE  ChainHead(j) \in Seq(Packet)
  <1>1. CASE j = <<>>
    BY <1>1 DEF ChainHead
  <1>2. CASE j # <<>>
    <2>1. j[Len(j)] \in Row
      BY <1>2, EmptySeq, LenProperties, ElementOfSeq
    <2> QED
      BY <1>2, <2>1, HashType DEF ChainHead
  <1> QED
    BY <1>1, <1>2

(* A packet is appended under the head, or the journal stays.              *)
LEMMA AddPacketShape ==
  ASSUME NEW j \in Seq(Row), NEW p \in Packet
  PROVE  /\ AddPacket(j, p) \in Seq(Row)
         /\ PacketExists(j, p) => AddPacket(j, p) = j
         /\ ~PacketExists(j, p) =>
              /\ Len(AddPacket(j, p)) = Len(j) + 1
              /\ \A k \in 1..Len(j) : AddPacket(j, p)[k] = j[k]
              /\ AddPacket(j, p)[Len(j) + 1] = [p |-> p, prev |-> ChainHead(j)]
         /\ PacketExists(AddPacket(j, p), p)
         /\ \A k \in DOMAIN j : k \in DOMAIN AddPacket(j, p) /\ AddPacket(j, p)[k] = j[k]
  <1> DEFINE r == [p |-> p, prev |-> ChainHead(j)]
  <1>1. r \in Row
    BY HeadType DEF Row
  <1>2. CASE PacketExists(j, p)
    <2>1. AddPacket(j, p) = j
      BY <1>2 DEF AddPacket
    <2> QED
      BY <1>2, <2>1
  <1>3. CASE ~PacketExists(j, p)
    <2>1. AddPacket(j, p) = Append(j, r)
      BY <1>3 DEF AddPacket
    <2>2. /\ Append(j, r) \in Seq(Row)
          /\ Len(Append(j, r)) = Len(j) + 1
          /\ \A k \in 1..Len(j) : Append(j, r)[k] = j[k]
          /\ Append(j, r)[Len(j) + 1] = r
      BY <1>1, AppendProperties
    <2>3. Len(j) \in Nat /\ DOMAIN j = 1..Len(j) /\ DOMAIN Append(j, r) = 1..Len(j) + 1
      BY <2>2, LenProperties
    <2>4. Len(j) + 1 \in DOMAIN Append(j, r) /\ Append(j, r)[Len(j) + 1].p = p
      BY <2>2, <2>3
    <2>5. PacketExists(Append(j, r), p)
      BY <2>4 DEF PacketExists
    <2> HIDE DEF r
    <2>6. \A k \in DOMAIN j : k \in DOMAIN AddPacket(j, p) /\ AddPacket(j, p)[k] = j[k]
      BY <2>1, <2>2, <2>3
    <2> QED
      BY <1>3, <2>1, <2>2, <2>5, <2>6 DEF r
  <1> QED
    BY <1>2, <1>3

(* A function on 1..n is a sequence.                                       *)
LEMMA FunIsSeq ==
  ASSUME NEW S, NEW n \in Nat, NEW f \in [1..n -> S]
  PROVE  f \in Seq(S) /\ Len(f) = n /\ DOMAIN f = 1..n
  BY SeqDef, LenProperties

(* The rows of a selection are rows of the journal.                        *)
LEMMA SelectionShape ==
  ASSUME NEW j \in Seq(Row), NEW after \in Nat, NEW b \in ListJournal(j, after)
  PROVE  /\ b \in Seq(Row)
         /\ \A k \in DOMAIN b : \E m \in DOMAIN j : b[k] = j[m]
  <1> DEFINE K == Selected(j, after)
  <1>1. DOMAIN j = 1..Len(j) /\ Len(j) \in Nat
    BY LenProperties
  <1>2. K \subseteq 1..Len(j)
    BY <1>1 DEF Selected
  <1>3. IsFiniteSet(1..Len(j))
    BY <1>1, FS_Interval
  <1>4. Cardinality(K) \in Nat
    BY <1>2, <1>3, FS_Subset, FS_CardinalityType
  <1>5. PICK e \in Enumerations(K) : b = [k \in DOMAIN e |-> j[e[k]]]
    BY DEF ListJournal
  <1>6. e \in [1..Cardinality(K) -> K]
    BY <1>5 DEF Enumerations
  <1> HIDE DEF K
  <1>7. DOMAIN b = 1..Cardinality(K) /\ \A k \in DOMAIN b : e[k] \in DOMAIN j /\ b[k] = j[e[k]]
    BY <1>1, <1>2, <1>5, <1>6
  <1>8. b \in [1..Cardinality(K) -> Row]
    BY <1>1, <1>5, <1>6, <1>7, ElementOfSeq
  <1>9. b \in Seq(Row)
    BY <1>4, <1>8, FunIsSeq
  <1> QED
    BY <1>7, <1>9

-----------------------------------------------------------------------------
(* Type correctness needs that an import replays genuine packets only.     *)
Genuine ==
  \A i \in Task : imp[i].at \in Replaying =>
    \A m \in DOMAIN imp[i].bag : m >= imp[i].k => imp[i].bag[m].p \in Packet

TypeInv == TypeOK /\ Genuine

(* The state of one import, typed and genuine.                             *)
Sound(t) ==
  /\ t \in Import
  /\ t.at \notin {"idle", "failed"} => t.node \in Node
  /\ t.at \in {"check"} \cup Replaying => t.k \in DOMAIN t.bag
  /\ t.at \in Replaying => \A m \in DOMAIN t.bag : m >= t.k => t.bag[m].p \in Packet

LEMMA SoundImports ==
  ASSUME imp \in [Task -> Import]
  PROVE  TypeInv <=>
           /\ db \in [Node -> Data] /\ vault \in [Node -> Data]
           /\ post \in [Packet -> Stages]
           /\ \A i \in Task : Sound(imp[i])
           /\ \A b \in bags : b \in Seq(Row)
           /\ skipped \in [Node -> SUBSET Packet]
           /\ faults \in 0..MaxFaults
  BY DEF TypeInv, TypeOK, Genuine, Sound

LEMMA SoundOver ==
  ASSUME NEW how \in {"idle", "failed"}
  PROVE  Sound(Over(how))
  BY EmptySeq DEF Sound, Over, NoBag, Import, ImportStages, Replaying

(* On to the next row, or the end.                                         *)
LEMMA SoundOnward ==
  ASSUME NEW i \in Task, TypeInv, imp[i].at \in Replaying, Onward(i)
  PROVE  /\ imp' = [imp EXCEPT ![i] = imp'[i]]
         /\ Sound(imp'[i])
         /\ imp'[i].bag = imp[i].bag /\ imp'[i].node = imp[i].node
         /\ imp'[i].k = imp[i].k + 1
         /\ IF imp[i].k = Len(imp[i].bag) THEN imp'[i].at = "done"
            ELSE imp'[i].at = "row" /\ imp'[i].k \in DOMAIN imp'[i].bag
  <1>1. imp \in [Task -> Import] /\ imp[i] \in Import /\ Sound(imp[i])
    BY SoundImports DEF TypeInv, TypeOK
  <1>2. imp'[i] = [imp[i] EXCEPT !.k = imp[i].k + 1,
                     !.at = IF imp[i].k = Len(imp[i].bag) THEN "done" ELSE "row"]
    BY <1>1 DEF Onward
  <1>3. /\ imp'[i].bag = imp[i].bag /\ imp'[i].node = imp[i].node
        /\ imp'[i].k = imp[i].k + 1
        /\ imp'[i].at = IF imp[i].k = Len(imp[i].bag) THEN "done" ELSE "row"
    BY <1>1, <1>2 DEF Import
  <1>4. /\ DOMAIN imp[i].bag = 1..Len(imp[i].bag) /\ Len(imp[i].bag) \in Nat
        /\ imp[i].k \in 1..Len(imp[i].bag)
    BY <1>1, LenProperties DEF Import, Sound, Replaying
  <1>5. imp' = [imp EXCEPT ![i] = imp'[i]]
    BY <1>1 DEF Onward
  <1>6. imp'[i] \in Import
    <2>1. imp[i].k + 1 \in Nat
      BY <1>4
    <2>2. imp'[i] = [at |-> IF imp[i].k = Len(imp[i].bag) THEN "done" ELSE "row",
                     node |-> imp[i].node, bag |-> imp[i].bag, k |-> imp[i].k + 1]
      BY <1>1, <1>2 DEF Import
    <2> QED
      BY <1>1, <2>1, <2>2 DEF Import, ImportStages, Replaying
  <1>7. Sound(imp'[i])
    BY <1>1, <1>3, <1>4, <1>6 DEF Sound, Replaying
  <1> QED
    BY <1>3, <1>4, <1>5, <1>7

(* The packet at hand.                                                     *)
LEMMA TheType ==
  ASSUME NEW i \in Task, TypeInv, imp[i].at \in Replaying
  PROVE  /\ The(i) \in Packet /\ imp[i].node \in Node
         /\ db[imp[i].node].journal \in Seq(Row) /\ db[imp[i].node].table \in Table
         /\ imp[i].k \in DOMAIN imp[i].bag
         /\ DOMAIN imp[i].bag = 1..Len(imp[i].bag) /\ Len(imp[i].bag) \in Nat
  <1>1. imp[i] \in Import /\ Sound(imp[i])
    BY SoundImports DEF TypeInv, TypeOK
  <1>2. imp[i].k \in DOMAIN imp[i].bag /\ imp[i].node \in Node
    BY <1>1 DEF Sound, Replaying
  <1>3. DOMAIN imp[i].bag = 1..Len(imp[i].bag) /\ Len(imp[i].bag) \in Nat
    BY <1>1, LenProperties DEF Import
  <1>4. The(i) \in Packet
    BY <1>1, <1>2, <1>3 DEF The, Sound
  <1>5. db[imp[i].node] \in Data
    BY <1>2 DEF TypeInv, TypeOK
  <1> QED
    BY <1>2, <1>3, <1>4, <1>5 DEF Data

LEMMA TypeNext ==
  ASSUME db' \in [Node -> Data], vault' \in [Node -> Data],
         post' \in [Packet -> Stages], imp' \in [Task -> Import],
         \A i \in Task : Sound(imp'[i]),
         \A b \in bags' : b \in Seq(Row),
         skipped' \in [Node -> SUBSET Packet], faults' \in 0..MaxFaults
  PROVE  TypeInv'
  BY DEF TypeInv, TypeOK, Genuine, Sound

LEMMA FaultType ==
  ASSUME faults \in 0..MaxFaults, Fault
  PROVE  faults' \in 0..MaxFaults
  BY SyncAssumption DEF Fault

LEMMA InitType == Init => TypeInv
  <1> SUFFICES ASSUME Init PROVE TypeInv
    OBVIOUS
  <1>1. db \in [Node -> Data] /\ vault \in [Node -> Data]
    BY EmptyTableType, EmptySeq DEF Init, Data
  <1>2. Sound(Idle)
    BY SoundOver DEF Idle
  <1>3. imp \in [Task -> Import] /\ \A i \in Task : Sound(imp[i])
    BY <1>2 DEF Init, Sound
  <1> QED
    BY <1>1, <1>3, SoundImports, SyncAssumption DEF Init, Stages

(* A step of one import that stays at its bag, in the same tables.         *)
LEMMA ImportType ==
  ASSUME NEW i \in Task, TypeInv,
         imp' = [imp EXCEPT ![i] = imp'[i]], Sound(imp'[i]),
         db' \in [Node -> Data], skipped' \in [Node -> SUBSET Packet],
         faults' \in 0..MaxFaults, UNCHANGED <<vault, post, bags>>
  PROVE  TypeInv'
  <1>1. imp \in [Task -> Import] /\ \A h \in Task : Sound(imp[h])
    BY SoundImports DEF TypeInv, TypeOK
  <1>2. imp' \in [Task -> Import] /\ \A h \in Task : Sound(imp'[h])
    <2>1. \A h \in Task : imp'[h] = IF h = i THEN imp'[i] ELSE imp[h]
      BY <1>1
    <2>2. imp'[i] \in Import
      BY DEF Sound
    <2> QED
      BY <1>1, <2>1, <2>2
  <1> QED
    BY <1>2, TypeNext DEF TypeInv, TypeOK

(* Posts.                                                                  *)
LEMMA PostType ==
  ASSUME TypeInv, NEW p \in Packet,
         Submit(p) \/ WriteRow(p) \/ Journal(p) \/ RereadFails(p) \/ JournalFails(p)
  PROVE  TypeInv'
  <1>1. /\ db \in [Node -> Data] /\ Home[p] \in Node /\ db[Home[p]] \in Data
        /\ post \in [Packet -> Stages] /\ faults \in 0..MaxFaults
        /\ imp \in [Task -> Import] /\ \A i \in Task : Sound(imp[i])
    BY SyncAssumption, SoundImports DEF TypeInv, TypeOK
  <1>2. UNCHANGED <<vault, imp, bags, skipped>>
    BY DEF Submit, WriteRow, Journal, RereadFails, JournalFails
  <1>3. post' \in [Packet -> Stages]
    BY <1>1 DEF Submit, WriteRow, Journal, RereadFails, JournalFails, Stages
  <1>4. db' \in [Node -> Data]
    <2>1. Written(db[Home[p]].table, p) \in Table
      BY <1>1, WrittenType DEF Data
    <2>2. AddPacket(db[Home[p]].journal, p) \in Seq(Row)
      BY <1>1, AddPacketShape DEF Data
    <2>3. CASE Submit(p) \/ RereadFails(p) \/ JournalFails(p)
      BY <1>1, <2>3 DEF Submit, RereadFails, JournalFails
    <2>4. CASE WriteRow(p)
      <3> DEFINE w == Written(db[Home[p]].table, p)
      <3>1. db' = db \/ db' = [db EXCEPT ![Home[p]].table = w]
        BY <2>4 DEF WriteRow
      <3> HIDE DEF w
      <3>2. [db EXCEPT ![Home[p]].table = w] \in [Node -> Data]
        BY <1>1, <2>1 DEF Data, w
      <3> QED
        BY <1>1, <3>1, <3>2
    <2>5. CASE Journal(p)
      BY <1>1, <2>2, <2>5 DEF Journal, Data
    <2> QED
      BY <2>3, <2>4, <2>5
  <1>5. faults' \in 0..MaxFaults
    BY <1>1, FaultType DEF Submit, WriteRow, Journal, RereadFails, JournalFails
  <1> QED
    BY <1>1, <1>2, <1>3, <1>4, <1>5, TypeNext DEF TypeInv, TypeOK

(* Seals, crashes and exports.                                             *)
LEMMA NodeType ==
  ASSUME TypeInv, NEW n \in Node,
         \/ Seal(n) \/ Crash(n)
         \/ \E p \in Packet : Export(n, Ts[p])
  PROVE  TypeInv'
  <1>1. /\ db \in [Node -> Data] /\ vault \in [Node -> Data]
        /\ post \in [Packet -> Stages] /\ faults \in 0..MaxFaults
        /\ imp \in [Task -> Import] /\ \A i \in Task : Sound(imp[i])
    BY SoundImports DEF TypeInv, TypeOK
  <1>2. CASE Seal(n)
    BY <1>1, <1>2, TypeNext DEF Seal, Sealed, TypeInv, TypeOK
  <1>3. CASE Crash(n)
    <2>1. \A i \in Task : Sound(IF imp[i].node = n THEN Over("failed") ELSE imp[i])
      BY <1>1, SoundOver
    <2>2. imp' \in [Task -> Import] /\ \A i \in Task : Sound(imp'[i])
      BY <1>3, <2>1 DEF Crash, Sound
    <2>3. post' \in [Packet -> Stages] /\ db' \in [Node -> Data]
      BY <1>1, <1>3 DEF Crash, Stages
    <2>4. UNCHANGED <<vault, bags, skipped>> /\ faults' \in 0..MaxFaults
      BY <1>1, <1>3, FaultType DEF Crash
    <2> QED
      BY <1>1, <2>2, <2>3, <2>4, TypeNext DEF TypeInv, TypeOK
  <1>4. ASSUME NEW p \in Packet, Export(n, Ts[p]) PROVE TypeInv'
    <2>1. Ts[p] \in Nat /\ db[n].journal \in Seq(Row)
      BY <1>1, SyncAssumption DEF Data
    <2>2. PICK b \in ListJournal(db[n].journal, Ts[p]) : bags' = bags \cup {b}
      BY <1>4 DEF Export
    <2>3. b \in Seq(Row)
      BY <2>1, <2>2, SelectionShape
    <2>4. \A c \in bags' : c \in Seq(Row)
      BY <2>2, <2>3 DEF TypeInv, TypeOK
    <2> QED
      BY <1>1, <1>4, <2>4, TypeNext DEF Export, TypeInv, TypeOK
  <1> QED
    BY <1>2, <1>3, <1>4

(* A row less or a damaged row leaves rows of the bag and damaged ones.    *)
LEMMA SpoiltShape ==
  ASSUME NEW b \in Seq(Row), NEW c \in Spoilt(b)
  PROVE  /\ c \in Seq(AnyRow)
         /\ \A m \in DOMAIN c : c[m].p = Damaged \/ \E x \in DOMAIN b : c[m] = b[x]
  <1>1. DOMAIN b = 1..Len(b) /\ Len(b) \in Nat /\ \A x \in DOMAIN b : b[x] \in Row
    BY LenProperties, ElementOfSeq
  <1>2. Row \subseteq AnyRow
    BY DEF Row, AnyRow
  <1>3. CASE \E k \in DOMAIN b : c = Without(b, k)
    <2>1. PICK k \in DOMAIN b : c = Without(b, k)
      BY <1>3
    <2>2. Len(b) - 1 \in Nat
      BY <1>1
    <2>3. \A m \in 1..Len(b) - 1 : m \in DOMAIN b /\ m + 1 \in DOMAIN b
      BY <1>1
    <2>4. c = [m \in 1..Len(b) - 1 |-> IF m < k THEN b[m] ELSE b[m + 1]]
      BY <2>1 DEF Without
    <2>5. c \in [1..Len(b) - 1 -> AnyRow]
      BY <1>1, <1>2, <2>3, <2>4
    <2>6. c \in Seq(AnyRow)
      BY <2>2, <2>5, FunIsSeq
    <2>7. ASSUME NEW m \in DOMAIN c PROVE \E x \in DOMAIN b : c[m] = b[x]
      <3>1. m \in 1..Len(b) - 1
        BY <2>4
      <3>2. c[m] = b[m] \/ c[m] = b[m + 1]
        BY <2>4, <3>1
      <3> QED
        BY <2>3, <3>1, <3>2
    <2> QED
      BY <2>6, <2>7
  <1>4. CASE \E k \in DOMAIN b : c = [b EXCEPT ![k].p = Damaged]
    <2>1. PICK k \in DOMAIN b : c = [b EXCEPT ![k].p = Damaged]
      BY <1>4
    <2>2. b \in [1..Len(b) -> Row]
      BY LenProperties
    <2>3. DOMAIN c = 1..Len(b) /\ \A m \in DOMAIN c :
            c[m] = IF m = k THEN [b[k] EXCEPT !.p = Damaged] ELSE b[m]
      BY <2>1, <2>2
    <2>4. b[k] \in Row
      BY <1>1, <2>1
    <2>5. [b[k] EXCEPT !.p = Damaged] \in AnyRow /\ [b[k] EXCEPT !.p = Damaged].p = Damaged
      BY <2>4 DEF Row, AnyRow
    <2>6. c \in [1..Len(b) -> AnyRow]
      BY <1>1, <1>2, <2>1, <2>2, <2>3, <2>5
    <2>7. c \in Seq(AnyRow)
      BY <1>1, <2>6, FunIsSeq
    <2> QED
      BY <1>1, <2>3, <2>5, <2>7
  <1> QED
    BY <1>3, <1>4 DEF Spoilt

(* The beginning of an import.                                             *)
LEMMA ReadShape ==
  ASSUME TypeInv, NEW i \in Task, NEW n \in Node, NEW b \in bags,
         Begin(i, n, b) \/ BeginSpoilt(i, n, b)
  PROVE  /\ imp' = [imp EXCEPT ![i] = imp'[i]]
         /\ imp'[i].at = "strip" /\ imp'[i].node = n
         /\ imp'[i].bag \in Seq(AnyRow)
         /\ \A m \in DOMAIN imp'[i].bag :
              imp'[i].bag[m].p = Damaged \/ \E x \in DOMAIN b : imp'[i].bag[m] = b[x]
         /\ Sound(imp'[i])
         /\ UNCHANGED <<db, vault, post, bags, skipped>>
         /\ faults' \in 0..MaxFaults
  <1>1. PICK c \in {b} \cup Spoilt(b) : Read(i, n, c)
    BY DEF Begin, BeginSpoilt
  <1>2. b \in Seq(Row) /\ imp \in [Task -> Import] /\ faults \in 0..MaxFaults
    BY DEF TypeInv, TypeOK
  <1>3. /\ c \in Seq(AnyRow)
        /\ \A m \in DOMAIN c : c[m].p = Damaged \/ \E x \in DOMAIN b : c[m] = b[x]
    <2>1. Row \subseteq AnyRow
      BY DEF Row, AnyRow
    <2>2. b \in Seq(AnyRow)
      BY <1>2, <2>1, SeqMonotonic
    <2> QED
      BY <1>1, <1>2, <2>2, SpoiltShape
  <1>4. imp' = [imp EXCEPT ![i] = [at |-> "strip", node |-> n, bag |-> c, k |-> 0]]
    BY <1>1 DEF Read
  <1>5. imp'[i] = [at |-> "strip", node |-> n, bag |-> c, k |-> 0]
    BY <1>2, <1>4
  <1>6. Sound(imp'[i])
    BY <1>3, <1>5 DEF Sound, Import, ImportStages, Replaying
  <1>7. faults' \in 0..MaxFaults
    BY <1>2, FaultType DEF Begin, BeginSpoilt
  <1>8. UNCHANGED <<db, vault, post, bags, skipped>>
    BY <1>1 DEF Read
  <1>9. imp' = [imp EXCEPT ![i] = imp'[i]]
    BY <1>4, <1>5
  <1>10. imp'[i].at = "strip" /\ imp'[i].node = n /\ imp'[i].bag = c
    BY <1>5
  <1> QED
    BY <1>3, <1>6, <1>7, <1>8, <1>9, <1>10

(* The known prefix is stripped.                                           *)
LEMMA StripShape ==
  ASSUME TypeInv, NEW i \in Task, Strip(i)
  PROVE  /\ imp' = [imp EXCEPT ![i] = imp'[i]]
         /\ imp'[i].node = imp[i].node /\ imp'[i].bag = imp[i].bag
         /\ imp'[i].at = IF imp'[i].k = Len(imp[i].bag) + 1 THEN "done" ELSE "check"
         /\ \A m \in DOMAIN imp[i].bag : m < imp'[i].k =>
              PacketExists(db[imp[i].node].journal, imp[i].bag[m].p)
         /\ Sound(imp'[i])
  <1>1. imp \in [Task -> Import] /\ imp[i] \in Import /\ Sound(imp[i]) /\ imp[i].at = "strip"
    BY SoundImports DEF TypeInv, TypeOK, Strip
  <1>2. DOMAIN imp[i].bag = 1..Len(imp[i].bag) /\ Len(imp[i].bag) \in Nat
    BY <1>1, LenProperties DEF Import
  <1>3. PICK k \in 0..Len(imp[i].bag) :
          /\ Known(db[imp[i].node].journal, imp[i].bag, k)
          /\ imp' = [imp EXCEPT ![i].k = k + 1,
                                ![i].at = IF k = Len(imp[i].bag) THEN "done" ELSE "check"]
    BY DEF Strip
  <1>4. k \in Nat /\ k + 1 \in Nat
    BY <1>2
  <1>5. imp'[i] = [at |-> IF k = Len(imp[i].bag) THEN "done" ELSE "check",
                   node |-> imp[i].node, bag |-> imp[i].bag, k |-> k + 1]
    BY <1>1, <1>3 DEF Import
  <1>6. imp' = [imp EXCEPT ![i] = imp'[i]]
    BY <1>1, <1>3
  <1>7. imp'[i] \in Import
    BY <1>1, <1>4, <1>5 DEF Import, ImportStages
  <1>8. Sound(imp'[i])
    BY <1>1, <1>2, <1>3, <1>5, <1>7 DEF Sound, Replaying
  <1>9. \A m \in DOMAIN imp[i].bag : m < k + 1 =>
          PacketExists(db[imp[i].node].journal, imp[i].bag[m].p)
    BY <1>2, <1>3 DEF Known
  <1>10. /\ imp'[i].node = imp[i].node /\ imp'[i].bag = imp[i].bag /\ imp'[i].k = k + 1
         /\ imp'[i].at = IF k = Len(imp[i].bag) THEN "done" ELSE "check"
    BY <1>5
  <1>11. k = Len(imp[i].bag) <=> k + 1 = Len(imp[i].bag) + 1
    BY <1>2, <1>4
  <1> QED
    BY <1>6, <1>8, <1>9, <1>10, <1>11

(* What is left of the bag, row by row.                                    *)
LEMMA RestShape ==
  ASSUME NEW i \in Task, TypeInv, imp[i].at = "check"
  PROVE  /\ Len(Rest(i)) = Len(imp[i].bag) - imp[i].k + 1
         /\ DOMAIN Rest(i) = 1..Len(Rest(i))
         /\ \A m \in DOMAIN imp[i].bag : m >= imp[i].k =>
              /\ m - imp[i].k + 1 \in DOMAIN Rest(i)
              /\ Rest(i)[m - imp[i].k + 1] = imp[i].bag[m]
  <1>1. imp[i] \in Import /\ imp[i].k \in DOMAIN imp[i].bag
    BY SoundImports DEF TypeInv, TypeOK
  <1>2. /\ imp[i].bag \in Seq(AnyRow) /\ Len(imp[i].bag) \in Nat
        /\ DOMAIN imp[i].bag = 1..Len(imp[i].bag)
    BY <1>1, LenProperties DEF Import
  <1> DEFINE b == imp[i].bag
             k == imp[i].k
  <1>3. Rest(i) = SubSeq(b, k, Len(b))
    BY DEF Rest
  <1> HIDE DEF b, k
  <1>4. b \in Seq(AnyRow) /\ Len(b) \in Nat /\ DOMAIN b = 1..Len(b) /\ k \in 1..Len(b)
    BY <1>1, <1>2 DEF b, k
  <1>5. /\ SubSeq(b, k, Len(b)) \in Seq(AnyRow)
        /\ Len(SubSeq(b, k, Len(b))) = Len(b) - k + 1
        /\ \A x \in 1..Len(b) - k + 1 : SubSeq(b, k, Len(b))[x] = b[k + x - 1]
    BY <1>4, SubSeqProperties
  <1>6. DOMAIN SubSeq(b, k, Len(b)) = 1..Len(b) - k + 1
    BY <1>5, LenProperties
  <1>7. ASSUME NEW m \in DOMAIN b, m >= k
        PROVE  /\ m - k + 1 \in 1..Len(b) - k + 1
               /\ SubSeq(b, k, Len(b))[m - k + 1] = b[m]
    <2>1. m \in Int /\ k \in Int /\ m - k + 1 \in 1..Len(b) - k + 1
      BY <1>4, <1>7
    <2>2. k + (m - k + 1) - 1 = m
      BY <2>1
    <2> QED
      BY <1>5, <2>1, <2>2
  <1> QED
    BY <1>3, <1>5, <1>6, <1>7 DEF b, k

(* The rest of the bag is checked before any row is written.               *)
LEMMA CheckShape ==
  ASSUME TypeInv, NEW i \in Task, Check(i)
  PROVE  /\ imp' = [imp EXCEPT ![i] = imp'[i]]
         /\ Sound(imp'[i])
         /\ \/ imp'[i] = Over("failed")
            \/ /\ imp'[i].at = "row" /\ imp'[i].node = imp[i].node
               /\ imp'[i].bag = imp[i].bag /\ imp'[i].k = imp[i].k
               /\ ChainHead(db[imp[i].node].journal) = imp[i].bag[imp[i].k].prev
               /\ \A m \in DOMAIN imp[i].bag : m > imp[i].k =>
                    imp[i].bag[m].prev = ChainHash(imp[i].bag[m - 1])
  <1> DEFINE b == imp[i].bag
             k == imp[i].k
             rest == Rest(i)
  <1>1. imp \in [Task -> Import] /\ imp[i] \in Import /\ Sound(imp[i]) /\ imp[i].at = "check"
    BY SoundImports DEF TypeInv, TypeOK, Check
  <1>2. k \in DOMAIN b /\ DOMAIN b = 1..Len(b) /\ Len(b) \in Nat /\ imp[i].node \in Node
    BY <1>1, LenProperties DEF Sound, Import
  <1>3. /\ Len(rest) = Len(b) - k + 1 /\ DOMAIN rest = 1..Len(rest)
        /\ \A m \in DOMAIN b : m >= k =>
             m - k + 1 \in DOMAIN rest /\ rest[m - k + 1] = b[m]
    BY <1>1, RestShape
  <1>4. CASE /\ Continues(db[imp[i].node].journal, rest)
             /\ VerifyBag(rest) /\ VerifyStored(imp[i].node, rest)
    <2>1. imp' = [imp EXCEPT ![i].at = "row"]
      BY <1>4 DEF Check
    <2>2. /\ imp' = [imp EXCEPT ![i] = imp'[i]]
          /\ imp'[i] = [at |-> "row", node |-> imp[i].node, bag |-> b, k |-> k]
      BY <1>1, <2>1 DEF Import
    <2>3. b[k] = rest[1]
      BY <1>2, <1>3
    <2>4. ChainHead(db[imp[i].node].journal) = b[k].prev
      BY <1>4, <2>3 DEF Continues
    <2>5. ASSUME NEW m \in DOMAIN b, m > k PROVE b[m].prev = ChainHash(b[m - 1])
      <3>1. m - 1 \in DOMAIN b /\ m - 1 >= k /\ m >= k
        BY <1>2, <2>5
      <3>2. rest[m - k + 1] = b[m] /\ rest[(m - 1) - k + 1] = b[m - 1]
        BY <1>3, <3>1
      <3>3. m - k + 1 \in 2..Len(rest) /\ (m - k + 1) - 1 = (m - 1) - k + 1
        <4> HIDE DEF b, k, rest
        <4>1. m \in Int /\ k \in Int /\ Len(b) \in Int /\ m <= Len(b)
          BY <1>2, <2>5
        <4>2. Len(rest) = Len(b) - k + 1 /\ m > k
          BY <1>3, <2>5
        <4> QED
          BY <4>1, <4>2
      <3> QED
        BY <1>4, <3>2, <3>3 DEF VerifyBag
    <2>6. ASSUME NEW m \in DOMAIN b, m >= k PROVE b[m].p \in Packet
      <3>1. b[m].p # Damaged
        BY <1>3, <1>4, <2>6 DEF VerifyStored
      <3>2. b[m] \in AnyRow
        BY <1>1, <1>2, ElementOfSeq DEF Import
      <3> QED
        BY <3>1, <3>2 DEF AnyRow
    <2> HIDE DEF rest
    <2>7. imp'[i] \in Import
      BY <1>1, <2>2 DEF Import, ImportStages, Replaying
    <2>8. Sound(imp'[i])
      BY <1>2, <2>2, <2>6, <2>7 DEF Sound
    <2> QED
      BY <2>2, <2>4, <2>5, <2>8
  <1>5. CASE ~(/\ Continues(db[imp[i].node].journal, rest)
               /\ VerifyBag(rest) /\ VerifyStored(imp[i].node, rest))
    <2>1. imp' = [imp EXCEPT ![i] = Over("failed")]
      BY <1>5 DEF Check
    <2>2. imp'[i] = Over("failed")
      BY <1>1, <2>1
    <2> QED
      BY <2>1, <2>2, SoundOver
  <1> QED
    BY <1>4, <1>5

(* An import that stays at its row only moves on within the row.           *)
LEMMA SoundStay ==
  ASSUME NEW i \in Task, TypeInv, imp[i].at \in Replaying, NEW a \in Replaying,
         imp' = [imp EXCEPT ![i].at = a]
  PROVE  /\ imp' = [imp EXCEPT ![i] = imp'[i]] /\ Sound(imp'[i])
         /\ imp'[i].at = a /\ imp'[i].k = imp[i].k
         /\ imp'[i].bag = imp[i].bag /\ imp'[i].node = imp[i].node
  <1>1. imp \in [Task -> Import] /\ imp[i] \in Import /\ Sound(imp[i])
    BY SoundImports DEF TypeInv, TypeOK
  <1>2. imp'[i] = [at |-> a, node |-> imp[i].node, bag |-> imp[i].bag, k |-> imp[i].k]
    BY <1>1 DEF Import
  <1>3. imp' = [imp EXCEPT ![i] = imp'[i]]
    BY <1>1
  <1>4. imp'[i] \in Import
    BY <1>1, <1>2 DEF Import, ImportStages
  <1>5. Sound(imp'[i])
    BY <1>1, <1>2, <1>4 DEF Sound, Replaying
  <1> QED
    BY <1>2, <1>3, <1>5

(* Where an import stands after a step at a row.                           *)
Stayed(i) ==
  /\ imp'[i].k = imp[i].k /\ imp'[i].at \in {"find", "write", "journal"}
  /\ UNCHANGED skipped
Advanced(i) ==
  /\ imp'[i].k = imp[i].k + 1
  /\ IF imp[i].k = Len(imp[i].bag) THEN imp'[i].at = "done"
     ELSE imp'[i].at = "row" /\ imp'[i].k \in DOMAIN imp'[i].bag

LEMMA LeftOutShape ==
  ASSUME NEW i \in Task, TypeInv, imp[i].at \in Replaying, LeftOut(i)
  PROVE  /\ skipped' \in [Node -> SUBSET Packet]
         /\ skipped'[imp[i].node] # {}
         /\ \A n \in Node : skipped[n] \subseteq skipped'[n]
  <1>1. skipped \in [Node -> SUBSET Packet]
    BY DEF TypeInv, TypeOK
  <1>2. The(i) \in Packet /\ imp[i].node \in Node
    BY TheType
  <1> QED
    BY <1>1, <1>2 DEF LeftOut

LookStep(i) ==
  /\ imp[i].at = "row" /\ UNCHANGED <<db, skipped, faults>>
  /\ \/ Stayed(i) /\ imp'[i].at = "find"
     \/ Advanced(i) /\ PacketExists(db[imp[i].node].journal, The(i))
FindStep(i) ==
  /\ imp[i].at = "find" /\ UNCHANGED <<db, faults>>
  /\ \/ Stayed(i) /\ imp'[i].at = "write"
     \/ /\ Stayed(i) /\ imp'[i].at = "journal"
        /\ Missing(db[imp[i].node].table, The(i), Registered[imp[i].node])
     \/ Advanced(i) /\ LeftOut(i)
WriteStep(i) ==
  LET n == imp[i].node
      t == db[n].table IN
  /\ imp[i].at = "write" /\ UNCHANGED faults
  /\ Stayed(i) /\ imp'[i].at = "journal"
  /\ \/ UNCHANGED db /\ Missing(t, The(i), Registered[n])
     \/ db' = [db EXCEPT ![n].table = Written(t, The(i))]
JournalStep(i) ==
  /\ imp[i].at = "journal" /\ UNCHANGED <<skipped, faults>>
  /\ Advanced(i)
  /\ db' = [db EXCEPT ![imp[i].node].journal = AddPacket(db[imp[i].node].journal, The(i))]
FailStep(i) ==
  /\ imp[i].at \in {"find", "write", "journal"} /\ UNCHANGED db
  /\ Advanced(i) /\ LeftOut(i) /\ Fault

(* The steps at a row, in these terms.                                     *)
LEMMA ReplayShape ==
  ASSUME TypeInv, NEW i \in Task,
         Look(i) \/ Find(i) \/ Write(i) \/ JournalRow(i) \/ RowFails(i)
  PROVE  /\ LookStep(i) \/ FindStep(i) \/ WriteStep(i) \/ JournalStep(i) \/ FailStep(i)
         /\ imp[i].at \in Replaying
         /\ imp' = [imp EXCEPT ![i] = imp'[i]] /\ Sound(imp'[i])
         /\ imp'[i].bag = imp[i].bag /\ imp'[i].node = imp[i].node
         /\ UNCHANGED <<vault, post, bags>>
  <1>1. imp[i].at \in Replaying /\ UNCHANGED <<vault, post, bags>>
    BY DEF Look, Find, Write, JournalRow, RowFails, Replaying
  <1>2. ASSUME Onward(i)
        PROVE  /\ Advanced(i)
               /\ imp' = [imp EXCEPT ![i] = imp'[i]] /\ Sound(imp'[i])
               /\ imp'[i].bag = imp[i].bag /\ imp'[i].node = imp[i].node
    BY <1>1, <1>2, SoundOnward DEF Advanced
  <1>3. ASSUME NEW a \in {"find", "write", "journal"}, imp' = [imp EXCEPT ![i].at = a],
               UNCHANGED skipped
        PROVE  /\ Stayed(i) /\ imp'[i].at = a
               /\ imp' = [imp EXCEPT ![i] = imp'[i]] /\ Sound(imp'[i])
               /\ imp'[i].bag = imp[i].bag /\ imp'[i].node = imp[i].node
    <2>1. a \in Replaying
      BY DEF Replaying
    <2> QED
      BY <1>1, <1>3, <2>1, SoundStay DEF Stayed
  <1>4. CASE Look(i)
    <2>1. CASE PacketExists(db[imp[i].node].journal, The(i))
      BY <1>1, <1>2, <1>4, <2>1 DEF Look, LookStep
    <2>2. CASE ~PacketExists(db[imp[i].node].journal, The(i))
      BY <1>1, <1>3, <1>4, <2>2 DEF Look, LookStep
    <2> QED
      BY <2>1, <2>2
  <1>5. CASE Find(i)
    <2> DEFINE t == db[imp[i].node].table
               a == IF Missing(t, The(i), Registered[imp[i].node]) THEN "journal" ELSE "write"
    <2>1. CASE Refused(t, The(i)) \/ Repeated(t, The(i))
      BY <1>1, <1>2, <1>5, <2>1 DEF Find, FindStep
    <2>2. CASE ~(Refused(t, The(i)) \/ Repeated(t, The(i)))
      <3>1. imp' = [imp EXCEPT ![i].at = a] /\ UNCHANGED skipped
        BY <1>5, <2>2 DEF Find
      <3>2. a \in {"find", "write", "journal"}
        OBVIOUS
      <3>3. /\ Stayed(i) /\ imp'[i].at = a
            /\ imp' = [imp EXCEPT ![i] = imp'[i]] /\ Sound(imp'[i])
            /\ imp'[i].bag = imp[i].bag /\ imp'[i].node = imp[i].node
        BY <1>3, <3>1, <3>2
      <3>4. \/ imp'[i].at = "write"
            \/ imp'[i].at = "journal" /\ Missing(t, The(i), Registered[imp[i].node])
        BY <3>3
      <3>5. imp[i].at = "find" /\ UNCHANGED <<db, faults>>
        BY <1>5 DEF Find
      <3> QED
        BY <1>1, <3>3, <3>4, <3>5 DEF FindStep
    <2> QED
      BY <2>1, <2>2
  <1>6. CASE Write(i)
    <2>1. UNCHANGED skipped /\ imp' = [imp EXCEPT ![i].at = "journal"]
      BY <1>6 DEF Write
    <2>2. /\ Stayed(i) /\ imp'[i].at = "journal"
          /\ imp' = [imp EXCEPT ![i] = imp'[i]] /\ Sound(imp'[i])
          /\ imp'[i].bag = imp[i].bag /\ imp'[i].node = imp[i].node
      BY <1>3, <2>1
    <2>3. WriteStep(i)
      BY <1>6, <2>2 DEF Write, WriteStep
    <2> QED
      BY <1>1, <2>2, <2>3
  <1>7. CASE JournalRow(i)
    BY <1>1, <1>2, <1>7 DEF JournalRow, JournalStep
  <1>8. CASE RowFails(i)
    BY <1>1, <1>2, <1>8 DEF RowFails, FailStep
  <1> QED
    BY <1>4, <1>5, <1>6, <1>7, <1>8

LEMMA ReplayType ==
  ASSUME TypeInv, NEW i \in Task,
         Look(i) \/ Find(i) \/ Write(i) \/ JournalRow(i) \/ RowFails(i)
  PROVE  TypeInv'
  <1>1. /\ LookStep(i) \/ FindStep(i) \/ WriteStep(i) \/ JournalStep(i) \/ FailStep(i)
        /\ imp[i].at \in Replaying
        /\ imp' = [imp EXCEPT ![i] = imp'[i]] /\ Sound(imp'[i])
        /\ UNCHANGED <<vault, post, bags>>
    BY ReplayShape
  <1>2. /\ The(i) \in Packet /\ imp[i].node \in Node
        /\ db[imp[i].node].journal \in Seq(Row) /\ db[imp[i].node].table \in Table
    BY <1>1, TheType
  <1>3. /\ db \in [Node -> Data] /\ skipped \in [Node -> SUBSET Packet]
        /\ faults \in 0..MaxFaults
    BY DEF TypeInv, TypeOK
  <1>4. db' \in [Node -> Data]
    <2> DEFINE w == Written(db[imp[i].node].table, The(i))
               a == AddPacket(db[imp[i].node].journal, The(i))
    <2>1. w \in Table /\ a \in Seq(Row)
      BY <1>2, WrittenType, AddPacketShape
    <2>2. \/ db' = db \/ db' = [db EXCEPT ![imp[i].node].table = w]
          \/ db' = [db EXCEPT ![imp[i].node].journal = a]
      BY <1>1 DEF LookStep, FindStep, WriteStep, JournalStep, FailStep
    <2> HIDE DEF w, a
    <2>3. /\ [db EXCEPT ![imp[i].node].table = w] \in [Node -> Data]
          /\ [db EXCEPT ![imp[i].node].journal = a] \in [Node -> Data]
      BY <1>2, <1>3, <2>1 DEF Data
    <2> QED
      BY <1>3, <2>2, <2>3
  <1>5. skipped' \in [Node -> SUBSET Packet]
    BY <1>1, <1>3, LeftOutShape DEF LookStep, FindStep, WriteStep, JournalStep, FailStep, Stayed
  <1>6. faults' \in 0..MaxFaults
    BY <1>1, <1>3, FaultType DEF LookStep, FindStep, WriteStep, JournalStep, FailStep
  <1> QED
    BY <1>1, <1>4, <1>5, <1>6, ImportType

LEMMA TypeStep == TypeInv /\ [Next]_vars => TypeInv'
  <1> SUFFICES ASSUME TypeInv, [Next]_vars PROVE TypeInv'
    OBVIOUS
  <1>1. /\ db \in [Node -> Data] /\ skipped \in [Node -> SUBSET Packet]
        /\ faults \in 0..MaxFaults /\ imp \in [Task -> Import]
    BY DEF TypeInv, TypeOK
  <1>2. ASSUME NEW i \in Task, NEW n \in Node, NEW b \in bags,
               Begin(i, n, b) \/ BeginSpoilt(i, n, b)
        PROVE  TypeInv'
    <2>1. /\ imp' = [imp EXCEPT ![i] = imp'[i]] /\ Sound(imp'[i])
          /\ UNCHANGED <<db, vault, post, bags, skipped>> /\ faults' \in 0..MaxFaults
      BY <1>2, ReadShape
    <2> QED
      BY <1>1, <2>1, ImportType
  <1>3. ASSUME NEW i \in Task, Strip(i) \/ Check(i) PROVE TypeInv'
    <2>1. imp' = [imp EXCEPT ![i] = imp'[i]] /\ Sound(imp'[i])
      BY <1>3, StripShape, CheckShape
    <2>2. UNCHANGED <<db, vault, post, bags, skipped, faults>>
      BY <1>3 DEF Strip, Check
    <2> QED
      BY <1>1, <2>1, <2>2, ImportType
  <1>4. ASSUME NEW i \in Task, Cancel(i) PROVE TypeInv'
    <2>1. imp' = [imp EXCEPT ![i] = Over("failed")] /\ imp'[i] = Over("failed")
      BY <1>1, <1>4 DEF Cancel
    <2>2. UNCHANGED <<db, vault, post, bags, skipped>> /\ faults' \in 0..MaxFaults
      BY <1>1, <1>4, FaultType DEF Cancel
    <2>3. Sound(imp'[i])
      BY <2>1, SoundOver
    <2> QED
      BY <1>1, <2>1, <2>2, <2>3, ImportType
  <1>5. CASE UNCHANGED vars
    BY <1>5, TypeNext, SoundImports DEF vars, TypeInv, TypeOK
  <1>6. CASE Next
    BY <1>2, <1>3, <1>4, <1>6, PostType, NodeType, ReplayType DEF Next, Times, ImportStep
  <1> QED
    BY <1>5, <1>6

(* Every reachable state is well typed.                                    *)
THEOREM TypeCorrectness == Spec => []TypeOK
  <1>1. TypeInv => TypeOK
    BY DEF TypeInv
  <1> QED
    BY <1>1, InitType, TypeStep, PTL DEF Spec

-----------------------------------------------------------------------------
(* Chains.  A good journal verifies, holds no packet twice, and each of its *)
(* rows names the packets before it.                                        *)
Prefix(j) ==
  \A k \in DOMAIN j :
    /\ Len(j[k].prev) = k - 1
    /\ \A m \in 1..k - 1 : j[k].prev[m] = j[m].p

Good(j) ==
  /\ VerifyJournal(j) /\ Prefix(j)
  /\ \A k, m \in DOMAIN j : j[k].p = j[m].p => k = m

LEMMA GoodEmpty == Good(<<>>)
  BY EmptySeq DEF Good, VerifyJournal, Prefix

(* The head of a good journal names all of it.                             *)
LEMMA HeadNames ==
  ASSUME NEW j \in Seq(Row), Good(j)
  PROVE  /\ Len(ChainHead(j)) = Len(j)
         /\ \A m \in DOMAIN j : ChainHead(j)[m] = j[m].p
  <1>1. DOMAIN j = 1..Len(j) /\ Len(j) \in Nat
    BY LenProperties
  <1>2. CASE j = <<>>
    BY <1>2, EmptySeq DEF ChainHead
  <1>3. CASE j # <<>>
    <2> DEFINE r == j[Len(j)]
    <2>1. Len(j) \in DOMAIN j /\ r \in Row
      BY <1>1, <1>3, EmptySeq, ElementOfSeq
    <2>2. Len(r.prev) = Len(j) - 1 /\ \A m \in 1..Len(j) - 1 : r.prev[m] = j[m].p
      BY <2>1 DEF Good, Prefix
    <2>3. ChainHead(j) = ChainHash(r)
      BY <1>3 DEF ChainHead
    <2> HIDE DEF r
    <2>4. /\ Len(ChainHash(r)) = Len(r.prev) + 1
          /\ \A x \in 1..Len(r.prev) : ChainHash(r)[x] = r.prev[x]
          /\ ChainHash(r)[Len(r.prev) + 1] = r.p
      BY <2>1, HashType
    <2> DEFINE n == Len(j)
    <2> HIDE DEF n
    <2>0. n \in Nat /\ Len(r.prev) = n - 1 /\ (n - 1) + 1 = n
      <3>1. n \in Nat
        BY <1>1 DEF n
      <3>2. Len(r.prev) = n - 1
        BY <2>2 DEF n
      <3> QED
        BY <3>1, <3>2
    <2>5. Len(ChainHash(r)) = Len(j) /\ ChainHash(r)[Len(j)] = j[Len(j)].p
      BY <2>0, <2>4 DEF r, n
    <2>6. \A m \in 1..Len(j) - 1 : ChainHash(r)[m] = j[m].p
      BY <2>2, <2>4
    <2>7. \A m \in 1..Len(j) : m = Len(j) \/ m \in 1..Len(j) - 1
      <3>1. \A m \in 1..n : m = n \/ m \in 1..n - 1
        BY <2>0
      <3> QED
        BY <3>1 DEF n
    <2> QED
      BY <1>1, <2>3, <2>5, <2>6, <2>7
  <1> QED
    BY <1>2, <1>3

(* Adding a packet keeps a journal good.                                   *)
LEMMA GoodAdd ==
  ASSUME NEW j \in Seq(Row), NEW p \in Packet, Good(j)
  PROVE  Good(AddPacket(j, p))
  <1> DEFINE a == AddPacket(j, p)
  <1>1. CASE PacketExists(j, p)
    BY <1>1, AddPacketShape
  <1>2. CASE ~PacketExists(j, p)
    <2>1. /\ a \in Seq(Row) /\ Len(a) = Len(j) + 1
          /\ \A k \in 1..Len(j) : a[k] = j[k]
          /\ a[Len(j) + 1] = [p |-> p, prev |-> ChainHead(j)]
      BY <1>2, AddPacketShape
    <2>2. /\ DOMAIN j = 1..Len(j) /\ Len(j) \in Nat /\ DOMAIN a = 1..Len(j) + 1
      BY <2>1, LenProperties
    <2>3. Len(ChainHead(j)) = Len(j) /\ \A m \in DOMAIN j : ChainHead(j)[m] = j[m].p
      BY HeadNames
    <2>4. a[Len(j) + 1].p = p /\ a[Len(j) + 1].prev = ChainHead(j)
      BY <2>1
    <2>5. \A k \in DOMAIN a : k \in DOMAIN j \/ k = Len(j) + 1
      BY <2>2
    <2> HIDE DEF a
    <2>6. Prefix(a)
      <3> SUFFICES ASSUME NEW k \in DOMAIN a
                   PROVE  /\ Len(a[k].prev) = k - 1
                          /\ \A m \in 1..k - 1 : a[k].prev[m] = a[m].p
        BY DEF Prefix
      <3>1. CASE k \in DOMAIN j
        <4>1. a[k] = j[k] /\ \A m \in 1..k - 1 : a[m] = j[m]
          BY <2>1, <2>2, <3>1
        <4> QED
          BY <3>1, <4>1 DEF Good, Prefix
      <3>2. CASE k = Len(j) + 1
        <4>1. \A m \in 1..k - 1 : m \in DOMAIN j /\ a[m] = j[m]
          BY <2>1, <2>2, <3>2
        <4> QED
          BY <2>2, <2>3, <2>4, <3>2, <4>1
      <3> QED
        BY <2>5, <3>1, <3>2
    <2>7. VerifyJournal(a)
      <3> SUFFICES ASSUME NEW k \in DOMAIN a
                   PROVE  a[k].prev = (IF k = 1 THEN <<>> ELSE ChainHash(a[k - 1]))
        BY DEF VerifyJournal
      <3>1. CASE k \in DOMAIN j
        <4>1. a[k] = j[k] /\ (k # 1 => k - 1 \in DOMAIN j /\ a[k - 1] = j[k - 1])
          BY <2>1, <2>2, <3>1
        <4> QED
          BY <3>1, <4>1 DEF Good, VerifyJournal
      <3>2. CASE k = Len(j) + 1
        <4>1. CASE j = <<>>
          BY <2>4, <3>2, <4>1, EmptySeq DEF ChainHead
        <4>2. CASE j # <<>>
          <5>1. Len(j) \in DOMAIN j /\ k # 1 /\ k - 1 = Len(j)
            BY <2>2, <3>2, <4>2, EmptySeq
          <5>2. a[k - 1] = j[Len(j)]
            BY <2>1, <2>2, <5>1
          <5> QED
            BY <2>4, <3>2, <4>2, <5>1, <5>2 DEF ChainHead
        <4> QED
          BY <4>1, <4>2
      <3> QED
        BY <2>5, <3>1, <3>2
    <2>8. \A k, m \in DOMAIN a : a[k].p = a[m].p => k = m
      <3>1. \A k \in DOMAIN j : j[k].p # p
        BY <1>2 DEF PacketExists
      <3>2. \A k \in DOMAIN j : a[k] = j[k]
        BY <2>1, <2>2
      <3> QED
        BY <2>4, <2>5, <3>1, <3>2 DEF Good
    <2>9. Good(a)
      BY <2>6, <2>7, <2>8 DEF Good
    <2> QED
      BY <2>9 DEF a
  <1> QED
    BY <1>1, <1>2

(* What a node's row and journal writes leave alone.                       *)
LEMMA TableOnly ==
  ASSUME db \in [Node -> Data], NEW h \in Node, NEW w,
         db' = [db EXCEPT ![h].table = w]
  PROVE  \A n \in Node :
           /\ db'[n].journal = db[n].journal
           /\ db'[n].table = IF n = h THEN w ELSE db[n].table
  BY DEF Data

LEMMA JournalOnly ==
  ASSUME db \in [Node -> Data], NEW h \in Node, NEW a,
         db' = [db EXCEPT ![h].journal = a]
  PROVE  \A n \in Node :
           /\ db'[n].table = db[n].table
           /\ db'[n].journal = IF n = h THEN a ELSE db[n].journal
  BY DEF Data

(* Where the packet of a new journal row comes from.                       *)
Source(n, p) ==
  \/ Home[p] = n /\ post[p] = "written"
  \/ \E i \in Task : imp[i].at = "journal" /\ imp[i].node = n /\ p = The(i)

(* What a step may do to journals, vaults, bags and histories.             *)
LEMMA Moves ==
  ASSUME TypeInv, [Next]_vars
  PROVE  /\ \A n \in Node :
              \/ db'[n].journal = db[n].journal
              \/ db'[n] = vault[n] /\ \A i \in Task : imp'[i].node # n
              \/ \E p \in Packet : Source(n, p) /\ db'[n].journal = AddPacket(db[n].journal, p)
         /\ \A n \in Node : vault'[n] = vault[n] \/ vault'[n] = db[n]
         /\ \/ bags' = bags
            \/ \E n \in Node, b \in Seq(Row) :
                 /\ bags' = bags \cup {b}
                 /\ \A k \in DOMAIN b : \E m \in DOMAIN db[n].journal : b[k] = db[n].journal[m]
         /\ \A p \in Packet : post[p] # "new" => post'[p] # "new"
         /\ \A n \in Node : skipped[n] \subseteq skipped'[n]
  <1>1. /\ db \in [Node -> Data] /\ vault \in [Node -> Data]
        /\ post \in [Packet -> Stages] /\ skipped \in [Node -> SUBSET Packet]
    BY DEF TypeInv, TypeOK
  <1>2. CASE UNCHANGED vars
    BY <1>2 DEF vars
  <1>3. ASSUME NEW p \in Packet,
               Submit(p) \/ WriteRow(p) \/ Journal(p) \/ RereadFails(p) \/ JournalFails(p)
        PROVE  /\ UNCHANGED <<vault, bags, skipped>>
               /\ \A q \in Packet : post[q] # "new" => post'[q] # "new"
               /\ \A n \in Node :
                    \/ db'[n].journal = db[n].journal
                    \/ /\ Home[p] = n /\ post[p] = "written"
                       /\ db'[n].journal = AddPacket(db[n].journal, p)
    <2>1. UNCHANGED <<vault, bags, skipped>>
      BY <1>3 DEF Submit, WriteRow, Journal, RereadFails, JournalFails
    <2>2. \A q \in Packet : post[q] # "new" => post'[q] # "new"
      BY <1>1, <1>3 DEF Submit, WriteRow, Journal, RereadFails, JournalFails
    <2>3. CASE Submit(p) \/ RereadFails(p) \/ JournalFails(p)
      BY <2>1, <2>2, <2>3 DEF Submit, RereadFails, JournalFails
    <2>4. CASE WriteRow(p)
      <3> DEFINE w == Written(db[Home[p]].table, p)
      <3>1. db' = db \/ db' = [db EXCEPT ![Home[p]].table = w]
        BY <2>4 DEF WriteRow
      <3> HIDE DEF w
      <3>2. \A n \in Node : db'[n].journal = db[n].journal
        BY <1>1, <3>1, SyncAssumption, TableOnly
      <3> QED
        BY <2>1, <2>2, <3>2
    <2>5. CASE Journal(p)
      <3> DEFINE a == AddPacket(db[Home[p]].journal, p)
      <3>1. db' = [db EXCEPT ![Home[p]].journal = a] /\ post[p] = "written"
        BY <2>5 DEF Journal
      <3> HIDE DEF a
      <3>2. \A n \in Node : db'[n].journal = IF n = Home[p] THEN a ELSE db[n].journal
        BY <1>1, <3>1, SyncAssumption, JournalOnly
      <3> QED
        BY <2>1, <2>2, <3>1, <3>2 DEF a
    <2> QED
      BY <1>3, <2>3, <2>4, <2>5
  <1>4. ASSUME NEW n \in Node, Seal(n) PROVE UNCHANGED <<db, bags, post, skipped>>
          /\ \A m \in Node : vault'[m] = vault[m] \/ vault'[m] = db[m]
    BY <1>1, <1>4 DEF Seal, Sealed
  <1>5. ASSUME NEW n \in Node, Crash(n) PROVE UNCHANGED <<vault, bags, skipped>>
          /\ (\A m \in Node : db'[m] = db[m] \/ (db'[m] = vault[m] /\ \A i \in Task : imp'[i].node # m))
          /\ \A p \in Packet : post[p] # "new" => post'[p] # "new"
    <2>1. \A i \in Task : imp'[i].node # n
      BY <1>5, SyncAssumption DEF Crash, Over
    <2>2. \A m \in Node : db'[m] = db[m] \/ (m = n /\ db'[m] = vault[m])
      BY <1>1, <1>5 DEF Crash
    <2>3. \A p \in Packet : post[p] # "new" => post'[p] # "new"
      BY <1>1, <1>5 DEF Crash
    <2> QED
      BY <1>5, <2>1, <2>2, <2>3 DEF Crash
  <1>6. ASSUME NEW n \in Node, NEW p \in Packet, Export(n, Ts[p])
        PROVE  /\ UNCHANGED <<db, vault, post, skipped>>
               /\ \E b \in Seq(Row) :
                    /\ bags' = bags \cup {b}
                    /\ \A k \in DOMAIN b : \E m \in DOMAIN db[n].journal : b[k] = db[n].journal[m]
    <2>1. Ts[p] \in Nat /\ db[n].journal \in Seq(Row)
      BY <1>1, SyncAssumption DEF Data
    <2>2. PICK b \in ListJournal(db[n].journal, Ts[p]) : bags' = bags \cup {b}
      BY <1>6 DEF Export
    <2> QED
      BY <1>6, <2>1, <2>2, SelectionShape DEF Export
  <1>7. ASSUME NEW i \in Task, NEW n \in Node, NEW b \in bags,
               Begin(i, n, b) \/ BeginSpoilt(i, n, b)
        PROVE  UNCHANGED <<db, vault, bags, post, skipped>>
    BY <1>7 DEF Begin, BeginSpoilt, Read
  <1>8. ASSUME NEW i \in Task, Strip(i) \/ Check(i) \/ Cancel(i)
        PROVE  UNCHANGED <<db, vault, bags, post, skipped>>
    BY <1>8 DEF Strip, Check, Cancel
  <1>9. ASSUME NEW i \in Task,
               Look(i) \/ Find(i) \/ Write(i) \/ JournalRow(i) \/ RowFails(i)
        PROVE  /\ UNCHANGED <<vault, bags, post>>
               /\ \A n \in Node : skipped[n] \subseteq skipped'[n]
               /\ The(i) \in Packet
               /\ \A n \in Node :
                    \/ db'[n].journal = db[n].journal
                    \/ /\ n = imp[i].node /\ imp[i].at = "journal"
                       /\ db'[n].journal = AddPacket(db[n].journal, The(i))
    <2>1. /\ LookStep(i) \/ FindStep(i) \/ WriteStep(i) \/ JournalStep(i) \/ FailStep(i)
          /\ imp[i].at \in Replaying /\ UNCHANGED <<vault, post, bags>>
      BY <1>9, ReplayShape
    <2>2. The(i) \in Packet /\ imp[i].node \in Node
      BY <2>1, TheType
    <2>3. \A n \in Node : skipped[n] \subseteq skipped'[n]
      BY <2>1, LeftOutShape DEF LookStep, FindStep, WriteStep, JournalStep, FailStep, Stayed
    <2> DEFINE w == Written(db[imp[i].node].table, The(i))
               a == AddPacket(db[imp[i].node].journal, The(i))
    <2>4. \/ db' = db \/ db' = [db EXCEPT ![imp[i].node].table = w]
          \/ imp[i].at = "journal" /\ db' = [db EXCEPT ![imp[i].node].journal = a]
      BY <2>1 DEF LookStep, FindStep, WriteStep, JournalStep, FailStep
    <2> HIDE DEF w, a
    <2>5. \A n \in Node :
            \/ db'[n].journal = db[n].journal
            \/ n = imp[i].node /\ imp[i].at = "journal" /\ db'[n].journal = a
      <3>1. CASE db' = db
        BY <3>1
      <3>2. CASE db' = [db EXCEPT ![imp[i].node].table = w]
        BY <1>1, <2>2, <3>2, TableOnly
      <3>3. CASE imp[i].at = "journal" /\ db' = [db EXCEPT ![imp[i].node].journal = a]
        BY <1>1, <2>2, <3>3, JournalOnly
      <3> QED
        BY <2>4, <3>1, <3>2, <3>3
    <2> QED
      BY <2>1, <2>2, <2>3, <2>5 DEF a
  <1>10. ASSUME NEW i \in Task, ImportStep(i)
         PROVE  \/ Strip(i) \/ Check(i) \/ Cancel(i)
                \/ Look(i) \/ Find(i) \/ Write(i) \/ JournalRow(i) \/ RowFails(i)
    BY <1>10 DEF ImportStep
  <1>11. CASE \E p \in Packet : \/ Submit(p) \/ WriteRow(p) \/ Journal(p)
                              \/ RereadFails(p) \/ JournalFails(p)
    BY <1>3, <1>11 DEF Source
  <1>12. CASE \E n \in Node : Seal(n) \/ Crash(n)
    BY <1>4, <1>5, <1>12
  <1>13. CASE \E n \in Node, p \in Packet : Export(n, Ts[p])
    BY <1>6, <1>13
  <1>14. CASE \E i \in Task, n \in Node : \E b \in bags : Begin(i, n, b) \/ BeginSpoilt(i, n, b)
    BY <1>7, <1>14
  <1>15. CASE \E i \in Task : ImportStep(i)
    BY <1>8, <1>9, <1>10, <1>15 DEF Source
  <1> QED
    BY <1>2, <1>11, <1>12, <1>13, <1>14, <1>15 DEF Next, Times

(* Every journal and every vault is good.                                  *)
ChainInv == \A n \in Node : Good(db[n].journal) /\ Good(vault[n].journal)

LEMMA InitChain == Init => ChainInv
  BY GoodEmpty DEF Init, ChainInv

LEMMA ChainStep == TypeInv /\ ChainInv /\ [Next]_vars => ChainInv'
  <1> SUFFICES ASSUME TypeInv, ChainInv, [Next]_vars, NEW n \in Node
               PROVE  Good(db'[n].journal) /\ Good(vault'[n].journal)
    BY DEF ChainInv
  <1>1. db[n].journal \in Seq(Row) /\ Good(db[n].journal) /\ Good(vault[n].journal)
    BY DEF TypeInv, TypeOK, Data, ChainInv
  <1>2. vault'[n] = vault[n] \/ vault'[n] = db[n]
    BY Moves
  <1>3. \/ db'[n].journal = db[n].journal
        \/ db'[n] = vault[n]
        \/ \E p \in Packet : db'[n].journal = AddPacket(db[n].journal, p)
    BY Moves
  <1>4. ASSUME NEW p \in Packet, db'[n].journal = AddPacket(db[n].journal, p)
        PROVE  Good(db'[n].journal)
    BY <1>1, <1>4, GoodAdd
  <1> QED
    BY <1>1, <1>2, <1>3, <1>4

(* A node's own journal always verifies and holds no packet twice.         *)
THEOREM JournalsIntact == Spec => []JournalsVerify
  <1>1. ChainInv => JournalsVerify
    BY DEF ChainInv, Good, JournalsVerify
  <1> QED
    BY <1>1, InitType, TypeStep, InitChain, ChainStep, PTL DEF Spec

-----------------------------------------------------------------------------
(* What is carried.  An exported row is a journal row, so it does not name *)
(* its own packet among those before it; the rows an import read are       *)
(* exported rows or damaged.                                               *)
CarriedInv ==
  /\ \A r \in Carried : r \in Row /\ \A x \in 1..Len(r.prev) : r.prev[x] # r.p
  /\ \A i \in Task : \A m \in DOMAIN imp[i].bag :
       imp[i].bag[m] \in Carried \/ imp[i].bag[m].p = Damaged

LEMMA InitCarried == Init => CarriedInv
  BY EmptySeq DEF Init, CarriedInv, Carried, Idle, Over, NoBag

(* The carried rows only grow, by rows of journals.                        *)
LEMMA CarriedMoves ==
  ASSUME TypeInv, [Next]_vars
  PROVE  /\ Carried \subseteq Carried'
         /\ \A r \in Carried' :
              \/ r \in Carried
              \/ \E n \in Node : \E m \in DOMAIN db[n].journal : r = db[n].journal[m]
  <1>1. CASE bags' = bags
    BY <1>1 DEF Carried
  <1>2. ASSUME NEW n \in Node, NEW b \in Seq(Row), bags' = bags \cup {b},
               \A k \in DOMAIN b : \E m \in DOMAIN db[n].journal : b[k] = db[n].journal[m]
        PROVE  /\ Carried \subseteq Carried'
               /\ \A r \in Carried' :
                    r \in Carried \/ \E m \in DOMAIN db[n].journal : r = db[n].journal[m]
    <2>1. Carried' = Carried \cup {b[k] : k \in DOMAIN b}
      BY <1>2 DEF Carried
    <2> QED
      BY <1>2, <2>1
  <1> QED
    BY <1>1, <1>2, Moves

(* A row of a good journal does not name its own packet.                   *)
LEMMA OwnPacket ==
  ASSUME NEW j \in Seq(Row), Good(j), NEW m \in DOMAIN j
  PROVE  j[m] \in Row /\ \A x \in 1..Len(j[m].prev) : j[m].prev[x] # j[m].p
  <1>1. DOMAIN j = 1..Len(j) /\ Len(j) \in Nat /\ j[m] \in Row
    BY LenProperties, ElementOfSeq
  <1>2. Len(j[m].prev) = m - 1 /\ \A x \in 1..m - 1 : j[m].prev[x] = j[x].p
    BY DEF Good, Prefix
  <1>3. \A x \in 1..m - 1 : x \in DOMAIN j /\ x # m
    BY <1>1
  <1> QED
    BY <1>1, <1>2, <1>3 DEF Good

(* The bag of an import is read once, from the bags.                       *)
LEMMA BagMoves ==
  ASSUME TypeInv, [Next]_vars, NEW i \in Task
  PROVE  \/ imp'[i].bag = imp[i].bag
         \/ imp'[i].bag = NoBag
         \/ \A m \in DOMAIN imp'[i].bag :
              imp'[i].bag[m] \in Carried \/ imp'[i].bag[m].p = Damaged
  <1>1. imp \in [Task -> Import]
    BY DEF TypeInv, TypeOK
  <1>2. ASSUME NEW h \in Task, imp' = [imp EXCEPT ![h] = imp'[h]]
        PROVE  h = i \/ imp'[i] = imp[i]
    BY <1>1, <1>2
  <1>3. CASE UNCHANGED imp
    BY <1>3
  <1>4. CASE \E n \in Node : Crash(n)
    BY <1>1, <1>4 DEF Crash, Over
  <1>5. ASSUME NEW h \in Task, NEW n \in Node, NEW b \in bags,
               Begin(h, n, b) \/ BeginSpoilt(h, n, b)
        PROVE  \/ imp'[i].bag = imp[i].bag
               \/ \A m \in DOMAIN imp'[i].bag :
                    imp'[i].bag[m] \in Carried \/ imp'[i].bag[m].p = Damaged
    <2>1. /\ imp' = [imp EXCEPT ![h] = imp'[h]]
          /\ \A m \in DOMAIN imp'[h].bag :
               imp'[h].bag[m].p = Damaged \/ \E x \in DOMAIN b : imp'[h].bag[m] = b[x]
      BY <1>5, ReadShape
    <2>2. \A x \in DOMAIN b : b[x] \in Carried
      BY DEF Carried
    <2> QED
      BY <1>2, <2>1, <2>2
  <1>6. ASSUME NEW h \in Task, ImportStep(h)
        PROVE  imp'[i].bag = imp[i].bag \/ imp'[i].bag = NoBag
    <2>1. CASE Cancel(h)
      BY <1>1, <2>1 DEF Cancel, Over
    <2>2. CASE Strip(h)
      BY <1>2, <2>2, StripShape
    <2>3. CASE Check(h)
      BY <1>2, <2>3, CheckShape DEF Over
    <2>4. CASE Look(h) \/ Find(h) \/ Write(h) \/ JournalRow(h) \/ RowFails(h)
      BY <1>2, <2>4, ReplayShape
    <2> QED
      BY <1>6, <2>1, <2>2, <2>3, <2>4 DEF ImportStep
  <1>7. ASSUME NEW p \in Packet,
               Submit(p) \/ WriteRow(p) \/ Journal(p) \/ RereadFails(p) \/ JournalFails(p)
        PROVE  UNCHANGED imp
    BY <1>7 DEF Submit, WriteRow, Journal, RereadFails, JournalFails
  <1>8. ASSUME NEW n \in Node, Seal(n) \/ \E p \in Packet : Export(n, Ts[p])
        PROVE  UNCHANGED imp
    BY <1>8 DEF Seal, Export
  <1> QED
    BY <1>3, <1>4, <1>5, <1>6, <1>7, <1>8 DEF Next, Times, vars

LEMMA CarriedStep == TypeInv /\ ChainInv /\ CarriedInv /\ [Next]_vars => CarriedInv'
  <1> SUFFICES ASSUME TypeInv, ChainInv, CarriedInv, [Next]_vars PROVE CarriedInv'
    OBVIOUS
  <1>1. Carried \subseteq Carried'
    BY CarriedMoves
  <1>2. ASSUME NEW r \in Carried'
        PROVE  r \in Row /\ \A x \in 1..Len(r.prev) : r.prev[x] # r.p
    <2>1. CASE r \in Carried
      BY <2>1 DEF CarriedInv
    <2>2. ASSUME NEW n \in Node, NEW m \in DOMAIN db[n].journal, r = db[n].journal[m]
          PROVE  r \in Row /\ \A x \in 1..Len(r.prev) : r.prev[x] # r.p
      <3>1. db[n].journal \in Seq(Row) /\ Good(db[n].journal)
        BY DEF TypeInv, TypeOK, Data, ChainInv
      <3> QED
        BY <2>2, <3>1, OwnPacket
    <2> QED
      BY <2>1, <2>2, CarriedMoves
  <1>3. ASSUME NEW i \in Task, NEW m \in DOMAIN imp'[i].bag
        PROVE  imp'[i].bag[m] \in Carried' \/ imp'[i].bag[m].p = Damaged
    <2>1. CASE imp'[i].bag = imp[i].bag
      BY <1>1, <2>1 DEF CarriedInv
    <2>2. imp'[i].bag # NoBag
      BY EmptySeq DEF NoBag
    <2> QED
      BY <1>1, <2>1, <2>2, BagMoves
  <1> QED
    BY <1>2, <1>3 DEF CarriedInv

-----------------------------------------------------------------------------
(* Following.  While nothing was left out and no history was forked, the    *)
(* journal and the vault of a node that only imports hold carried rows, and *)
(* the row an import is at continues a row the node has.                    *)
Anchored(j, r) == r.prev = <<>> \/ \E m \in DOMAIN j : r.prev = ChainHash(j[m])

Whole(j) == \A k \in DOMAIN j : j[k] \in Carried

Linked(b, k) == \A m \in DOMAIN b : m > k => b[m].prev = ChainHash(b[m - 1])

AnchorInv ==
  \A i \in Task : imp[i].at \in Replaying =>
    /\ Linked(imp[i].bag, imp[i].k)
    /\ Unforked /\ imp[i].node \notin Writer /\ skipped[imp[i].node] = {} =>
         Anchored(db[imp[i].node].journal, imp[i].bag[imp[i].k])

FollowInv ==
  \A n \in Node \ Writer : Unforked /\ skipped[n] = {} =>
    Whole(db[n].journal) /\ Whole(vault[n].journal)

(* A carried row that continues a row of a whole journal is the next one,   *)
(* or already there: in particular its packet is never there in another row.*)
LEMMA NextRow ==
  ASSUME CarriedInv, Unforked, NEW j \in Seq(Row), Good(j), Whole(j),
         NEW r \in Carried, Anchored(j, r)
  PROVE  /\ PacketExists(j, r.p) => \E m \in DOMAIN j : j[m] = r
         /\ ~PacketExists(j, r.p) => ChainHead(j) = r.prev
  <1>1. DOMAIN j = 1..Len(j) /\ Len(j) \in Nat
    BY LenProperties
  <1>2. \A m \in DOMAIN j : j[m].prev = r.prev => j[m] = r
    BY DEF Whole, Unforked
  <1>3. ChainHead(j) = r.prev \/ \E m \in DOMAIN j : j[m] = r
    <2>1. CASE r.prev = <<>>
      <3>1. CASE j = <<>>
        BY <2>1, <3>1 DEF ChainHead
      <3>2. CASE j # <<>>
        <4>1. 1 \in DOMAIN j
          BY <1>1, <3>2, EmptySeq
        <4>2. j[1].prev = <<>>
          BY <4>1 DEF Good, VerifyJournal
        <4> QED
          BY <1>2, <2>1, <4>1, <4>2
      <3> QED
        BY <3>1, <3>2
    <2>2. ASSUME NEW m \in DOMAIN j, r.prev = ChainHash(j[m])
          PROVE  ChainHead(j) = r.prev \/ \E x \in DOMAIN j : j[x] = r
      <3>1. CASE m = Len(j)
        <4>1. j # <<>>
          BY <1>1, EmptySeq
        <4> QED
          BY <2>2, <3>1, <4>1 DEF ChainHead
      <3>2. CASE m # Len(j)
        <4>1. m + 1 \in DOMAIN j /\ m + 1 # 1 /\ (m + 1) - 1 = m
          BY <1>1, <3>2
        <4>2. j[m + 1].prev = ChainHash(j[m])
          BY <4>1 DEF Good, VerifyJournal
        <4> QED
          BY <1>2, <2>2, <4>1, <4>2
      <3> QED
        BY <3>1, <3>2
    <2> QED
      BY <2>1, <2>2 DEF Anchored
  <1>4. ChainHead(j) = r.prev => ~PacketExists(j, r.p)
    <2> SUFFICES ASSUME ChainHead(j) = r.prev, NEW m \in DOMAIN j, j[m].p = r.p
                 PROVE  FALSE
      BY DEF PacketExists
    <2>1. Len(r.prev) = Len(j) /\ r.prev[m] = j[m].p
      BY HeadNames
    <2>2. m \in 1..Len(r.prev)
      BY <1>1, <2>1
    <2> QED
      BY <2>1, <2>2 DEF CarriedInv
  <1>5. (\E m \in DOMAIN j : j[m] = r) => PacketExists(j, r.p)
    BY DEF PacketExists
  <1> QED
    BY <1>3, <1>4, <1>5

(* The row at hand is carried, not damaged.                                *)
LEMMA RowAtHand ==
  ASSUME TypeInv, CarriedInv, NEW i \in Task, imp[i].at \in Replaying
  PROVE  /\ imp[i].bag[imp[i].k] \in Carried
         /\ The(i) = imp[i].bag[imp[i].k].p
  <1>1. The(i) \in Packet /\ imp[i].k \in DOMAIN imp[i].bag
    BY TheType
  <1>2. The(i) = imp[i].bag[imp[i].k].p /\ The(i) # Damaged
    BY <1>1, SyncAssumption DEF The
  <1> QED
    BY <1>1, <1>2 DEF CarriedInv

(* What held before still does for a node that held out.                   *)
LEMMA HeldBefore ==
  ASSUME TypeInv, [Next]_vars, NEW n \in Node, Unforked', skipped'[n] = {}
  PROVE  Unforked /\ skipped[n] = {}
  <1>1. Carried \subseteq Carried' /\ skipped[n] \subseteq skipped'[n]
    BY CarriedMoves, Moves
  <1> QED
    BY <1>1 DEF Unforked

LEMMA InitFollow == Init => AnchorInv /\ FollowInv
  BY EmptySeq DEF Init, AnchorInv, FollowInv, Whole, Idle, Over, Replaying

(* The journals of nodes that only import grow by carried rows.            *)
LEMMA FollowStep ==
  TypeInv /\ ChainInv /\ CarriedInv /\ AnchorInv /\ FollowInv /\ [Next]_vars => FollowInv'
  <1> SUFFICES ASSUME TypeInv, ChainInv, CarriedInv, AnchorInv, FollowInv, [Next]_vars,
                      NEW n \in Node \ Writer, Unforked', skipped'[n] = {}
               PROVE  Whole(db[n].journal)' /\ Whole(vault[n].journal)'
    BY DEF FollowInv
  <1>1. Carried \subseteq Carried' /\ Unforked /\ skipped[n] = {}
    BY CarriedMoves, HeldBefore
  <1>2. Whole(db[n].journal) /\ Whole(vault[n].journal)
    BY <1>1 DEF FollowInv
  <1>3. Whole(vault[n].journal)'
    BY <1>1, <1>2, Moves DEF Whole
  <1>4. ASSUME NEW p \in Packet, Source(n, p), db'[n].journal = AddPacket(db[n].journal, p)
        PROVE  Whole(db[n].journal)'
    <2> DEFINE j == db[n].journal
    <2>1. j \in Seq(Row) /\ Good(j) /\ DOMAIN j = 1..Len(j)
      BY LenProperties DEF TypeInv, TypeOK, Data, ChainInv
    <2>2. PICK i \in Task : imp[i].at \in Replaying /\ imp[i].node = n /\ p = The(i)
      BY <1>4, SyncAssumption DEF Source, Replaying
    <2> DEFINE r == imp[i].bag[imp[i].k]
    <2>3. r \in Carried /\ p = r.p /\ r \in Row
      BY <2>2, RowAtHand DEF CarriedInv
    <2>4. Anchored(j, r)
      BY <1>1, <2>2 DEF AnchorInv
    <2>5. CASE PacketExists(j, p)
      <3>1. db'[n].journal = j
        BY <1>4, <2>5 DEF AddPacket
      <3> QED
        BY <1>1, <1>2, <3>1 DEF Whole
    <2>6. CASE ~PacketExists(j, p)
      <3>1. ChainHead(j) = r.prev
        BY <1>1, <1>2, <2>1, <2>3, <2>4, <2>6, NextRow
      <3> HIDE DEF j, r
      <3>2. [p |-> p, prev |-> ChainHead(j)] = r
        BY <2>3, <3>1 DEF Row
      <3>3. /\ AddPacket(j, p) \in Seq(Row) /\ Len(AddPacket(j, p)) = Len(j) + 1
            /\ \A k \in 1..Len(j) : AddPacket(j, p)[k] = j[k]
            /\ AddPacket(j, p)[Len(j) + 1] = r
        BY <2>1, <2>6, <3>2, AddPacketShape
      <3>4. DOMAIN AddPacket(j, p) = 1..Len(j) + 1 /\ Len(j) \in Nat
        BY <2>1, <3>3, LenProperties
      <3>5. \A k \in DOMAIN AddPacket(j, p) : k \in DOMAIN j \/ k = Len(j) + 1
        BY <2>1, <3>4
      <3>6. \A k \in DOMAIN AddPacket(j, p) : AddPacket(j, p)[k] \in Carried
        BY <1>2, <2>1, <2>3, <3>3, <3>5 DEF Whole, j
      <3>7. db'[n].journal = AddPacket(j, p)
        BY <1>4 DEF j
      <3> QED
        BY <1>1, <3>6, <3>7 DEF Whole
    <2> QED
      BY <2>5, <2>6
  <1>5. CASE db'[n].journal = db[n].journal \/ db'[n] = vault[n]
    <2>1. CASE db'[n].journal = db[n].journal
      BY <1>1, <1>2, <1>3, <2>1 DEF Whole
    <2>2. CASE db'[n] = vault[n]
      BY <1>1, <1>2, <1>3, <2>2 DEF Whole
    <2> QED
      BY <1>5, <2>1, <2>2
  <1>6. \/ db'[n].journal = db[n].journal \/ db'[n] = vault[n]
        \/ \E p \in Packet : Source(n, p) /\ db'[n].journal = AddPacket(db[n].journal, p)
    BY Moves
  <1>7. CASE \E p \in Packet : Source(n, p) /\ db'[n].journal = AddPacket(db[n].journal, p)
    <2>1. PICK p \in Packet : Source(n, p) /\ db'[n].journal = AddPacket(db[n].journal, p)
      BY <1>7
    <2> QED
      BY <1>3, <1>4, <2>1
  <1> QED
    BY <1>3, <1>5, <1>6, <1>7

(* How an import comes to be past the known prefix.                        *)
LEMMA ImportMoves ==
  ASSUME TypeInv, [Next]_vars, NEW i \in Task,
         imp'[i].at \in {"check", "done"} \cup Replaying
  PROVE  \/ imp'[i] = imp[i]
         \/ Strip(i) /\ imp'[i].at \in {"check", "done"}
         \/ Check(i)
         \/ Look(i) \/ Find(i) \/ Write(i) \/ JournalRow(i) \/ RowFails(i)
  <1>1. imp \in [Task -> Import]
    BY DEF TypeInv, TypeOK
  <1>2. ASSUME NEW h \in Task, imp' = [imp EXCEPT ![h] = imp'[h]]
        PROVE  h = i \/ imp'[i] = imp[i]
    BY <1>1, <1>2
  <1>3. CASE UNCHANGED imp
    BY <1>3
  <1>4. CASE \E n \in Node : Crash(n)
    BY <1>1, <1>4 DEF Crash, Over, Replaying
  <1>5. ASSUME NEW h \in Task, NEW n \in Node, NEW b \in bags,
               Begin(h, n, b) \/ BeginSpoilt(h, n, b)
        PROVE  imp'[i] = imp[i]
    <2>1. imp' = [imp EXCEPT ![h] = imp'[h]] /\ imp'[h].at = "strip"
      BY <1>5, ReadShape
    <2> QED
      BY <1>2, <2>1 DEF Replaying
  <1>6. ASSUME NEW h \in Task, ImportStep(h)
        PROVE  \/ imp'[i] = imp[i]
               \/ /\ h = i
                  /\ \/ Strip(i) /\ imp'[i].at \in {"check", "done"}
                     \/ Check(i)
                     \/ Look(i) \/ Find(i) \/ Write(i) \/ JournalRow(i) \/ RowFails(i)
    <2>1. CASE Cancel(h)
      BY <1>1, <2>1 DEF Cancel, Over, Replaying
    <2>2. CASE Strip(h)
      <3>1. imp' = [imp EXCEPT ![h] = imp'[h]] /\ imp'[h].at \in {"done", "check"}
        BY <2>2, StripShape
      <3> QED
        BY <1>2, <2>2, <3>1
    <2>3. CASE Check(h)
      BY <1>2, <2>3, CheckShape
    <2>4. CASE Look(h) \/ Find(h) \/ Write(h) \/ JournalRow(h) \/ RowFails(h)
      BY <1>2, <2>4, ReplayShape
    <2> QED
      BY <1>6, <2>1, <2>2, <2>3, <2>4 DEF ImportStep
  <1>7. ASSUME NEW p \in Packet,
               Submit(p) \/ WriteRow(p) \/ Journal(p) \/ RereadFails(p) \/ JournalFails(p)
        PROVE  UNCHANGED imp
    BY <1>7 DEF Submit, WriteRow, Journal, RereadFails, JournalFails
  <1>8. ASSUME NEW n \in Node, Seal(n) \/ \E p \in Packet : Export(n, Ts[p])
        PROVE  UNCHANGED imp
    BY <1>8 DEF Seal, Export
  <1> QED
    BY <1>3, <1>4, <1>5, <1>6, <1>7, <1>8 DEF Next, Times, vars

(* While an import is at a node, the node's journal only grows.            *)
LEMMA Extended ==
  ASSUME TypeInv, [Next]_vars, NEW i \in Task, imp'[i].node \in Node
  PROVE  \A k \in DOMAIN db[imp'[i].node].journal :
           /\ k \in DOMAIN db'[imp'[i].node].journal
           /\ db'[imp'[i].node].journal[k] = db[imp'[i].node].journal[k]
  <1> DEFINE n == imp'[i].node
  <1>1. db[n].journal \in Seq(Row)
    BY DEF TypeInv, TypeOK, Data
  <1>2. \/ db'[n].journal = db[n].journal
        \/ \E p \in Packet : db'[n].journal = AddPacket(db[n].journal, p)
    BY Moves
  <1> HIDE DEF n
  <1>3. ASSUME NEW p \in Packet, db'[n].journal = AddPacket(db[n].journal, p)
        PROVE  \A k \in DOMAIN db[n].journal :
                 k \in DOMAIN db'[n].journal /\ db'[n].journal[k] = db[n].journal[k]
    <2>1. \A k \in DOMAIN db[n].journal :
            /\ k \in DOMAIN AddPacket(db[n].journal, p)
            /\ AddPacket(db[n].journal, p)[k] = db[n].journal[k]
      BY <1>1, AddPacketShape
    <2> QED
      BY <1>3, <2>1
  <1>4. \A k \in DOMAIN db[n].journal :
          k \in DOMAIN db'[n].journal /\ db'[n].journal[k] = db[n].journal[k]
    BY <1>2, <1>3
  <1> QED
    BY <1>4 DEF n

(* A row whose packet was just journalled, or was there, is there itself.  *)
LEMMA RowThere ==
  ASSUME TypeInv, ChainInv, CarriedInv, AnchorInv, FollowInv,
         NEW i \in Task, imp[i].at \in Replaying, imp[i].node \notin Writer,
         Unforked, skipped[imp[i].node] = {}
  PROVE  LET j == db[imp[i].node].journal
             a == AddPacket(j, The(i))
             r == imp[i].bag[imp[i].k] IN
         /\ PacketExists(j, The(i)) => \E m \in DOMAIN j : j[m] = r
         /\ \E m \in DOMAIN a : a[m] = r
  <1> DEFINE j == db[imp[i].node].journal
             r == imp[i].bag[imp[i].k]
             p == The(i)
  <1>1. p \in Packet /\ imp[i].node \in Node /\ j \in Seq(Row) /\ DOMAIN j = 1..Len(j)
    BY TheType, LenProperties
  <1>2. r \in Carried /\ r \in Row /\ p = r.p
    BY RowAtHand DEF CarriedInv
  <1>3. Good(j) /\ Whole(j) /\ Anchored(j, r)
    BY <1>1 DEF ChainInv, FollowInv, AnchorInv
  <1>4. /\ PacketExists(j, p) => \E m \in DOMAIN j : j[m] = r
        /\ ~PacketExists(j, p) => ChainHead(j) = r.prev
    BY <1>1, <1>2, <1>3, NextRow
  <1> HIDE DEF j, r, p
  <1>5. CASE PacketExists(j, p)
    BY <1>4, <1>5 DEF AddPacket, j, r, p
  <1>6. CASE ~PacketExists(j, p)
    <2>1. [p |-> p, prev |-> ChainHead(j)] = r
      BY <1>2, <1>4, <1>6 DEF Row
    <2>2. /\ AddPacket(j, p) \in Seq(Row) /\ Len(AddPacket(j, p)) = Len(j) + 1
          /\ AddPacket(j, p)[Len(j) + 1] = r
      BY <1>1, <1>6, <2>1, AddPacketShape
    <2>3. Len(j) + 1 \in DOMAIN AddPacket(j, p)
      BY <1>1, <2>2, LenProperties
    <2>4. \E m \in DOMAIN AddPacket(j, p) : AddPacket(j, p)[m] = r
      BY <2>2, <2>3
    <2> QED
      BY <1>4, <2>4 DEF j, r, p
  <1> QED
    BY <1>5, <1>6

LEMMA AnchorStep ==
  TypeInv /\ ChainInv /\ CarriedInv /\ AnchorInv /\ FollowInv /\ [Next]_vars => AnchorInv'
  <1> SUFFICES ASSUME TypeInv, ChainInv, CarriedInv, AnchorInv, FollowInv, [Next]_vars,
                      NEW i \in Task, imp'[i].at \in Replaying
               PROVE  /\ Linked(imp'[i].bag, imp'[i].k)
                      /\ Unforked' /\ imp'[i].node \notin Writer /\ skipped'[imp'[i].node] = {} =>
                           Anchored(db'[imp'[i].node].journal, imp'[i].bag[imp'[i].k])
    BY DEF AnchorInv
  <1> DEFINE n == imp'[i].node
             r == imp'[i].bag[imp'[i].k]
  <1>0. n \in Node
    BY TypeStep DEF TypeInv, TypeOK, Replaying
  <1>1. \A k \in DOMAIN db[n].journal :
          k \in DOMAIN db'[n].journal /\ db'[n].journal[k] = db[n].journal[k]
    BY <1>0, Extended
  <1>2. Unforked' /\ skipped'[n] = {} => Unforked /\ skipped[n] = {}
    BY <1>0, HeldBefore
  <1>3. Anchored(db[n].journal, r) => Anchored(db'[n].journal, r)
    BY <1>1 DEF Anchored
  <1>4. CASE imp'[i] = imp[i]
    BY <1>2, <1>3, <1>4 DEF AnchorInv
  <1>5. CASE Check(i)
    <2>1. imp'[i].at # "failed"
      BY DEF Replaying
    <2>2. /\ n = imp[i].node /\ imp'[i].bag = imp[i].bag /\ imp'[i].k = imp[i].k
          /\ ChainHead(db[n].journal) = r.prev /\ Linked(imp'[i].bag, imp'[i].k)
      BY <1>5, <2>1, CheckShape DEF Over, Linked
    <2>3. db[n].journal \in Seq(Row)
      BY <1>0 DEF TypeInv, TypeOK, Data
    <2> HIDE DEF n, r
    <2>4. Anchored(db[n].journal, r)
      <3>1. CASE db[n].journal = <<>>
        BY <2>2, <3>1 DEF ChainHead, Anchored
      <3>2. CASE db[n].journal # <<>>
        <4>1. Len(db[n].journal) \in DOMAIN db[n].journal
          BY <2>3, <3>2, EmptySeq, LenProperties
        <4> QED
          BY <2>2, <3>2, <4>1 DEF ChainHead, Anchored
      <3> QED
        BY <3>1, <3>2
    <2> QED
      BY <1>3, <2>2, <2>4 DEF n, r
  <1>6. CASE Look(i) \/ Find(i) \/ Write(i) \/ JournalRow(i) \/ RowFails(i)
    <2>1. /\ LookStep(i) \/ FindStep(i) \/ WriteStep(i) \/ JournalStep(i) \/ FailStep(i)
          /\ imp[i].at \in Replaying
          /\ imp'[i].bag = imp[i].bag /\ n = imp[i].node
      BY <1>6, ReplayShape
    <2>2. Linked(imp[i].bag, imp[i].k)
      BY <2>1 DEF AnchorInv
    <2>3. CASE Stayed(i)
      BY <1>2, <1>3, <2>1, <2>2, <2>3 DEF Stayed, AnchorInv
    <2>4. CASE Advanced(i)
      <3>1. /\ imp'[i].k = imp[i].k + 1 /\ imp'[i].k \in DOMAIN imp[i].bag
            /\ imp[i].k \in Int /\ imp'[i].k > imp[i].k /\ imp'[i].k - 1 = imp[i].k
        <4>1. imp[i].k \in Int
          BY <2>1, TheType
        <4>2. imp'[i].at # "done"
          BY DEF Replaying
        <4>3. imp'[i].k = imp[i].k + 1 /\ imp'[i].k \in DOMAIN imp'[i].bag
          BY <2>4, <4>2 DEF Advanced
        <4> QED
          BY <2>1, <4>1, <4>3
      <3>2. Linked(imp'[i].bag, imp'[i].k)
        <4>1. \A m \in DOMAIN imp[i].bag : m \in Int
          BY <2>1, TheType
        <4> QED
          BY <2>1, <2>2, <3>1, <4>1 DEF Linked
      <3>3. r.prev = ChainHash(imp[i].bag[imp[i].k])
        BY <2>1, <2>2, <3>1 DEF Linked
      <3>4. ASSUME Unforked', n \notin Writer, skipped'[n] = {}
            PROVE  \E m \in DOMAIN db'[n].journal : db'[n].journal[m] = imp[i].bag[imp[i].k]
        <4>1. Unforked /\ skipped[n] = {}
          BY <1>2, <3>4
        <4>2. /\ PacketExists(db[n].journal, The(i)) =>
                   \E m \in DOMAIN db[n].journal : db[n].journal[m] = imp[i].bag[imp[i].k]
              /\ \E m \in DOMAIN AddPacket(db[n].journal, The(i)) :
                   AddPacket(db[n].journal, The(i))[m] = imp[i].bag[imp[i].k]
          BY <2>1, <3>4, <4>1, RowThere
        <4>3. ~LeftOut(i)
          BY <2>1, <3>4, LeftOutShape
        <4>4. \/ db' = db /\ PacketExists(db[n].journal, The(i))
              \/ db' = [db EXCEPT ![n].journal = AddPacket(db[n].journal, The(i))]
          <5>1. imp'[i].k # imp[i].k
            BY <3>1
          <5> QED
            BY <2>1, <4>3, <5>1
               DEF LookStep, FindStep, WriteStep, JournalStep, FailStep, Stayed
        <4>5. db \in [Node -> Data]
          BY DEF TypeInv, TypeOK
        <4> DEFINE a == AddPacket(db[n].journal, The(i))
        <4> HIDE DEF a, n
        <4>6. CASE db' = db /\ PacketExists(db[n].journal, The(i))
          BY <4>2, <4>6
        <4>7. CASE db' = [db EXCEPT ![n].journal = a]
          <5>1. db'[n].journal = a
            BY <1>0, <4>5, <4>7, JournalOnly
          <5> QED
            BY <4>2, <5>1 DEF a
        <4> QED
          BY <4>4, <4>6, <4>7 DEF a
      <3> QED
        BY <3>2, <3>3, <3>4 DEF Anchored
    <2> QED
      BY <2>1, <2>3, <2>4 DEF LookStep, FindStep, WriteStep, JournalStep, FailStep
  <1>7. ~(imp'[i].at \in {"check", "done"})
    BY DEF Replaying
  <1> QED
    BY <1>4, <1>5, <1>6, <1>7, ImportMoves

-----------------------------------------------------------------------------
(* The report.  The rows before the one an import is at are journalled.    *)
ReportInv ==
  \A i \in Task :
    /\ imp[i].at \in {"check", "done"} \cup Replaying /\ skipped[imp[i].node] = {} =>
         \A m \in DOMAIN imp[i].bag : m < imp[i].k =>
           PacketExists(db[imp[i].node].journal, imp[i].bag[m].p)
    /\ imp[i].at = "done" => \A m \in DOMAIN imp[i].bag : m < imp[i].k

LEMMA InitReport == Init => ReportInv
  BY DEF Init, ReportInv, Idle, Over, Replaying

LEMMA ReportStep == TypeInv /\ ReportInv /\ [Next]_vars => ReportInv'
  <1> SUFFICES ASSUME TypeInv, ReportInv, [Next]_vars, NEW i \in Task,
                      imp'[i].at \in {"check", "done"} \cup Replaying
               PROVE  /\ skipped'[imp'[i].node] = {} =>
                           \A m \in DOMAIN imp'[i].bag : m < imp'[i].k =>
                             PacketExists(db'[imp'[i].node].journal, imp'[i].bag[m].p)
                      /\ imp'[i].at = "done" =>
                           \A m \in DOMAIN imp'[i].bag : m < imp'[i].k
    BY DEF ReportInv
  <1> DEFINE n == imp'[i].node
  <1>1. n \in Node /\ imp'[i] \in Import
    BY TypeStep DEF TypeInv, TypeOK, Replaying
  <1>2. \A p : PacketExists(db[n].journal, p) => PacketExists(db'[n].journal, p)
    BY <1>1, Extended DEF PacketExists
  <1>3. skipped'[n] = {} => skipped[n] = {}
    BY <1>1, Moves
  <1>4. CASE imp'[i] = imp[i]
    BY <1>2, <1>3, <1>4 DEF ReportInv
  <1>5. CASE Strip(i)
    <2>1. /\ n = imp[i].node /\ imp'[i].bag = imp[i].bag
          /\ imp'[i].at = IF imp'[i].k = Len(imp[i].bag) + 1 THEN "done" ELSE "check"
          /\ \A m \in DOMAIN imp[i].bag : m < imp'[i].k =>
               PacketExists(db[n].journal, imp[i].bag[m].p)
      BY <1>5, StripShape
    <2>2. DOMAIN imp'[i].bag = 1..Len(imp'[i].bag) /\ Len(imp'[i].bag) \in Nat
      BY <1>1, LenProperties DEF Import
    <2>3. imp'[i].at = "done" => imp'[i].k = Len(imp'[i].bag) + 1
      BY <2>1
    <2>4. imp'[i].at = "done" => \A m \in DOMAIN imp'[i].bag : m < imp'[i].k
      BY <2>2, <2>3
    <2> QED
      BY <1>2, <2>1, <2>4
  <1>6. CASE Check(i)
    <2>1. /\ n = imp[i].node /\ imp'[i].bag = imp[i].bag /\ imp'[i].k = imp[i].k
          /\ imp'[i].at = "row"
      BY <1>6, CheckShape DEF Over, Replaying
    <2>2. imp[i].at = "check"
      BY <1>6 DEF Check
    <2> QED
      BY <1>2, <1>3, <2>1, <2>2 DEF ReportInv
  <1>7. CASE Look(i) \/ Find(i) \/ Write(i) \/ JournalRow(i) \/ RowFails(i)
    <2>1. /\ LookStep(i) \/ FindStep(i) \/ WriteStep(i) \/ JournalStep(i) \/ FailStep(i)
          /\ imp[i].at \in Replaying
          /\ imp'[i].bag = imp[i].bag /\ n = imp[i].node
      BY <1>7, ReplayShape
    <2>2. /\ imp[i].k \in DOMAIN imp[i].bag /\ The(i) \in Packet
          /\ DOMAIN imp[i].bag = 1..Len(imp[i].bag) /\ Len(imp[i].bag) \in Nat
          /\ db[n].journal \in Seq(Row)
      BY <2>1, TheType
    <2>3. CASE Stayed(i)
      BY <1>2, <1>3, <2>1, <2>3 DEF Stayed, ReportInv
    <2>4. CASE Advanced(i)
      <3>1. imp'[i].k = imp[i].k + 1
        BY <2>4 DEF Advanced
      <3>2. imp'[i].at = "done" => imp[i].k = Len(imp[i].bag)
        BY <2>4 DEF Advanced
      <3>3. imp'[i].at = "done" => \A m \in DOMAIN imp'[i].bag : m < imp'[i].k
        BY <2>1, <2>2, <3>1, <3>2
      <3>4. ASSUME skipped'[n] = {}
            PROVE  PacketExists(db'[n].journal, imp[i].bag[imp[i].k].p)
        <4>1. ~LeftOut(i)
          BY <2>1, <3>4, LeftOutShape
        <4>2. imp'[i].k # imp[i].k
          BY <2>2, <3>1
        <4>3. LookStep(i) \/ JournalStep(i)
          BY <2>1, <4>1, <4>2 DEF FindStep, WriteStep, FailStep, Stayed
        <4>4. CASE LookStep(i)
          BY <1>2, <2>1, <4>2, <4>4 DEF LookStep, Stayed, The
        <4>5. CASE JournalStep(i)
          <5> DEFINE a == AddPacket(db[n].journal, The(i))
          <5>1. PacketExists(a, The(i))
            BY <2>2, AddPacketShape
          <5>2. db' = [db EXCEPT ![n].journal = a] /\ db \in [Node -> Data]
            BY <2>1, <4>5 DEF JournalStep, TypeInv, TypeOK
          <5> HIDE DEF a, n
          <5>3. db'[n].journal = a
            BY <1>1, <5>2, JournalOnly
          <5> QED
            BY <5>1, <5>3 DEF The
        <4> QED
          BY <4>3, <4>4, <4>5
      <3>5. \A m \in DOMAIN imp[i].bag : m < imp'[i].k => m < imp[i].k \/ m = imp[i].k
        BY <2>2, <3>1
      <3>6. ASSUME skipped'[n] = {}, NEW m \in DOMAIN imp[i].bag, m < imp'[i].k
            PROVE  PacketExists(db'[n].journal, imp[i].bag[m].p)
        <4>1. CASE m = imp[i].k
          BY <3>4, <3>6, <4>1
        <4>2. CASE m < imp[i].k
          BY <1>2, <1>3, <2>1, <3>6, <4>2 DEF ReportInv
        <4> QED
          BY <3>5, <3>6, <4>1, <4>2
      <3> QED
        BY <2>1, <3>3, <3>6
    <2> QED
      BY <2>1, <2>3, <2>4 DEF LookStep, FindStep, WriteStep, JournalStep, FailStep
  <1> QED
    BY <1>4, <1>5, <1>6, <1>7, ImportMoves

-----------------------------------------------------------------------------
(* Effects.  The packets of all rows were posted once.                     *)
AllPosted(j) == \A k \in DOMAIN j : post[j[k].p] # "new"
PostedInv ==
  /\ \A n \in Node : AllPosted(db[n].journal) /\ AllPosted(vault[n].journal)
  /\ \A r \in Carried : post[r.p] # "new"

LEMMA InitPosted == Init => PostedInv
  BY EmptySeq DEF Init, PostedInv, AllPosted, Carried

LEMMA SourcePosted ==
  ASSUME TypeInv, CarriedInv, PostedInv, NEW i \in Task, imp[i].at \in Replaying
  PROVE  The(i) \in Packet /\ post[The(i)] # "new"
  BY TheType, RowAtHand DEF PostedInv

LEMMA RowsOf ==
  ASSUME NEW j \in Seq(Row)
  PROVE  \A k \in DOMAIN j : j[k] \in Row /\ j[k].p \in Packet
  <1>1. \A k \in DOMAIN j : j[k] \in Row
    <2>1. DOMAIN j = 1..Len(j) /\ Len(j) \in Nat
      BY LenProperties
    <2> QED
      BY <2>1, ElementOfSeq
  <1> QED
    BY <1>1 DEF Row

(* The rows after a packet was added.                                      *)
LEMMA AddedRows ==
  ASSUME NEW j \in Seq(Row), NEW p \in Packet
  PROVE  \A k \in DOMAIN AddPacket(j, p) :
           \/ k \in DOMAIN j /\ AddPacket(j, p)[k] = j[k]
           \/ AddPacket(j, p)[k].p = p
  <1> DEFINE a == AddPacket(j, p)
  <1>1. CASE PacketExists(j, p)
    BY <1>1 DEF AddPacket
  <1>2. CASE ~PacketExists(j, p)
    <2>1. /\ a \in Seq(Row) /\ Len(a) = Len(j) + 1
          /\ \A k \in 1..Len(j) : a[k] = j[k]
          /\ a[Len(j) + 1] = [p |-> p, prev |-> ChainHead(j)]
      BY <1>2, AddPacketShape
    <2> HIDE DEF a
    <2>2. DOMAIN a = 1..Len(j) + 1 /\ DOMAIN j = 1..Len(j) /\ Len(j) \in Nat
      BY <2>1, LenProperties
    <2>3. a[Len(j) + 1].p = p
      BY <2>1
    <2>4. \A k \in DOMAIN a : (k \in DOMAIN j /\ a[k] = j[k]) \/ a[k].p = p
      BY <2>1, <2>2, <2>3
    <2> QED
      BY <2>4 DEF a
  <1> QED
    BY <1>1, <1>2

LEMMA PostedStep ==
  TypeInv /\ CarriedInv /\ PostedInv /\ [Next]_vars => PostedInv'
  <1> SUFFICES ASSUME TypeInv, CarriedInv, PostedInv, [Next]_vars PROVE PostedInv'
    OBVIOUS
  <1>1. \A p \in Packet : post[p] # "new" => post'[p] # "new"
    BY Moves
  <1>2. \A n \in Node : db[n].journal \in Seq(Row) /\ vault[n].journal \in Seq(Row)
    BY DEF TypeInv, TypeOK, Data
  <1>3. ASSUME NEW j \in Seq(Row), AllPosted(j)
        PROVE  \A k \in DOMAIN j : post'[j[k].p] # "new"
    <2>1. \A k \in DOMAIN j : j[k].p \in Packet
      BY RowsOf
    <2> QED
      BY <1>1, <1>3, <2>1 DEF AllPosted
  <1>4. ASSUME NEW n \in Node PROVE \A k \in DOMAIN vault'[n].journal :
                                      post'[vault'[n].journal[k].p] # "new"
    BY <1>2, <1>3, Moves DEF PostedInv
  <1>5. ASSUME NEW n \in Node PROVE \A k \in DOMAIN db'[n].journal :
                                      post'[db'[n].journal[k].p] # "new"
    <2>1. CASE db'[n].journal = db[n].journal \/ db'[n] = vault[n]
      BY <1>2, <1>3, <2>1 DEF PostedInv
    <2>2. ASSUME NEW p \in Packet, Source(n, p),
                 db'[n].journal = AddPacket(db[n].journal, p)
          PROVE  \A k \in DOMAIN db'[n].journal : post'[db'[n].journal[k].p] # "new"
      <3> DEFINE j == db[n].journal
                 a == AddPacket(j, p)
      <3>1. post'[p] # "new"
        BY <1>1, <2>2, SourcePosted DEF Source, Replaying
      <3>2. j \in Seq(Row) /\ \A k \in DOMAIN j : post'[j[k].p] # "new"
        BY <1>2, <1>3 DEF PostedInv
      <3> HIDE DEF j
      <3>3. \A k \in DOMAIN a : (k \in DOMAIN j /\ a[k] = j[k]) \/ a[k].p = p
        BY <3>2, AddedRows
      <3> QED
        BY <2>2, <3>1, <3>2, <3>3 DEF j
    <2> QED
      BY <2>1, <2>2, Moves
  <1>6. ASSUME NEW r \in Carried' PROVE post'[r.p] # "new"
    <2>1. CASE r \in Carried
      BY <1>1, <2>1 DEF CarriedInv, PostedInv, Row
    <2>2. CASE \E n \in Node : \E m \in DOMAIN db[n].journal : r = db[n].journal[m]
      BY <1>2, <1>3, <2>2 DEF PostedInv
    <2> QED
      BY <2>1, <2>2, CarriedMoves
  <1> QED
    BY <1>4, <1>5, <1>6 DEF PostedInv, AllPosted

(* The effect of a packet on a table, lifted the callsigns whose           *)
(* revocation was taken back.                                              *)
LiftedUsers == {u \in User : Lifted(u)}
Done(t, n, p, lifted) ==
  /\ Kind[p] \in Creations /\ Target[p] = NoTarget => p \in t.live \cup t.gone
  /\ Kind[p] = "chat_create" => t.members[p] # {}
  /\ Kind[p] = "revoke_subscriber" /\ Users[p] \subseteq Registered[n] =>
       Users[p] \subseteq t.revoked \cup lifted

LEMMA DoneIsEffective ==
  ASSUME NEW t, NEW n \in Node, NEW p \in Packet, Done(t, n, p, LiftedUsers)
  PROVE  Effective(t, n, p)
  BY TablesAssumption DEF Done, Effective, LiftedUsers

LEMMA DoneLater ==
  ASSUME NEW t, NEW n, NEW p, NEW x, NEW y, x \subseteq y, Done(t, n, p, x)
  PROVE  Done(t, n, p, y)
  BY DEF Done

(* No later packet undoes it, unless it lifts the revocation.              *)
LEMMA DoneKept ==
  ASSUME NEW t \in Table, NEW n, NEW p \in Packet, NEW q \in Packet, NEW lifted,
         Done(t, n, p, lifted),
         Kind[q] = "unrevoke_subscriber" => Users[q] \subseteq lifted
  PROVE  Done(Written(t, q), n, p, lifted)
  <1>1. t.live \cup t.gone \subseteq Written(t, q).live \cup Written(t, q).gone
    BY DEF Written
  <1>2. t.members[p] # {} => Written(t, q).members[p] # {}
    <2>1. t.members \in [Packet -> SUBSET User]
      BY DEF Table
    <2>2. Kind[q] = "chat_update" => Users[q] # {}
      BY TablesAssumption
    <2>3. Written(t, q).members = MembersAfter(t, q)
      BY DEF Written
    <2> QED
      BY <2>1, <2>2, <2>3 DEF MembersAfter
  <1>3. t.revoked \ lifted \subseteq Written(t, q).revoked
    BY DEF Written, RevokedAfter
  <1> QED
    BY <1>1, <1>2, <1>3 DEF Done

LEMMA DoneByWriting ==
  ASSUME NEW t \in Table, NEW n, NEW p \in Packet, NEW lifted
  PROVE  Done(Written(t, p), n, p, lifted)
  <1>1. Kind[p] \in Creations => p \in Written(t, p).live
    BY DEF Written, Inserted, Dropped, Creations, Deletions
  <1>2. Kind[p] = "chat_create" => Written(t, p).members[p] # {}
    <2>1. t.members \in [Packet -> SUBSET User]
      BY DEF Table
    <2> QED
      BY <2>1 DEF Written, MembersAfter
  <1>3. Kind[p] = "revoke_subscriber" => Users[p] \subseteq Written(t, p).revoked
    BY DEF Written, RevokedAfter
  <1> QED
    BY <1>1, <1>2, <1>3 DEF Done

(* A packet whose target is missing has no effect to wait for.             *)
LEMMA DoneIfMissing ==
  ASSUME NEW t, NEW n, NEW p, NEW lifted, Missing(t, p, Registered[n])
  PROVE  Done(t, n, p, lifted)
  BY DEF Done, Missing, NoOwnRow, NoAlert, NoChat, NoCallsign, Creations, Updates, Deletions, AlertWork, Posts, ChatWork, Revocations

Writing(n, p) ==
  \/ Home[p] = n /\ post[p] = "found"
  \/ \E i \in Task : imp[i].at = "write" /\ imp[i].node = n /\ p = The(i)

(* What a step may do to tables and to the handlers that wrote them.       *)
LEMMA TableMoves ==
  ASSUME TypeInv, [Next]_vars
  PROVE  /\ \A n \in Node :
              \/ db'[n].table = db[n].table
              \/ /\ db'[n] = vault[n]
                 /\ \A i \in Task : imp'[i].node # n
                 /\ \A p \in Packet : Home[p] = n => post'[p] # "written"
              \/ \E p \in Packet : Writing(n, p) /\ db'[n].table = Written(db[n].table, p)
         /\ \A p \in Packet : post'[p] = "written" =>
              \/ post[p] = "written"
              \/ db'[Home[p]].table = Written(db[Home[p]].table, p)
  <1>1. /\ db \in [Node -> Data] /\ post \in [Packet -> Stages]
        /\ Home \in [Packet -> Node]
    BY SyncAssumption DEF TypeInv, TypeOK
  <1>2. CASE UNCHANGED vars
    BY <1>2 DEF vars
  <1>3. ASSUME NEW p \in Packet, WriteRow(p)
        PROVE  /\ \A n \in Node :
                    \/ db'[n].table = db[n].table
                    \/ Home[p] = n /\ post[p] = "found" /\ db'[n].table = Written(db[n].table, p)
               /\ \A q \in Packet : post'[q] = "written" =>
                    \/ post[q] = "written"
                    \/ db'[Home[q]].table = Written(db[Home[q]].table, q)
    <2> DEFINE w == Written(db[Home[p]].table, p)
    <2>1. \/ db' = db /\ post' = [post EXCEPT ![p] = "done"]
          \/ db' = [db EXCEPT ![Home[p]].table = w] /\ post' = [post EXCEPT ![p] = "written"]
      BY <1>3 DEF WriteRow
    <2>2. post[p] = "found"
      BY <1>3 DEF WriteRow
    <2> HIDE DEF w
    <2>3. CASE db' = db /\ post' = [post EXCEPT ![p] = "done"]
      BY <1>1, <2>3
    <2>4. CASE db' = [db EXCEPT ![Home[p]].table = w] /\ post' = [post EXCEPT ![p] = "written"]
      <3>1. \A n \in Node : db'[n].table = IF n = Home[p] THEN w ELSE db[n].table
        BY <1>1, <2>4, TableOnly
      <3>2. \A q \in Packet : post'[q] = "written" => q = p \/ post[q] = "written"
        BY <1>1, <2>4
      <3> QED
        BY <1>1, <2>2, <3>1, <3>2 DEF w
    <2> QED
      BY <2>1, <2>3, <2>4
  <1>4. ASSUME NEW p \in Packet, Submit(p) \/ Journal(p) \/ RereadFails(p) \/ JournalFails(p)
        PROVE  /\ \A n \in Node : db'[n].table = db[n].table
               /\ \A q \in Packet : post'[q] = "written" => post[q] = "written"
    <2>1. \A q \in Packet : post'[q] = "written" => post[q] = "written"
      BY <1>1, <1>4 DEF Submit, Journal, RereadFails, JournalFails
    <2>2. CASE Submit(p) \/ RereadFails(p) \/ JournalFails(p)
      BY <2>1, <2>2 DEF Submit, RereadFails, JournalFails
    <2>3. CASE Journal(p)
      <3> DEFINE a == AddPacket(db[Home[p]].journal, p)
      <3>1. db' = [db EXCEPT ![Home[p]].journal = a]
        BY <2>3 DEF Journal
      <3> HIDE DEF a
      <3> QED
        BY <1>1, <2>1, <3>1, JournalOnly
    <2> QED
      BY <1>4, <2>2, <2>3
  <1>5. ASSUME NEW n \in Node, Seal(n) \/ \E p \in Packet : Export(n, Ts[p])
        PROVE  UNCHANGED <<db, post>>
    BY <1>5 DEF Seal, Export
  <1>6. ASSUME NEW n \in Node, Crash(n)
        PROVE  /\ \A m \in Node :
                    \/ db'[m] = db[m]
                    \/ /\ db'[m] = vault[m] /\ \A i \in Task : imp'[i].node # m
                       /\ \A p \in Packet : Home[p] = m => post'[p] # "written"
               /\ \A q \in Packet : post'[q] = "written" => post[q] = "written"
    <2>1. \A i \in Task : imp'[i].node # n
      BY <1>6, SyncAssumption DEF Crash, Over
    <2>2. \A m \in Node : db'[m] = db[m] \/ (m = n /\ db'[m] = vault[m])
      BY <1>1, <1>6 DEF Crash
    <2>3. \A p \in Packet : /\ Home[p] = n => post'[p] # "written"
                            /\ post'[p] = "written" => post[p] = "written"
      BY <1>1, <1>6 DEF Crash
    <2> QED
      BY <2>1, <2>2, <2>3
  <1>7. ASSUME NEW i \in Task, NEW n \in Node, NEW b \in bags,
               Begin(i, n, b) \/ BeginSpoilt(i, n, b)
        PROVE  UNCHANGED <<db, post>>
    BY <1>7 DEF Begin, BeginSpoilt, Read
  <1>8. ASSUME NEW i \in Task, Strip(i) \/ Check(i) \/ Cancel(i)
        PROVE  UNCHANGED <<db, post>>
    BY <1>8 DEF Strip, Check, Cancel
  <1>9. ASSUME NEW i \in Task,
               Look(i) \/ Find(i) \/ Write(i) \/ JournalRow(i) \/ RowFails(i)
        PROVE  /\ UNCHANGED post /\ The(i) \in Packet
               /\ \A n \in Node :
                    \/ db'[n].table = db[n].table
                    \/ /\ n = imp[i].node /\ imp[i].at = "write"
                       /\ db'[n].table = Written(db[n].table, The(i))
    <2>1. /\ LookStep(i) \/ FindStep(i) \/ WriteStep(i) \/ JournalStep(i) \/ FailStep(i)
          /\ imp[i].at \in Replaying /\ UNCHANGED post
      BY <1>9, ReplayShape
    <2>2. The(i) \in Packet /\ imp[i].node \in Node
      BY <2>1, TheType
    <2> DEFINE w == Written(db[imp[i].node].table, The(i))
               a == AddPacket(db[imp[i].node].journal, The(i))
    <2>3. \/ db' = db \/ db' = [db EXCEPT ![imp[i].node].journal = a]
          \/ imp[i].at = "write" /\ db' = [db EXCEPT ![imp[i].node].table = w]
      BY <2>1 DEF LookStep, FindStep, WriteStep, JournalStep, FailStep
    <2> HIDE DEF w, a
    <2>4. \A n \in Node :
            \/ db'[n].table = db[n].table
            \/ n = imp[i].node /\ imp[i].at = "write" /\ db'[n].table = w
      <3>1. CASE db' = db
        BY <3>1
      <3>2. CASE db' = [db EXCEPT ![imp[i].node].journal = a]
        BY <1>1, <2>2, <3>2, JournalOnly
      <3>3. CASE imp[i].at = "write" /\ db' = [db EXCEPT ![imp[i].node].table = w]
        BY <1>1, <2>2, <3>3, TableOnly
      <3> QED
        BY <2>3, <3>1, <3>2, <3>3
    <2> QED
      BY <2>1, <2>2, <2>4 DEF w
  <1>10. CASE \E p \in Packet : \/ Submit(p) \/ WriteRow(p) \/ Journal(p)
                              \/ RereadFails(p) \/ JournalFails(p)
    BY <1>3, <1>4, <1>10 DEF Writing
  <1>11. CASE \E n \in Node : Seal(n) \/ Crash(n)
    BY <1>5, <1>6, <1>11
  <1>12. CASE \E n \in Node, p \in Packet : Export(n, Ts[p])
    BY <1>5, <1>12
  <1>13. CASE \E i \in Task, n \in Node : \E b \in bags : Begin(i, n, b) \/ BeginSpoilt(i, n, b)
    BY <1>7, <1>13
  <1>14. CASE \E i \in Task : ImportStep(i)
    BY <1>8, <1>9, <1>14 DEF ImportStep, Writing
  <1> QED
    BY <1>2, <1>10, <1>11, <1>12, <1>13, <1>14 DEF Next, Times

(* Every packet in a journal or on its way there had its effect.           *)
AllDone(d, n) ==
  \A k \in DOMAIN d.journal : Done(d.table, n, d.journal[k].p, LiftedUsers)
EffectInv ==
  /\ \A n \in Node : AllDone(db[n], n) /\ AllDone(vault[n], n)
  /\ \A p \in Packet : post[p] = "written" =>
       Done(db[Home[p]].table, Home[p], p, LiftedUsers)
  /\ \A i \in Task : imp[i].at = "journal" =>
       Done(db[imp[i].node].table, imp[i].node, The(i), LiftedUsers)

LEMMA InitEffect == Init => EffectInv
  BY EmptySeq DEF Init, EffectInv, AllDone, Idle, Over

(* What is done at a node stays done, but for a crash.                     *)
LEMMA DoneStays ==
  ASSUME TypeInv, CarriedInv, PostedInv, [Next]_vars, NEW n \in Node
  PROVE  \/ /\ db'[n] = vault[n]
            /\ \A i \in Task : imp'[i].node # n
            /\ \A p \in Packet : Home[p] = n => post'[p] # "written"
         \/ \A p \in Packet : Done(db[n].table, n, p, LiftedUsers) =>
                              Done(db'[n].table, n, p, LiftedUsers')
  <1>1. LiftedUsers \subseteq LiftedUsers'
    BY Moves DEF LiftedUsers, Lifted
  <1>2. db[n].table \in Table
    BY DEF TypeInv, TypeOK, Data
  <1>3. ASSUME NEW q \in Packet, Writing(n, q)
        PROVE  Kind[q] = "unrevoke_subscriber" => Users[q] \subseteq LiftedUsers
    <2>1. post[q] # "new"
      BY <1>3, SourcePosted DEF Writing, Replaying
    <2> QED
      BY <2>1, TablesAssumption DEF LiftedUsers, Lifted
  <1>4. CASE db'[n].table = db[n].table
    BY <1>1, <1>4, DoneLater
  <1>5. ASSUME NEW q \in Packet, Writing(n, q), db'[n].table = Written(db[n].table, q)
        PROVE  \A p \in Packet : Done(db[n].table, n, p, LiftedUsers) =>
                                 Done(db'[n].table, n, p, LiftedUsers')
    <2>1. \A p \in Packet : Done(db[n].table, n, p, LiftedUsers) =>
                            Done(Written(db[n].table, q), n, p, LiftedUsers)
      BY <1>2, <1>3, <1>5, DoneKept
    <2> QED
      BY <1>1, <1>5, <2>1, DoneLater
  <1> QED
    BY <1>4, <1>5, TableMoves

LEMMA EffectStep ==
  TypeInv /\ CarriedInv /\ PostedInv /\ EffectInv /\ [Next]_vars => EffectInv'
  <1> SUFFICES ASSUME TypeInv, CarriedInv, PostedInv, EffectInv, [Next]_vars
               PROVE  EffectInv'
    OBVIOUS
  <1>1. LiftedUsers \subseteq LiftedUsers'
    BY Moves DEF LiftedUsers, Lifted
  <1>2. \A n \in Node : /\ db[n].table \in Table
                        /\ db[n].journal \in Seq(Row) /\ vault[n].journal \in Seq(Row)
    BY DEF TypeInv, TypeOK, Data
  <1>3. \A n \in Node : \A k \in DOMAIN db[n].journal : db[n].journal[k].p \in Packet
    BY <1>2, RowsOf
  <1>4. ASSUME NEW n \in Node
        PROVE  \A k \in DOMAIN vault[n].journal :
                 Done(vault[n].table, n, vault[n].journal[k].p, LiftedUsers')
    BY <1>1, DoneLater DEF EffectInv, AllDone
  <1>5. ASSUME NEW n \in Node
        PROVE  \A k \in DOMAIN vault'[n].journal :
                 Done(vault'[n].table, n, vault'[n].journal[k].p, LiftedUsers')
    <2>1. CASE vault'[n] = vault[n]
      BY <1>4, <2>1
    <2>2. CASE vault'[n] = db[n]
      BY <1>1, <2>2, DoneLater DEF EffectInv, AllDone
    <2> QED
      BY <2>1, <2>2, Moves
  <1>6. ASSUME NEW n \in Node
        PROVE  \A k \in DOMAIN db'[n].journal :
                 Done(db'[n].table, n, db'[n].journal[k].p, LiftedUsers')
    <2>1. CASE db'[n] = vault[n]
      BY <1>4, <2>1
    <2>2. CASE db'[n] # vault[n]
      <3>1. \A p \in Packet : Done(db[n].table, n, p, LiftedUsers) =>
                              Done(db'[n].table, n, p, LiftedUsers')
        BY <2>2, DoneStays
      <3>2. \A k \in DOMAIN db[n].journal :
              Done(db'[n].table, n, db[n].journal[k].p, LiftedUsers')
        BY <1>3, <3>1 DEF EffectInv, AllDone
      <3>3. CASE db'[n].journal = db[n].journal
        BY <3>2, <3>3
      <3>4. ASSUME NEW p \in Packet, Source(n, p),
                   db'[n].journal = AddPacket(db[n].journal, p)
            PROVE  \A k \in DOMAIN db'[n].journal :
                     Done(db'[n].table, n, db'[n].journal[k].p, LiftedUsers')
        <4>1. Done(db[n].table, n, p, LiftedUsers)
          BY <3>4 DEF EffectInv, Source
        <4>2. Done(db'[n].table, n, p, LiftedUsers')
          BY <3>1, <4>1
        <4>3. \A k \in DOMAIN db'[n].journal :
                \/ k \in DOMAIN db[n].journal /\ db'[n].journal[k] = db[n].journal[k]
                \/ db'[n].journal[k].p = p
          BY <1>2, <3>4, AddedRows
        <4> QED
          BY <3>2, <4>2, <4>3
      <3> QED
        BY <2>2, <3>3, <3>4, Moves
    <2> QED
      BY <2>1, <2>2
  <1>7. ASSUME NEW p \in Packet, post'[p] = "written"
        PROVE  Done(db'[Home[p]].table, Home[p], p, LiftedUsers')
    <2>1. Home[p] \in Node
      BY SyncAssumption
    <2>2. CASE post[p] = "written"
      BY <1>7, <2>1, <2>2, DoneStays DEF EffectInv
    <2>3. CASE db'[Home[p]].table = Written(db[Home[p]].table, p)
      BY <1>2, <2>1, <2>3, DoneByWriting
    <2> QED
      BY <1>7, <2>2, <2>3, TableMoves
  <1>8. ASSUME NEW i \in Task, imp'[i].at = "journal"
        PROVE  Done(db'[imp'[i].node].table, imp'[i].node, The(i)', LiftedUsers')
    <2>1. CASE imp'[i] = imp[i]
      <3>1. imp[i].node \in Node /\ The(i) \in Packet /\ The(i)' = The(i)
        BY <1>8, <2>1, TheType DEF The, Replaying
      <3>2. Done(db[imp[i].node].table, imp[i].node, The(i), LiftedUsers)
        BY <1>8, <2>1 DEF EffectInv
      <3> QED
        BY <2>1, <3>1, <3>2, DoneStays
    <2>2. CASE Strip(i) \/ Check(i)
      BY <1>8, <2>2, StripShape, CheckShape DEF Over
    <2>3. CASE Look(i) \/ Find(i) \/ Write(i) \/ JournalRow(i) \/ RowFails(i)
      <3> DEFINE n == imp[i].node
                 t == db[n].table
      <3>1. /\ LookStep(i) \/ FindStep(i) \/ WriteStep(i) \/ JournalStep(i) \/ FailStep(i)
            /\ imp[i].at \in Replaying
            /\ imp'[i].bag = imp[i].bag /\ imp'[i].node = n
        BY <2>3, ReplayShape
      <3>2. n \in Node /\ The(i) \in Packet /\ t \in Table
        BY <3>1, TheType
      <3>3. FindStep(i) \/ WriteStep(i)
        BY <1>8, <3>1 DEF LookStep, JournalStep, FailStep, Advanced, Stayed
      <3>4. imp'[i].k = imp[i].k
        BY <1>8, <3>3 DEF FindStep, WriteStep, Advanced, Stayed
      <3>5. The(i)' = The(i)
        BY <3>1, <3>4 DEF The
      <3>6. \/ db' = db /\ Missing(t, The(i), Registered[n])
            \/ db' = [db EXCEPT ![n].table = Written(t, The(i))]
        BY <1>8, <3>3 DEF FindStep, WriteStep, Advanced
      <3>7. CASE db' = db /\ Missing(t, The(i), Registered[n])
        BY <3>1, <3>5, <3>7, DoneIfMissing
      <3>8. CASE db' = [db EXCEPT ![n].table = Written(t, The(i))]
        <4> DEFINE w == Written(t, The(i))
        <4>1. Done(w, n, The(i), LiftedUsers')
          BY <3>2, DoneByWriting
        <4>2. db \in [Node -> Data] /\ db' = [db EXCEPT ![n].table = w]
          BY <3>8 DEF TypeInv, TypeOK
        <4> HIDE DEF w, n
        <4>3. db'[n].table = w
          BY <3>2, <4>2, TableOnly
        <4> QED
          BY <3>1, <3>5, <4>1, <4>3
      <3> QED
        BY <3>6, <3>7, <3>8
    <2> QED
      BY <1>8, <2>1, <2>2, <2>3, ImportMoves DEF Replaying
  <1> QED
    BY <1>5, <1>6, <1>7, <1>8 DEF EffectInv, AllDone

-----------------------------------------------------------------------------
(* Authority.  More packets posted take no entitlement away.               *)
LEMMA EntitledLater ==
  ASSUME NEW ps, NEW qs, ps \subseteq qs
  PROVE  /\ \A p \in Packet : Entitled(p, ps) => Entitled(p, qs)
         /\ \A t \in Table : Warranted(t, ps) => Warranted(t, qs)
  <1>1. \A p : Entitled(p, ps) => Entitled(p, qs)
    BY DEF Entitled
  <1>2. ASSUME NEW t \in Table, Warranted(t, ps) PROVE Warranted(t, qs)
    BY <1>1, <1>2 DEF Warranted
  <1> QED
    BY <1>1, <1>2

(* What a packet whose handler has looked up is entitled to: it may lack   *)
(* only that it counts as posted.                                          *)
Rightful(p, ps) ==
  /\ Entitled(p, ps \cup {p})
  /\ Kind[p] \in Deletions \cup {"alert_clear"} \cup ChatWork =>
       Target[p] \in Packet /\ Entitled(Target[p], ps)

LEMMA LookedUp ==
  ASSUME NEW t \in Table, NEW ps \in SUBSET Packet, Warranted(t, ps), NEW p \in Packet,
         NEW known, ~Refused(t, p), ~Missing(t, p, known)
  PROVE  Rightful(p, ps)
  <1>1. Kind[p] \in AdminOnly => Sender[p] \in Admin
    BY DEF Refused, NotAnAdmin
  <1>2. Kind[p] \in Updates \cup Deletions => Own(p) /\ Target[p] \in t.live
    BY DEF Missing, NoOwnRow
  <1>3. Kind[p] = "alert_clear" => Target[p] \in t.live /\ (Own(p) \/ Sender[p] \in Admin)
    BY DEF Missing, NoAlert, AlertWork, Refused, NotTheAuthor
  <1>4. ASSUME Kind[p] \in Posts, Target[p] # NoTarget
        PROVE  \E q \in ps : Sender[q] \in Admin /\ Puts(q, Sender[p], Target[p])
    <2>1. Target[p] \in Chats(t)
      BY <1>4 DEF Missing, NoChat
    <2>2. Sender[p] \in t.members[Target[p]] /\ Target[p] \in Packet
      BY <1>4, <2>1 DEF Refused, NotAMember, Chats
    <2>3. PICK q \in ps : Entitled(q, ps) /\ Puts(q, Sender[p], Target[p])
      BY <2>2 DEF Warranted
    <2>4. Kind[q] \in AdminOnly
      BY <2>3 DEF Puts, AdminOnly, ChatWork
    <2> QED
      BY <2>3, <2>4 DEF Entitled
  <1>5. ASSUME Kind[p] \in ChatWork
        PROVE  Target[p] \in Packet /\ Entitled(Target[p], ps)
    <2>1. Target[p] \in Chats(t)
      BY <1>5 DEF Missing, NoChat
    <2>2. Target[p] \in Packet /\ t.members[Target[p]] # {}
      BY <2>1 DEF Chats
    <2> QED
      BY <2>2 DEF Warranted
  <1>6. t.live \subseteq Packet /\ \A x \in t.live : Entitled(x, ps)
    BY DEF Table, Warranted
  <1>7. Entitled(p, ps \cup {p})
    BY <1>1, <1>2, <1>3, <1>4 DEF Entitled
  <1> QED
    BY <1>2, <1>3, <1>5, <1>6, <1>7 DEF Rightful

(* What a rightful packet writes leaves a table warranted.                 *)
LEMMA WrittenWarranted ==
  ASSUME NEW t \in Table, NEW ps \in SUBSET Packet, Warranted(t, ps), NEW p \in ps,
         Rightful(p, ps)
  PROVE  Warranted(Written(t, p), ps)
  <1> DEFINE w == Written(t, p)
  <1>1. Entitled(p, ps)
    <2>1. ps \cup {p} = ps
      OBVIOUS
    <2> QED
      BY <2>1 DEF Rightful
  <1>2. /\ w.live \subseteq t.live \cup Inserted(p) /\ w.gone = t.gone \cup Dropped(p)
        /\ w.members = MembersAfter(t, p) /\ w.revoked = RevokedAfter(t, p)
    BY DEF Written
  <1> HIDE DEF w
  <1>3. \A x \in Dropped(p) : Entitled(x, ps)
    BY DEF Dropped, Rightful, ChatWork
  <1>4. \A x \in w.live \cup w.gone : Entitled(x, ps)
    BY <1>1, <1>2, <1>3 DEF Inserted, Warranted
  <1>5. \A x \in w.gone : \E q \in ps : Entitled(q, ps) /\ x \in Dropped(q)
    BY <1>1, <1>2 DEF Warranted
  <1>6. ASSUME NEW c \in Packet, NEW u \in w.members[c]
        PROVE  Entitled(c, ps) /\ \E q \in ps : Entitled(q, ps) /\ Puts(q, u, c)
    <2>0. t.members \in [Packet -> SUBSET User]
      BY DEF Table
    <2>1. CASE u \in t.members[c]
      BY <2>1 DEF Warranted
    <2>2. CASE Kind[p] = "chat_create" /\ c = p
      <3>1. u \in Users[p] \cup {Sender[p]}
        BY <1>2, <1>6, <2>0, <2>2 DEF MembersAfter
      <3> QED
        BY <1>1, <2>2, <3>1 DEF Puts
    <2>3. CASE Kind[p] = "chat_update" /\ c = Target[p]
      <3>1. u \in Users[p]
        BY <1>2, <1>6, <2>0, <2>3 DEF MembersAfter
      <3>2. Entitled(c, ps)
        BY <2>3 DEF Rightful, ChatWork
      <3> QED
        BY <1>1, <2>3, <3>1, <3>2 DEF Puts
    <2> QED
      BY <1>2, <1>6, <2>0, <2>1, <2>2, <2>3 DEF MembersAfter
  <1>7. \A u \in w.revoked : \E q \in ps :
          Entitled(q, ps) /\ Kind[q] = "revoke_subscriber" /\ u \in Users[q]
    BY <1>1, <1>2 DEF RevokedAfter, Warranted
  <1>8. Warranted(w, ps)
    BY <1>4, <1>5, <1>6, <1>7 DEF Warranted
  <1> QED
    BY <1>8 DEF w

(* Tables and vaults are warranted, and who is about to write may.         *)
AuthorInv ==
  /\ \A n \in Node : Warranted(db[n].table, Posted) /\ Warranted(vault[n].table, Posted)
  /\ \A p \in Packet : post[p] = "found" => Rightful(p, Posted)
  /\ \A i \in Task : imp[i].at = "write" => Rightful(The(i), Posted)

LEMMA InitAuthor == Init => AuthorInv
  <1>1. Warranted(EmptyTable, Posted)
    BY DEF Warranted, EmptyTable
  <1> QED
    BY <1>1 DEF Init, AuthorInv, Idle, Over

LEMMA RightfulLater ==
  ASSUME NEW ps, NEW qs, ps \subseteq qs, NEW p \in Packet, Rightful(p, ps)
  PROVE  Rightful(p, qs)
  <1>1. ps \cup {p} \subseteq qs \cup {p}
    OBVIOUS
  <1> QED
    BY <1>1, EntitledLater DEF Rightful

(* A handler or a replay gets to its write only by way of its lookup.      *)
LEMMA FoundBySubmit ==
  ASSUME TypeInv, [Next]_vars, NEW p \in Packet, post'[p] = "found"
  PROVE  post[p] = "found" \/ Submit(p)
  <1>1. post \in [Packet -> Stages]
    BY DEF TypeInv, TypeOK
  <1>2. ASSUME NEW q \in Packet, Submit(q)
        PROVE  q = p \/ post[p] = "found"
    BY <1>1, <1>2 DEF Submit
  <1>3. ASSUME NEW q \in Packet, WriteRow(q) \/ Journal(q) \/ RereadFails(q) \/ JournalFails(q)
        PROVE  post[p] = "found"
    BY <1>1, <1>3 DEF WriteRow, Journal, RereadFails, JournalFails
  <1>4. ASSUME NEW n \in Node, Seal(n) \/ Crash(n) \/ \E q \in Packet : Export(n, Ts[q])
        PROVE  post[p] = "found"
    BY <1>1, <1>4 DEF Seal, Crash, Export
  <1>5. ASSUME NEW i \in Task, NEW n \in Node, NEW b \in bags,
               Begin(i, n, b) \/ BeginSpoilt(i, n, b)
        PROVE  UNCHANGED post
    BY <1>5 DEF Begin, BeginSpoilt, Read
  <1>6. ASSUME NEW i \in Task, ImportStep(i)
        PROVE  UNCHANGED post
    BY <1>6 DEF ImportStep, Strip, Check, Look, Find, Write, JournalRow, RowFails, Cancel
  <1>7. CASE UNCHANGED vars
    BY <1>7 DEF vars
  <1> QED
    BY <1>2, <1>3, <1>4, <1>5, <1>6, <1>7 DEF Next, Times

LEMMA FoundRow ==
  ASSUME TypeInv, NEW i \in Task, imp[i].at = "find", imp'[i].at = "write",
         Look(i) \/ Find(i) \/ Write(i) \/ JournalRow(i) \/ RowFails(i)
  PROVE  /\ ~Refused(db[imp[i].node].table, The(i))
         /\ ~Missing(db[imp[i].node].table, The(i), Registered[imp[i].node])
  <1>1. imp \in [Task -> Import] /\ imp[i].at \in Replaying
    BY DEF TypeInv, TypeOK, Replaying
  <1>2. ~Onward(i)
    BY <1>1, SoundOnward
  <1>3. Find(i)
    BY <1>2 DEF Look, Write, JournalRow, RowFails
  <1>4. /\ ~Refused(db[imp[i].node].table, The(i))
        /\ imp' = [imp EXCEPT ![i].at =
             IF Missing(db[imp[i].node].table, The(i), Registered[imp[i].node])
             THEN "journal" ELSE "write"]
    BY <1>2, <1>3 DEF Find
  <1> QED
    BY <1>1, <1>4 DEF Import

LEMMA AuthorStep ==
  TypeInv /\ CarriedInv /\ PostedInv /\ AuthorInv /\ [Next]_vars => AuthorInv'
  <1> SUFFICES ASSUME TypeInv, CarriedInv, PostedInv, AuthorInv, [Next]_vars
               PROVE  AuthorInv'
    OBVIOUS
  <1>1. Posted \subseteq Posted' /\ Posted \in SUBSET Packet /\ Posted' \in SUBSET Packet
    BY Moves DEF Posted
  <1>2. \A n \in Node : db[n].table \in Table /\ vault[n].table \in Table
    BY DEF TypeInv, TypeOK, Data
  <1>3. ASSUME NEW n \in Node
        PROVE  Warranted(db[n].table, Posted') /\ Warranted(vault[n].table, Posted')
    BY <1>1, <1>2, EntitledLater DEF AuthorInv
  <1>4. ASSUME NEW n \in Node PROVE Warranted(vault'[n].table, Posted')
    BY <1>3, Moves
  <1>5. ASSUME NEW n \in Node PROVE Warranted(db'[n].table, Posted')
    <2>1. CASE db'[n].table = db[n].table \/ db'[n] = vault[n]
      BY <1>3, <2>1
    <2>2. ASSUME NEW p \in Packet, Writing(n, p), db'[n].table = Written(db[n].table, p)
          PROVE  Warranted(db'[n].table, Posted')
      <3>1. post[p] # "new" /\ Rightful(p, Posted)
        BY <2>2, SourcePosted DEF Writing, AuthorInv, Replaying
      <3>2. p \in Posted' /\ Rightful(p, Posted')
        BY <1>1, <3>1, RightfulLater DEF Posted
      <3> QED
        BY <1>1, <1>2, <1>3, <2>2, <3>2, WrittenWarranted
    <2> QED
      BY <2>1, <2>2, TableMoves
  <1>6. ASSUME NEW p \in Packet, post'[p] = "found" PROVE Rightful(p, Posted')
    <2>1. CASE post[p] = "found"
      BY <1>1, <2>1, RightfulLater DEF AuthorInv
    <2>2. CASE Submit(p)
      <3>1. Home[p] \in Node
        BY SyncAssumption
      <3>2. ~Refused(db[Home[p]].table, p) /\ ~Missing(db[Home[p]].table, p, Registered[Home[p]])
        BY <1>6, <2>2 DEF Submit, TypeInv, TypeOK
      <3> QED
        BY <1>1, <1>2, <3>1, <3>2, LookedUp, RightfulLater DEF AuthorInv
    <2> QED
      BY <1>6, <2>1, <2>2, FoundBySubmit
  <1>7. ASSUME NEW i \in Task, imp'[i].at = "write" PROVE Rightful(The(i)', Posted')
    <2>1. CASE imp'[i] = imp[i]
      <3>1. The(i)' = The(i) /\ The(i) \in Packet
        BY <1>7, <2>1, TheType DEF The, Replaying
      <3> QED
        BY <1>1, <1>7, <2>1, <3>1, RightfulLater DEF AuthorInv
    <2>2. CASE Strip(i) \/ Check(i)
      BY <1>7, <2>2, StripShape, CheckShape DEF Over
    <2>3. CASE Look(i) \/ Find(i) \/ Write(i) \/ JournalRow(i) \/ RowFails(i)
      <3>1. /\ LookStep(i) \/ FindStep(i) \/ WriteStep(i) \/ JournalStep(i) \/ FailStep(i)
            /\ imp[i].at \in Replaying
            /\ imp'[i].bag = imp[i].bag
        BY <2>3, ReplayShape
      <3>2. imp[i].at = "find" /\ Stayed(i)
        BY <1>7, <3>1 DEF LookStep, FindStep, WriteStep, JournalStep, FailStep, Advanced
      <3>3. The(i)' = The(i)
        BY <3>1, <3>2 DEF The, Stayed
      <3>4. /\ The(i) \in Packet /\ imp[i].node \in Node
        BY <3>1, TheType
      <3>5. /\ ~Refused(db[imp[i].node].table, The(i))
            /\ ~Missing(db[imp[i].node].table, The(i), Registered[imp[i].node])
        BY <1>7, <2>3, <3>1, <3>2, FoundRow
      <3> QED
        BY <1>1, <1>2, <3>3, <3>4, <3>5, LookedUp, RightfulLater DEF AuthorInv
    <2> QED
      BY <1>7, <2>1, <2>2, <2>3, ImportMoves DEF Replaying
  <1> QED
    BY <1>4, <1>5, <1>6, <1>7 DEF AuthorInv

SyncInv ==
  /\ TypeInv /\ ChainInv /\ CarriedInv /\ AnchorInv /\ FollowInv
  /\ ReportInv /\ PostedInv /\ EffectInv /\ AuthorInv

LEMMA SyncInvariant == Spec => []SyncInv
  <1>1. Init => SyncInv
    BY InitType, InitChain, InitCarried, InitFollow, InitReport, InitPosted, InitEffect,
       InitAuthor
    DEF SyncInv
  <1>2. SyncInv /\ [Next]_vars => SyncInv'
    BY TypeStep, ChainStep, CarriedStep, AnchorStep, FollowStep, ReportStep, PostedStep,
       EffectStep, AuthorStep DEF SyncInv
  <1> QED
    BY <1>1, <1>2, PTL DEF Spec

(* Every journal row of a node that only imports was exported, with all    *)
(* that is chained before it, while no row was left out and no history     *)
(* forked.                                                                 *)
THEOREM ImportersFollow == Spec => []Follows
  <1>1. SyncInv => Follows
    BY DEF SyncInv, FollowInv, Follows, Whole
  <1> QED
    BY <1>1, SyncInvariant, PTL

(* A set of numbers has a least one.                                       *)
LEMMA Least ==
  ASSUME NEW K, K \subseteq Nat, K # {}
  PROVE  \E k \in K : \A m \in K : k <= m
  <1> DEFINE R == {ss \in Nat \X Nat : ss[1] < ss[2]}
  <1>1. IsWellFoundedOn(R, Nat)
    BY NatLessThanWellFounded DEF OpToRel
  <1>2. PICK k \in K : \A m \in K : <<m, k>> \notin R
    <2> HIDE DEF R
    <2> QED
      BY <1>1, WFMin
  <1>3. \A m \in K : ~(m < k)
    BY <1>2
  <1> QED
    BY <1>3

(* Two journals that chain, and whose rows are carried ones, agree while   *)
(* no two carried rows follow the same row: where they first differed, the *)
(* two rows would.                                                         *)
LEMMA SameRows ==
  ASSUME Unforked, NEW j \in Seq(Row), NEW h \in Seq(Row),
         VerifyJournal(j), VerifyJournal(h), Whole(j), Whole(h)
  PROVE  \A k \in DOMAIN j \cap DOMAIN h : j[k] = h[k]
  <1> DEFINE K == {k \in DOMAIN j \cap DOMAIN h : j[k] # h[k]}
  <1>1. DOMAIN j = 1..Len(j) /\ DOMAIN h = 1..Len(h) /\ Len(j) \in Nat /\ Len(h) \in Nat
    BY LenProperties
  <1>2. ASSUME NEW k \in K, \A m \in K : k <= m PROVE FALSE
    <2>1. k \in DOMAIN j /\ k \in DOMAIN h /\ k \in Nat \ {0} /\ j[k] # h[k]
      BY <1>1
    <2>2. j[k].prev = h[k].prev
      <3>1. CASE k = 1
        BY <2>1, <3>1 DEF VerifyJournal
      <3>2. CASE k # 1
        <4>1. /\ k - 1 \in DOMAIN j /\ k - 1 \in DOMAIN h /\ ~(k <= k - 1)
          BY <1>1, <2>1, <3>2
        <4>2. k - 1 \notin K
          BY <1>2, <4>1
        <4>3. j[k - 1] = h[k - 1]
          BY <4>1, <4>2
        <4> QED
          BY <2>1, <3>2, <4>3 DEF VerifyJournal
      <3> QED
        BY <3>1, <3>2
    <2> QED
      BY <2>1, <2>2 DEF Unforked, Whole
  <1>3. K \subseteq Nat
    BY <1>1
  <1>4. K = {}
    <2> HIDE DEF K
    <2> QED
      BY <1>2, <1>3, Least
  <1> QED
    BY <1>4

(* Nodes that only import do not part: as far as two of their journals go, *)
(* they are the same.                                                      *)
THEOREM ImportersAgree == Spec => []OneHistory
  <1>1. SyncInv => OneHistory
    <2> SUFFICES ASSUME SyncInv, NEW n \in Node \ Writer, NEW m \in Node \ Writer,
                        Unforked, skipped[n] = {}, skipped[m] = {}
                 PROVE  \A k \in DOMAIN db[n].journal \cap DOMAIN db[m].journal :
                          db[n].journal[k] = db[m].journal[k]
      BY DEF OneHistory
    <2>1. db[n].journal \in Seq(Row) /\ db[m].journal \in Seq(Row)
      BY DEF SyncInv, TypeInv, TypeOK, Data
    <2>2. VerifyJournal(db[n].journal) /\ VerifyJournal(db[m].journal)
      BY DEF SyncInv, ChainInv, Good
    <2>3. Whole(db[n].journal) /\ Whole(db[m].journal)
      BY DEF SyncInv, FollowInv
    <2> QED
      BY <2>1, <2>2, <2>3, SameRows
  <1> QED
    BY <1>1, SyncInvariant, PTL

(* An import reported as complete has its whole bag in the journal, unless *)
(* rows were left out.                                                     *)
THEOREM ReportsAreTrue == Spec => []ReportIsTrue
  <1>1. SyncInv => ReportIsTrue
    BY DEF SyncInv, ReportInv, ReportIsTrue
  <1> QED
    BY <1>1, SyncInvariant, PTL

(* No packet is journalled at a node that has not applied it.              *)
THEOREM JournalAfterEffect == Spec => []EffectFirst
  <1>1. SyncInv => EffectFirst
    <2> SUFFICES ASSUME SyncInv, NEW n \in Node, NEW k \in DOMAIN db[n].journal
                 PROVE  Effective(db[n].table, n, db[n].journal[k].p)
      BY DEF EffectFirst
    <2>1. Done(db[n].table, n, db[n].journal[k].p, LiftedUsers)
      BY DEF SyncInv, EffectInv, AllDone
    <2>2. db[n].journal \in Seq(Row)
      BY DEF SyncInv, TypeInv, TypeOK, Data
    <2>3. db[n].journal[k].p \in Packet
      BY <2>2, RowsOf
    <2> QED
      BY <2>1, <2>3, DoneIsEffective
  <1> QED
    BY <1>1, SyncInvariant, PTL

(* Rows, losses of rows, members and revocations on any node are the work  *)
(* of packets whose authors may do that.                                   *)
THEOREM NobodyExceedsRights == Spec => []Authorised
  <1>1. SyncInv => Authorised
    BY DEF SyncInv, AuthorInv, Authorised
  <1> QED
    BY <1>1, SyncInvariant, PTL
=============================================================================
