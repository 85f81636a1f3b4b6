--------------------------- MODULE FirstRunProofs ---------------------------
(***************************************************************************)
(* Proofs about the halves of the master key and the first run, for any    *)
(* machines, sticks and number of runs.                                    *)
(***************************************************************************)
EXTENDS FirstRun, TLAPS

FirstRunStages == {"local", "usb", "open", "pem", "close", "certs"}

(* How far a first run has come.                                           *)
StageInv ==
  \A n \in Node :
    /\ vault[n] = NoVault => certs[n] = 0
    /\ cmd[n].at \in {"local", "usb", "open"} => vault[n] = NoVault
    /\ cmd[n].at \in {"usb", "open"} => local[n] = NewHalf(n)
    /\ cmd[n].at \in {"pem", "close"} =>
         vault[n] \in Vault /\ vault[n].admin = 0 /\ certs[n] = 0
    /\ cmd[n].at = "close" => pem[n] = cmd[n].own
    /\ cmd[n].at = "certs" => vault[n] \in Vault /\ certs[n] \in 0..CertFiles - 1

TypeInv == TypeOK /\ StageInv

LEMMA HalfOrNot ==
  ASSUME NEW f \in File
  PROVE  IsHalf(f) <=> f \in Half
  BY FirstRunAssumption DEF IsHalf, File

(* The command at a node moves on, the others stay.                        *)
LEMMA AtShape ==
  ASSUME cmd \in [Node -> Command], NEW n \in Node, NEW a \in Stages, At(n, a)
  PROVE  /\ cmd' \in [Node -> Command]
         /\ cmd'[n].at = a /\ cmd'[n].stick = cmd[n].stick
         /\ cmd'[n].id = cmd[n].id /\ cmd'[n].own = cmd[n].own
         /\ \A m \in Node \ {n} : cmd'[m] = cmd[m]
  <1>1. cmd[n] \in Command
    OBVIOUS
  <1>2. [cmd[n] EXCEPT !.at = a] \in Command
    BY <1>1 DEF Command
  <1>3. cmd'[n] = [cmd[n] EXCEPT !.at = a] /\ \A m \in Node \ {n} : cmd'[m] = cmd[m]
    BY DEF At
  <1>4. cmd' \in [Node -> Command]
    BY <1>2 DEF At
  <1> QED
    BY <1>1, <1>3, <1>4 DEF Command

LEMMA OffType == Off \in Command
  BY DEF Off, Command, Stages, Zero

(* What Begin and Run put in the place of a command.                       *)
LEMMA BeginShape ==
  ASSUME TypeOK, NEW n \in Node, NEW what \in {"run", "init"}, Begin(n, what)
  PROVE  /\ cmd' \in [Node -> Command]
         /\ cmd'[n].at = "local" /\ cmd'[n].own = serial + 1
         /\ cmd'[n].id = Identity(n)
         /\ cmd'[n].stick \in Resolved(n) /\ cmd'[n].stick \in Stick
         /\ \A m \in Node \ {n} : cmd'[m] = cmd[m]
         /\ cmd[n].at = "off" /\ vault[n] = NoVault
         /\ serial' = serial + 1 /\ serial' \in 0..MaxRuns /\ serial \in Nat
         /\ UNCHANGED <<local, usb, place, vault, pem, certs, zeroed>>
  <1>1. /\ cmd \in [Node -> Command] /\ serial \in 0..MaxRuns
        /\ serial < MaxRuns /\ serial' = serial + 1 /\ MaxRuns \in Nat
    BY FirstRunAssumption DEF TypeOK, Begin
  <1>2. PICK s \in Resolved(n) :
          cmd' = [cmd EXCEPT ![n] = [at |-> "local", what |-> what, stick |-> s,
                                     id |-> Identity(n), own |-> serial + 1]]
    BY DEF Begin
  <1>3. s \in Stick
    BY DEF Resolved, Clean, Compatible, Sticks
  <1>4. Identity(n) \in Nat
    BY <1>1 DEF Identity, Zero
  <1>5. cmd' \in [Node -> Command]
    BY <1>1, <1>2, <1>3, <1>4 DEF Command, Stages
  <1>6. cmd'[n] = [at |-> "local", what |-> what, stick |-> s,
                   id |-> Identity(n), own |-> serial + 1]
    BY <1>1, <1>2
  <1>7. \A m \in Node \ {n} : cmd'[m] = cmd[m]
    BY <1>1, <1>2
  <1> QED
    BY <1>1, <1>2, <1>3, <1>5, <1>6, <1>7 DEF Begin, NoVaultYet

LEMMA RunShape ==
  ASSUME TypeOK, NEW n \in Node, NEW https \in BOOLEAN, Run(n, https)
  PROVE  /\ cmd' \in [Node -> Command]
         /\ cmd'[n].at = "serve"
         /\ \A m \in Node \ {n} : cmd'[m] = cmd[m]
         /\ cmd[n].at = "off"
         /\ UNCHANGED <<local, usb, place, vault, pem, certs, serial, zeroed>>
  <1>1. cmd \in [Node -> Command]
    BY DEF TypeOK
  <1>2. PICK s \in Compatible(n) :
          cmd' = [cmd EXCEPT ![n] = [at |-> "serve", what |-> "run", stick |-> s,
                                     id |-> Zero, own |-> 0]]
    BY DEF Run
  <1>3. s \in Stick
    BY DEF Compatible, Sticks
  <1>4. cmd' \in [Node -> Command]
    BY <1>1, <1>2, <1>3 DEF Command, Stages, Zero
  <1> QED
    BY <1>1, <1>2, <1>4 DEF Run

LEMMA DiesShape ==
  ASSUME TypeOK, NEW n \in Node, Dies(n)
  PROVE  /\ cmd' \in [Node -> Command]
         /\ cmd'[n].at = "off"
         /\ \A m \in Node \ {n} : cmd'[m] = cmd[m]
         /\ local' \in [Node -> File] /\ usb' \in [Stick -> File] /\ pem' \in [Node -> Nat]
         /\ \A m \in Node : \/ local'[m] = local[m]
                            \/ m = n /\ cmd[n].at = "local" /\ local'[m] = Corrupt
         /\ \A s \in Stick : \/ usb'[s] = usb[s]
                             \/ s = cmd[n].stick /\ cmd[n].at = "usb" /\ usb'[s] = Corrupt
         /\ \A m \in Node : pem'[m] = pem[m] \/ (m = n /\ cmd[n].at = "pem")
         /\ UNCHANGED <<place, vault, certs, serial, zeroed>>
  <1>1. /\ cmd \in [Node -> Command] /\ local \in [Node -> File]
        /\ usb \in [Stick -> File] /\ pem \in [Node -> Nat]
    BY DEF TypeOK
  <1>2. cmd' \in [Node -> Command] /\ cmd'[n].at = "off" /\ \A m \in Node \ {n} : cmd'[m] = cmd[m]
    BY <1>1, OffType DEF Dies, Off
  <1>3. local' = local \/ (cmd[n].at = "local" /\ local' = [local EXCEPT ![n] = Corrupt])
    BY DEF Dies
  <1>4. usb' = usb \/ (cmd[n].at = "usb" /\ usb' = [usb EXCEPT ![cmd[n].stick] = Corrupt])
    BY DEF Dies
  <1>5. pem' = pem \/ (cmd[n].at = "pem" /\ pem' = [pem EXCEPT ![n] = 0])
    BY DEF Dies
  <1>6. /\ local' \in [Node -> File]
        /\ \A m \in Node : \/ local'[m] = local[m]
                           \/ m = n /\ cmd[n].at = "local" /\ local'[m] = Corrupt
    BY <1>1, <1>3 DEF File
  <1>7. /\ usb' \in [Stick -> File]
        /\ \A s \in Stick : \/ usb'[s] = usb[s]
                            \/ s = cmd[n].stick /\ cmd[n].at = "usb" /\ usb'[s] = Corrupt
    BY <1>1, <1>4 DEF File
  <1>8. pem' \in [Node -> Nat] /\ \A m \in Node : pem'[m] = pem[m] \/ (m = n /\ cmd[n].at = "pem")
    BY <1>1, <1>5
  <1> QED
    BY <1>2, <1>6, <1>7, <1>8 DEF Dies

LEMMA InitType == Init => TypeInv
  <1> SUFFICES ASSUME Init PROVE TypeInv
    OBVIOUS
  <1>1. TypeOK
    BY OffType, FirstRunAssumption DEF Init, TypeOK, File, Off, CertFiles
  <1>2. StageInv
    BY FirstRunAssumption DEF Init, StageInv, Off
  <1> QED
    BY <1>1, <1>2 DEF TypeInv

(* The steps of a first run, one by one.                                   *)
LEMMA WritesType ==
  ASSUME TypeInv, NEW n \in Node,
         WriteLocal(n) \/ WriteUsb(n) \/ Persist(n) \/ WritePem(n) \/ Close(n) \/ WriteCert(n)
  PROVE  TypeInv'
  <1>1. /\ local \in [Node -> File] /\ usb \in [Stick -> File]
        /\ place \in [Stick -> Node \cup {NoNode}]
        /\ vault \in [Node -> Vault \cup {NoVault}] /\ pem \in [Node -> Nat]
        /\ certs \in [Node -> 0..CertFiles] /\ cmd \in [Node -> Command]
        /\ serial \in 0..MaxRuns /\ zeroed \subseteq Node
    BY DEF TypeInv, TypeOK
  <1>2. /\ cmd[n].at \notin {"off", "serve"} => cmd[n].own \in 1..serial
        /\ cmd[n].at \in {"local", "usb"} => cmd[n].stick \in Stick
    BY DEF TypeInv, TypeOK
  <1>3. cmd[n] \in Command /\ cmd[n].own \in Nat /\ cmd[n].id \in Nat
    BY <1>1 DEF Command
  <1>4. NewHalf(n) \in File
    BY <1>3 DEF NewHalf, File, Half
  <1>5. CASE WriteLocal(n)
    <2>1. At(n, "usb") /\ cmd[n].at = "local"
      BY <1>5 DEF WriteLocal
    <2>2. /\ cmd' \in [Node -> Command] /\ cmd'[n].at = "usb"
          /\ cmd'[n].stick = cmd[n].stick /\ cmd'[n].id = cmd[n].id /\ cmd'[n].own = cmd[n].own
          /\ \A m \in Node \ {n} : cmd'[m] = cmd[m]
      BY <1>1, <2>1, AtShape DEF Stages
    <2>3. local' \in [Node -> File] /\ local'[n] = NewHalf(n)
          /\ \A m \in Node \ {n} : local'[m] = local[m]
      BY <1>1, <1>4, <1>5 DEF WriteLocal
    <2>4. TypeOK'
      BY <1>1, <1>2, <1>5, <2>1, <2>2, <2>3 DEF WriteLocal, TypeInv, TypeOK
    <2>5. StageInv'
      BY <1>5, <2>1, <2>2, <2>3 DEF WriteLocal, TypeInv, StageInv, NewHalf
    <2> QED
      BY <2>4, <2>5 DEF TypeInv
  <1>6. CASE WriteUsb(n)
    <2>1. At(n, "open") /\ cmd[n].at = "usb"
      BY <1>6 DEF WriteUsb
    <2>2. /\ cmd' \in [Node -> Command] /\ cmd'[n].at = "open"
          /\ cmd'[n].stick = cmd[n].stick /\ cmd'[n].id = cmd[n].id /\ cmd'[n].own = cmd[n].own
          /\ \A m \in Node \ {n} : cmd'[m] = cmd[m]
      BY <1>1, <2>1, AtShape DEF Stages
    <2>3. usb' \in [Stick -> File]
      BY <1>1, <1>4, <1>6 DEF WriteUsb
    <2>4. TypeOK'
      BY <1>1, <1>2, <1>6, <2>1, <2>2, <2>3 DEF WriteUsb, TypeInv, TypeOK
    <2>5. StageInv'
      BY <1>6, <2>1, <2>2 DEF WriteUsb, TypeInv, StageInv, NewHalf
    <2> QED
      BY <2>4, <2>5 DEF TypeInv
  <1>7. CASE Persist(n)
    <2>1. At(n, "pem") /\ cmd[n].at = "open"
      BY <1>7 DEF Persist
    <2>2. /\ cmd' \in [Node -> Command] /\ cmd'[n].at = "pem"
          /\ cmd'[n].stick = cmd[n].stick /\ cmd'[n].id = cmd[n].id /\ cmd'[n].own = cmd[n].own
          /\ \A m \in Node \ {n} : cmd'[m] = cmd[m]
      BY <1>1, <2>1, AtShape DEF Stages
    <2>3. FirstSeal(n) \in Vault /\ FirstSeal(n).admin = 0
      BY <1>3 DEF FirstSeal, Vault
    <2>4. /\ vault' \in [Node -> Vault \cup {NoVault}] /\ vault'[n] = FirstSeal(n)
          /\ \A m \in Node \ {n} : vault'[m] = vault[m]
      BY <1>1, <1>7, <2>3 DEF Persist
    <2>5. TypeOK'
      BY <1>1, <1>2, <1>7, <2>1, <2>2, <2>4 DEF Persist, TypeInv, TypeOK
    <2>6. vault[n] = NoVault /\ certs[n] = 0
      BY <2>1 DEF TypeInv, StageInv
    <2>7. StageInv'
      BY <1>7, <2>1, <2>2, <2>3, <2>4, <2>6, FirstRunAssumption
      DEF Persist, TypeInv, StageInv, NewHalf
    <2> QED
      BY <2>5, <2>7 DEF TypeInv
  <1>8. CASE WritePem(n)
    <2>1. At(n, "close") /\ cmd[n].at = "pem"
      BY <1>8 DEF WritePem
    <2>2. /\ cmd' \in [Node -> Command] /\ cmd'[n].at = "close"
          /\ cmd'[n].stick = cmd[n].stick /\ cmd'[n].id = cmd[n].id /\ cmd'[n].own = cmd[n].own
          /\ \A m \in Node \ {n} : cmd'[m] = cmd[m]
      BY <1>1, <2>1, AtShape DEF Stages
    <2>3. pem' \in [Node -> Nat] /\ pem'[n] = cmd[n].own
          /\ \A m \in Node \ {n} : pem'[m] = pem[m]
      BY <1>1, <1>3, <1>8 DEF WritePem
    <2>4. TypeOK'
      BY <1>1, <1>2, <1>8, <2>1, <2>2, <2>3 DEF WritePem, TypeInv, TypeOK
    <2>5. StageInv'
      BY <1>8, <2>1, <2>2, <2>3 DEF WritePem, TypeInv, StageInv, NewHalf
    <2> QED
      BY <2>4, <2>5 DEF TypeInv
  <1>9. CASE Close(n)
    <2>1. (At(n, "certs") \/ At(n, "off")) /\ cmd[n].at = "close"
      BY <1>9 DEF Close
    <2>2. /\ cmd' \in [Node -> Command] /\ cmd'[n].at \in {"certs", "off"}
          /\ cmd'[n].stick = cmd[n].stick /\ cmd'[n].id = cmd[n].id /\ cmd'[n].own = cmd[n].own
          /\ \A m \in Node \ {n} : cmd'[m] = cmd[m]
      BY <1>1, <2>1, AtShape DEF Stages
    <2>3. vault[n] \in Vault /\ certs[n] = 0
      BY <2>1 DEF TypeInv, StageInv
    <2>4. [vault[n] EXCEPT !.admin = cmd[n].own] \in Vault
      BY <1>3, <2>3 DEF Vault
    <2>5. /\ vault' \in [Node -> Vault \cup {NoVault}]
          /\ vault'[n] = [vault[n] EXCEPT !.admin = cmd[n].own]
          /\ \A m \in Node \ {n} : vault'[m] = vault[m]
      BY <1>1, <1>9, <2>4 DEF Close
    <2>6. TypeOK'
      BY <1>1, <1>2, <1>9, <2>1, <2>2, <2>5 DEF Close, TypeInv, TypeOK
    <2>7. StageInv'
      BY <1>9, <2>1, <2>2, <2>3, <2>4, <2>5, FirstRunAssumption
      DEF Close, TypeInv, StageInv, NewHalf, CertFiles
    <2> QED
      BY <2>6, <2>7 DEF TypeInv
  <1>10. CASE WriteCert(n)
    <2>1. At(n, AfterCert(n)) /\ cmd[n].at = "certs"
      BY <1>10 DEF WriteCert
    <2>2. AfterCert(n) \in {"serve", "off", "certs"}
      BY DEF AfterCert, Finished
    <2>3. /\ cmd' \in [Node -> Command] /\ cmd'[n].at = AfterCert(n)
          /\ cmd'[n].stick = cmd[n].stick /\ cmd'[n].id = cmd[n].id /\ cmd'[n].own = cmd[n].own
          /\ \A m \in Node \ {n} : cmd'[m] = cmd[m]
      BY <1>1, <2>1, <2>2, AtShape DEF Stages
    <2>4. vault[n] \in Vault /\ certs[n] \in 0..CertFiles - 1
      BY <2>1 DEF TypeInv, StageInv
    <2>5. /\ certs' \in [Node -> 0..CertFiles] /\ certs'[n] = certs[n] + 1
          /\ \A m \in Node \ {n} : certs'[m] = certs[m]
      BY <1>1, <1>10, <2>4 DEF WriteCert, CertFiles
    <2>6. cmd'[n].at = "certs" => certs'[n] \in 0..CertFiles - 1
      BY <2>3, <2>4, <2>5 DEF AfterCert, Finished, CertFiles
    <2>7. TypeOK'
      BY <1>1, <1>2, <1>10, <2>1, <2>2, <2>3, <2>5 DEF WriteCert, TypeInv, TypeOK
    <2>8. StageInv'
      BY <1>10, <2>1, <2>2, <2>3, <2>4, <2>5, <2>6, FirstRunAssumption
      DEF WriteCert, TypeInv, StageInv, NewHalf
    <2> QED
      BY <2>7, <2>8 DEF TypeInv
  <1> QED
    BY <1>5, <1>6, <1>7, <1>8, <1>9, <1>10

LEMMA TypeStep == TypeInv /\ [Next]_vars => TypeInv'
  <1> SUFFICES ASSUME TypeInv, [Next]_vars PROVE TypeInv'
    OBVIOUS
  <1>1. CASE UNCHANGED vars
    BY <1>1 DEF vars, TypeInv, TypeOK, StageInv, NewHalf
  <1>2. ASSUME NEW s \in Stick, NEW m \in Node \cup {NoNode}, Carry(s, m) PROVE TypeInv'
    BY <1>2 DEF Carry, TypeInv, TypeOK, StageInv, NewHalf
  <1>3. ASSUME NEW n \in Node, NEW what \in {"run", "init"}, Begin(n, what) PROVE TypeInv'
    <2>1. /\ cmd' \in [Node -> Command]
          /\ cmd'[n].at = "local" /\ cmd'[n].own = serial + 1
          /\ cmd'[n].stick \in Stick
          /\ \A m \in Node \ {n} : cmd'[m] = cmd[m]
          /\ cmd[n].at = "off" /\ vault[n] = NoVault
          /\ serial' = serial + 1 /\ serial' \in 0..MaxRuns /\ serial \in Nat
          /\ UNCHANGED <<local, usb, place, vault, pem, certs, zeroed>>
      BY <1>3, BeginShape DEF TypeInv
    <2>2. \A m \in Node : cmd'[m].at \notin {"off", "serve"} => cmd'[m].own \in 1..serial'
      BY <2>1 DEF TypeInv, TypeOK
    <2>3. TypeOK'
      BY <2>1, <2>2 DEF TypeInv, TypeOK
    <2>4. StageInv'
      BY <2>1 DEF TypeInv, StageInv, NewHalf
    <2> QED
      BY <2>3, <2>4 DEF TypeInv
  <1>4. ASSUME NEW n \in Node, NEW https \in BOOLEAN, Run(n, https) PROVE TypeInv'
    <2>1. /\ cmd' \in [Node -> Command] /\ cmd'[n].at = "serve"
          /\ \A m \in Node \ {n} : cmd'[m] = cmd[m]
          /\ UNCHANGED <<local, usb, place, vault, pem, certs, serial, zeroed>>
      BY <1>4, RunShape DEF TypeInv
    <2> QED
      BY <2>1 DEF TypeInv, TypeOK, StageInv, NewHalf
  <1>5. ASSUME NEW n \in Node, Dies(n) PROVE TypeInv'
    <2>1. /\ cmd' \in [Node -> Command] /\ cmd'[n].at = "off"
          /\ \A m \in Node \ {n} : cmd'[m] = cmd[m]
          /\ local' \in [Node -> File] /\ usb' \in [Stick -> File] /\ pem' \in [Node -> Nat]
          /\ \A m \in Node \ {n} : local'[m] = local[m] /\ pem'[m] = pem[m]
          /\ UNCHANGED <<place, vault, certs, serial, zeroed>>
      BY <1>5, DiesShape DEF TypeInv
    <2>2. TypeOK'
      BY <2>1 DEF TypeInv, TypeOK
    <2>3. StageInv'
      BY <2>1 DEF TypeInv, StageInv, NewHalf
    <2> QED
      BY <2>2, <2>3 DEF TypeInv
  <1> QED
    BY <1>1, <1>2, <1>3, <1>4, <1>5, WritesType DEF Next

(* Every state of the model is typed.                                      *)
THEOREM TypeCorrectness == Spec => []TypeOK
  <1>1. TypeInv => TypeOK
    BY DEF TypeInv
  <1> QED
    BY <1>1, InitType, TypeStep, PTL DEF Spec
-----------------------------------------------------------------------------
(* Identities.  A node that will write a new identity is the only one to   *)
(* know it, and two local halves of one identity are of the zero identity. *)
Choosing(n) == cmd[n].at \in {"local", "usb"}

IdInv ==
  /\ \A n \in Node : IsHalf(local[n]) =>
       local[n].id <= serial /\ (local[n].id = Zero => n \in zeroed)
  /\ \A s \in Stick : IsHalf(usb[s]) => usb[s].id <= serial
  /\ \A n \in Node : Choosing(n) => cmd[n].id \in {Zero, cmd[n].own}
  /\ \A n, m \in Node : Choosing(n) /\ Choosing(m) /\ n # m => cmd[n].own # cmd[m].own
  /\ \A n, m \in Node : cmd[m].at = "local" /\ cmd[m].id # Zero /\ IsHalf(local[n]) =>
       local[n].id # cmd[m].id
  /\ \A m \in Node, s \in Stick : cmd[m].at = "local" /\ cmd[m].id # Zero /\ IsHalf(usb[s]) =>
       usb[s].id # cmd[m].id
  /\ \A n, m \in Node : n # m /\ IsHalf(local[n]) /\ IsHalf(local[m]) /\ local[n].id = local[m].id =>
       local[n].id = Zero

(* The stick that is about to be written belongs to no other node, or both *)
(* carry the zero identity.                                                *)
ChosenInv ==
  \A m \in Node : Choosing(m) =>
    LET s == cmd[m].stick IN
    /\ place[s] = m
    /\ IsHalf(usb[s]) =>
         /\ usb[s].id = Zero => m \in zeroed
         /\ \A n \in Node \ {m} : IsHalf(local[n]) /\ local[n].id = usb[s].id =>
              n \in zeroed /\ m \in zeroed

(* What every other step leaves alone.                                     *)
Quiet ==
  /\ \A m \in Node : cmd'[m] = cmd[m] \/ cmd'[m].at \notin {"local", "usb", "open"}
  /\ \A m \in Node : \/ local'[m] = local[m]
                     \/ cmd[m].at = "local" /\ local'[m] = Corrupt
  /\ \A s \in Stick : \/ usb'[s] = usb[s]
                      \/ /\ usb'[s] = Corrupt
                         /\ \E m \in Node : cmd[m].at = "usb" /\ cmd[m].stick = s
  /\ \A m \in Node : cmd'[m].at \in {"local", "usb"} => place'[cmd[m].stick] = place[cmd[m].stick]
  /\ \A m \in Node :
       \/ vault'[m] = vault[m]
       \/ cmd[m].at = "open" /\ vault'[m] = FirstSeal(m)
       \/ vault[m] \in Vault /\ vault'[m].local = vault[m].local /\ vault'[m].usb = vault[m].usb
  /\ serial' = serial /\ zeroed' = zeroed

LEMMA LaterQuiet ==
  ASSUME TypeInv, NEW n \in Node,
         Persist(n) \/ WritePem(n) \/ Close(n) \/ WriteCert(n)
  PROVE  Quiet
  <1>1. cmd \in [Node -> Command] /\ vault \in [Node -> Vault \cup {NoVault}]
    BY DEF TypeInv, TypeOK
  <1>2. \E a \in {"pem", "close", "certs", "off", "serve"} : At(n, a)
    BY DEF Persist, WritePem, Close, WriteCert, AfterCert, Finished
  <1>3. cmd'[n].at \notin {"local", "usb", "open"} /\ \A m \in Node \ {n} : cmd'[m] = cmd[m]
    BY <1>1, <1>2, AtShape DEF Stages
  <1>4. UNCHANGED <<local, usb, place, serial, zeroed>>
    BY DEF Persist, WritePem, Close, WriteCert
  <1>5. \A m \in Node :
          \/ vault'[m] = vault[m]
          \/ cmd[m].at = "open" /\ vault'[m] = FirstSeal(m)
          \/ vault[m] \in Vault /\ vault'[m].local = vault[m].local /\ vault'[m].usb = vault[m].usb
    <2>1. CASE Persist(n)
      BY <1>1, <2>1 DEF Persist
    <2>2. CASE Close(n)
      <3>1. vault[n] \in Vault
        BY <2>2 DEF Close, TypeInv, StageInv
      <3>2. /\ vault'[n] = [vault[n] EXCEPT !.admin = cmd[n].own]
            /\ \A m \in Node \ {n} : vault'[m] = vault[m]
        BY <1>1, <2>2 DEF Close
      <3>3. vault'[n].local = vault[n].local /\ vault'[n].usb = vault[n].usb
        BY <3>1, <3>2 DEF Vault
      <3> QED
        BY <3>1, <3>2, <3>3
    <2>3. CASE WritePem(n) \/ WriteCert(n)
      BY <2>3 DEF WritePem, WriteCert
    <2> QED
      BY <2>1, <2>2, <2>3
  <1> QED
    BY <1>3, <1>4, <1>5 DEF Quiet

LEMMA StepKinds ==
  ASSUME TypeInv, [Next]_vars
  PROVE  \/ \E n \in Node : \/ \E what \in {"run", "init"} : Begin(n, what)
                            \/ WriteLocal(n) \/ WriteUsb(n)
         \/ Quiet
  <1>1. CASE UNCHANGED vars
    BY <1>1 DEF vars, Quiet
  <1>2. ASSUME NEW s \in Stick, NEW m \in Node \cup {NoNode}, Carry(s, m) PROVE Quiet
    <2>1. place \in [Stick -> Node \cup {NoNode}]
      BY DEF TypeInv, TypeOK
    <2>2. \A h \in Node : cmd[h].at \in {"local", "usb"} => cmd[h].stick # s
      BY <1>2 DEF Carry, Writing
    <2>3. \A h \in Node : cmd[h].at \in {"local", "usb"} => cmd[h].stick \in Stick
      BY DEF TypeInv, TypeOK
    <2> QED
      BY <1>2, <2>1, <2>2, <2>3 DEF Carry, Quiet
  <1>3. ASSUME NEW n \in Node, NEW https \in BOOLEAN, Run(n, https) PROVE Quiet
    <2>1. /\ cmd'[n].at = "serve" /\ \A m \in Node \ {n} : cmd'[m] = cmd[m]
          /\ UNCHANGED <<local, usb, place, vault, pem, certs, serial, zeroed>>
      BY <1>3, RunShape DEF TypeInv
    <2> QED
      BY <2>1 DEF Quiet
  <1>4. ASSUME NEW n \in Node, Dies(n) PROVE Quiet
    <2>1. /\ cmd'[n].at = "off" /\ \A m \in Node \ {n} : cmd'[m] = cmd[m]
          /\ \A m \in Node : \/ local'[m] = local[m]
                             \/ m = n /\ cmd[n].at = "local" /\ local'[m] = Corrupt
          /\ \A s \in Stick : \/ usb'[s] = usb[s]
                              \/ s = cmd[n].stick /\ cmd[n].at = "usb" /\ usb'[s] = Corrupt
          /\ UNCHANGED <<place, vault, certs, serial, zeroed>>
      BY <1>4, DiesShape DEF TypeInv
    <2> QED
      BY <2>1 DEF Quiet
  <1> QED
    BY <1>1, <1>2, <1>3, <1>4, LaterQuiet DEF Next

LEMMA WriteLocalShape ==
  ASSUME TypeInv, NEW n \in Node, WriteLocal(n)
  PROVE  /\ cmd[n].at = "local" /\ cmd'[n].at = "usb" /\ cmd'[n].stick = cmd[n].stick
         /\ cmd'[n].id = cmd[n].id /\ cmd'[n].own = cmd[n].own
         /\ \A m \in Node \ {n} : cmd'[m] = cmd[m] /\ local'[m] = local[m]
         /\ local'[n] = NewHalf(n) /\ IsHalf(local'[n]) /\ local'[n].id = cmd[n].id
         /\ cmd[n].own \in 1..serial /\ cmd[n].id \in Nat
         /\ zeroed \subseteq zeroed' /\ (cmd[n].id = Zero => n \in zeroed')
         /\ UNCHANGED <<usb, place, vault, serial>>
  <1>1. /\ cmd \in [Node -> Command] /\ At(n, "usb") /\ local \in [Node -> File]
        /\ cmd[n].at = "local" /\ cmd[n] \in Command
    BY DEF TypeInv, TypeOK, WriteLocal
  <1>2. /\ cmd'[n].at = "usb" /\ cmd'[n].stick = cmd[n].stick
        /\ cmd'[n].id = cmd[n].id /\ cmd'[n].own = cmd[n].own
        /\ \A m \in Node \ {n} : cmd'[m] = cmd[m]
    BY <1>1, AtShape DEF Stages
  <1>3. NewHalf(n) \in Half /\ NewHalf(n).id = cmd[n].id /\ cmd[n].id \in Nat
    BY <1>1 DEF NewHalf, Half, Command
  <1>4. IsHalf(NewHalf(n))
    BY <1>3, FirstRunAssumption DEF IsHalf
  <1>5. local'[n] = NewHalf(n) /\ \A m \in Node \ {n} : local'[m] = local[m]
    BY <1>1 DEF WriteLocal
  <1>6. cmd[n].own \in 1..serial
    BY <1>1 DEF TypeInv, TypeOK
  <1> QED
    BY <1>1, <1>2, <1>3, <1>4, <1>5, <1>6 DEF WriteLocal

LEMMA WriteUsbShape ==
  ASSUME TypeInv, NEW n \in Node, WriteUsb(n)
  PROVE  /\ cmd[n].at = "usb" /\ cmd'[n].at = "open"
         /\ cmd'[n].id = cmd[n].id /\ cmd'[n].own = cmd[n].own
         /\ \A m \in Node \ {n} : cmd'[m] = cmd[m]
         /\ cmd[n].stick \in Stick
         /\ \A s \in Stick \ {cmd[n].stick} : usb'[s] = usb[s]
         /\ usb'[cmd[n].stick] = NewHalf(n) /\ IsHalf(NewHalf(n))
         /\ NewHalf(n).id = cmd[n].id /\ NewHalf(n).raw = cmd[n].own
         /\ cmd[n].own \in 1..serial /\ cmd[n].id \in Nat
         /\ UNCHANGED <<local, place, vault, serial, zeroed>>
  <1>1. /\ cmd \in [Node -> Command] /\ At(n, "open") /\ usb \in [Stick -> File]
        /\ cmd[n].at = "usb" /\ cmd[n] \in Command
    BY DEF TypeInv, TypeOK, WriteUsb
  <1>2. /\ cmd'[n].at = "open"
        /\ cmd'[n].id = cmd[n].id /\ cmd'[n].own = cmd[n].own
        /\ \A m \in Node \ {n} : cmd'[m] = cmd[m]
    BY <1>1, AtShape DEF Stages
  <1>3. /\ NewHalf(n) \in Half /\ NewHalf(n).id = cmd[n].id /\ cmd[n].id \in Nat
        /\ NewHalf(n).raw = cmd[n].own
    BY <1>1 DEF NewHalf, Half, Command
  <1>4. IsHalf(NewHalf(n))
    BY <1>3, FirstRunAssumption DEF IsHalf
  <1>5. cmd[n].own \in 1..serial /\ cmd[n].stick \in Stick
    BY <1>1 DEF TypeInv, TypeOK
  <1>6. /\ usb'[cmd[n].stick] = NewHalf(n)
        /\ \A s \in Stick \ {cmd[n].stick} : usb'[s] = usb[s]
    BY <1>1, <1>5 DEF WriteUsb
  <1> QED
    BY <1>1, <1>2, <1>3, <1>4, <1>5, <1>6 DEF WriteUsb

LEMMA CorruptIsNoHalf == ~IsHalf(Corrupt) /\ ~IsHalf(Nothing)
  BY DEF IsHalf

LEMMA InitId == Init => IdInv /\ ChosenInv
  BY DEF Init, IdInv, ChosenInv, IsHalf, Choosing, Off

LEMMA IdStep == TypeInv /\ IdInv /\ [Next]_vars => IdInv'
  <1> SUFFICES ASSUME TypeInv, IdInv, [Next]_vars PROVE IdInv'
    OBVIOUS
  <1>0. /\ \A n \in Node : cmd[n].at \in {"local", "usb"} => cmd[n].own \in 1..serial
        /\ \A n \in Node : cmd[n].id \in Nat /\ cmd[n].own \in Nat
        /\ serial \in Nat
    BY FirstRunAssumption DEF TypeInv, TypeOK, Command
  <1>1. ASSUME NEW n \in Node, NEW what \in {"run", "init"}, Begin(n, what) PROVE IdInv'
    <2>1. /\ cmd'[n].at = "local" /\ cmd'[n].own = serial + 1 /\ cmd'[n].id = Identity(n)
          /\ \A m \in Node \ {n} : cmd'[m] = cmd[m]
          /\ serial' = serial + 1
          /\ UNCHANGED <<local, usb, zeroed>>
      BY <1>1, BeginShape DEF TypeInv
    <2>2. Identity(n) \in {Zero, serial + 1}
      BY DEF Identity
    <2>3. /\ \A m \in Node : IsHalf(local[m]) => local[m].id \in Nat
          /\ \A s \in Stick : IsHalf(usb[s]) => usb[s].id \in Nat
      BY HalfOrNot DEF TypeInv, TypeOK, Half
    <2> QED
      BY <1>0, <2>1, <2>2, <2>3 DEF IdInv, Choosing, IsHalf, Zero
  <1>2. ASSUME NEW n \in Node, WriteLocal(n) PROVE IdInv'
    <2>1. /\ cmd[n].at = "local" /\ cmd'[n].at = "usb"
          /\ cmd'[n].id = cmd[n].id /\ cmd'[n].own = cmd[n].own
          /\ \A m \in Node \ {n} : cmd'[m] = cmd[m] /\ local'[m] = local[m]
          /\ IsHalf(local'[n]) /\ local'[n].id = cmd[n].id
          /\ zeroed \subseteq zeroed' /\ (cmd[n].id = Zero => n \in zeroed')
          /\ UNCHANGED <<usb, serial>>
      BY <1>2, WriteLocalShape
    <2> QED
      BY <1>0, <2>1 DEF IdInv, Choosing, IsHalf, Zero
  <1>3. ASSUME NEW n \in Node, WriteUsb(n) PROVE IdInv'
    <2>1. /\ cmd[n].at = "usb" /\ cmd'[n].at = "open"
          /\ \A m \in Node \ {n} : cmd'[m] = cmd[m]
          /\ cmd[n].stick \in Stick
          /\ \A s \in Stick \ {cmd[n].stick} : usb'[s] = usb[s]
          /\ IsHalf(usb'[cmd[n].stick]) /\ usb'[cmd[n].stick].id = cmd[n].id
          /\ UNCHANGED <<local, serial, zeroed>>
      BY <1>3, WriteUsbShape
    <2> QED
      BY <1>0, <2>1 DEF IdInv, Choosing, IsHalf, Zero
  <1>4. CASE Quiet
    <2>1. \A m \in Node : IsHalf(local'[m]) => local'[m] = local[m]
      BY <1>4, CorruptIsNoHalf DEF Quiet
    <2>2. \A s \in Stick : IsHalf(usb'[s]) => usb'[s] = usb[s]
      BY <1>4, CorruptIsNoHalf DEF Quiet
    <2>3. /\ \A m \in Node : cmd'[m] = cmd[m] \/ cmd'[m].at \notin {"local", "usb"}
          /\ serial' = serial /\ zeroed' = zeroed
      BY <1>4 DEF Quiet
    <2> QED
      BY <2>1, <2>2, <2>3 DEF IdInv, Choosing, IsHalf
  <1> QED
    BY <1>1, <1>2, <1>3, <1>4, StepKinds

LEMMA ChosenStep == TypeInv /\ IdInv /\ ChosenInv /\ [Next]_vars => ChosenInv'
  <1> SUFFICES ASSUME TypeInv, IdInv, ChosenInv, [Next]_vars, NEW m \in Node, Choosing(m)'
               PROVE  /\ place'[cmd'[m].stick] = m
                      /\ IsHalf(usb'[cmd'[m].stick]) =>
                           /\ usb'[cmd'[m].stick].id = Zero => m \in zeroed'
                           /\ \A n \in Node \ {m} :
                                IsHalf(local'[n]) /\ local'[n].id = usb'[cmd'[m].stick].id =>
                                  n \in zeroed' /\ m \in zeroed'
    BY DEF ChosenInv, IsHalf
  <1>1. ASSUME NEW n \in Node, NEW what \in {"run", "init"}, Begin(n, what)
        PROVE  /\ place'[cmd'[m].stick] = m
               /\ IsHalf(usb'[cmd'[m].stick]) =>
                    /\ usb'[cmd'[m].stick].id = Zero => m \in zeroed'
                    /\ \A h \in Node \ {m} :
                         IsHalf(local'[h]) /\ local'[h].id = usb'[cmd'[m].stick].id =>
                           h \in zeroed' /\ m \in zeroed'
    <2>1. /\ cmd'[n].stick \in Resolved(n)
          /\ \A h \in Node \ {n} : cmd'[h] = cmd[h]
          /\ UNCHANGED <<local, usb, place, zeroed>>
      BY <1>1, BeginShape DEF TypeInv
    <2>2. CASE m # n
      BY <2>1, <2>2 DEF ChosenInv, Choosing
    <2>3. CASE m = n
      <3> DEFINE s == cmd'[n].stick
      <3>1. place[s] = n
        BY <2>1 DEF Resolved, Clean, Compatible, Sticks
      <3>2. IsHalf(usb[s]) => IsHalf(local[n]) /\ usb[s].id = local[n].id
        BY <2>1, CorruptIsNoHalf DEF Resolved, Clean, Compatible
      <3> HIDE DEF s
      <3>3. IsHalf(usb[s]) =>
              /\ usb[s].id = Zero => n \in zeroed
              /\ \A h \in Node \ {n} : IsHalf(local[h]) /\ local[h].id = usb[s].id =>
                   h \in zeroed /\ n \in zeroed
        BY <3>2 DEF IdInv
      <3> QED
        BY <2>1, <2>3, <3>1, <3>3 DEF s
    <2> QED
      BY <2>2, <2>3
  <1>2. ASSUME NEW n \in Node, WriteLocal(n)
        PROVE  /\ place'[cmd'[m].stick] = m
               /\ IsHalf(usb'[cmd'[m].stick]) =>
                    /\ usb'[cmd'[m].stick].id = Zero => m \in zeroed'
                    /\ \A h \in Node \ {m} :
                         IsHalf(local'[h]) /\ local'[h].id = usb'[cmd'[m].stick].id =>
                           h \in zeroed' /\ m \in zeroed'
    <2>1. /\ cmd[n].at = "local" /\ cmd'[n].stick = cmd[n].stick
          /\ \A h \in Node \ {n} : cmd'[h] = cmd[h] /\ local'[h] = local[h]
          /\ local'[n].id = cmd[n].id
          /\ zeroed \subseteq zeroed' /\ (cmd[n].id = Zero => n \in zeroed')
          /\ UNCHANGED <<usb, place>>
      BY <1>2, WriteLocalShape
    <2>2. Choosing(m) /\ cmd'[m].stick = cmd[m].stick
      BY <2>1 DEF Choosing
    <2>3. cmd[m].stick \in Stick
      BY <2>2 DEF Choosing, TypeInv, TypeOK
    <2>4. IsHalf(usb[cmd[m].stick]) /\ cmd[n].id # Zero => usb[cmd[m].stick].id # cmd[n].id
      BY <2>1, <2>3 DEF IdInv
    <2> QED
      BY <2>1, <2>2, <2>4 DEF ChosenInv
  <1>3. ASSUME NEW n \in Node, WriteUsb(n)
        PROVE  /\ place'[cmd'[m].stick] = m
               /\ IsHalf(usb'[cmd'[m].stick]) =>
                    /\ usb'[cmd'[m].stick].id = Zero => m \in zeroed'
                    /\ \A h \in Node \ {m} :
                         IsHalf(local'[h]) /\ local'[h].id = usb'[cmd'[m].stick].id =>
                           h \in zeroed' /\ m \in zeroed'
    <2>1. /\ cmd[n].at = "usb" /\ cmd'[n].at = "open"
          /\ \A h \in Node \ {n} : cmd'[h] = cmd[h]
          /\ \A s \in Stick \ {cmd[n].stick} : usb'[s] = usb[s]
          /\ UNCHANGED <<local, place, zeroed>>
      BY <1>3, WriteUsbShape
    <2>2. m # n /\ cmd'[m] = cmd[m] /\ Choosing(m) /\ Choosing(n)
      BY <2>1 DEF Choosing
    <2>3. place[cmd[m].stick] = m /\ place[cmd[n].stick] = n
      BY <2>2 DEF ChosenInv
    <2>4. cmd[m].stick \in Stick /\ cmd[m].stick # cmd[n].stick
      BY <2>2, <2>3 DEF Choosing, TypeInv, TypeOK
    <2>5. usb'[cmd'[m].stick] = usb[cmd[m].stick]
      BY <2>1, <2>2, <2>4
    <2> QED
      BY <2>1, <2>2, <2>5 DEF ChosenInv
  <1>4. CASE Quiet
    <2>1. cmd'[m] = cmd[m] /\ Choosing(m)
      BY <1>4 DEF Quiet, Choosing
    <2>2. cmd[m].stick \in Stick
      BY <2>1 DEF Choosing, TypeInv, TypeOK
    <2>3. place'[cmd'[m].stick] = m
      BY <1>4, <2>1 DEF Quiet, Choosing, ChosenInv
    <2>4. IsHalf(usb'[cmd'[m].stick]) => usb'[cmd'[m].stick] = usb[cmd[m].stick]
      BY <1>4, <2>1, <2>2, CorruptIsNoHalf DEF Quiet
    <2>5. \A h \in Node : IsHalf(local'[h]) => local'[h] = local[h]
      BY <1>4, CorruptIsNoHalf DEF Quiet
    <2>6. zeroed' = zeroed
      BY <1>4 DEF Quiet
    <2> QED
      BY <2>1, <2>3, <2>4, <2>5, <2>6 DEF ChosenInv
  <1> QED
    BY <1>1, <1>2, <1>3, <1>4, StepKinds

-----------------------------------------------------------------------------
(* The halves of a key.                                                    *)
Held(n, l, u) ==
  /\ IsHalf(local[n]) /\ local[n].raw = l
  /\ \E s \in Stick : IsHalf(usb[s]) /\ usb[s].id = local[n].id /\ usb[s].raw = u

(* From the moment both halves are written, they are kept.                 *)
HeldInv ==
  \A n \in Node : ~Clash(n) =>
    /\ cmd[n].at = "open" => Held(n, cmd[n].own, cmd[n].own)
    /\ vault[n] # NoVault => Held(n, vault[n].local, vault[n].usb)

LEMMA InitHeld == Init => HeldInv
  BY DEF Init, HeldInv, Off

(* Nobody else overwrites a stick that a node needs.                       *)
LEMMA HeldKept ==
  ASSUME ChosenInv, NEW n \in Node, ~Clash(n), NEW l, NEW u, Held(n, l, u),
         local'[n] = local[n],
         \A s \in Stick : usb'[s] = usb[s] \/ \E m \in Node \ {n} : Choosing(m) /\ cmd[m].stick = s
  PROVE  Held(n, l, u)'
  <1>1. PICK s \in Stick : IsHalf(usb[s]) /\ usb[s].id = local[n].id /\ usb[s].raw = u
    BY DEF Held
  <1>2. usb'[s] = usb[s]
    <2> SUFFICES ASSUME NEW m \in Node \ {n}, Choosing(m), cmd[m].stick = s PROVE FALSE
      OBVIOUS
    <2>1. n \in zeroed /\ m \in zeroed
      BY <1>1 DEF ChosenInv, Held
    <2> QED
      BY <2>1 DEF Clash
  <1> QED
    BY <1>1, <1>2 DEF Held, IsHalf

LEMMA HeldStep == TypeInv /\ ChosenInv /\ HeldInv /\ [Next]_vars => HeldInv'
  <1> SUFFICES ASSUME TypeInv, ChosenInv, HeldInv, [Next]_vars, NEW n \in Node, ~Clash(n)'
               PROVE  /\ cmd'[n].at = "open" => Held(n, cmd[n].own, cmd[n].own)'
                      /\ vault'[n] # NoVault => Held(n, vault[n].local, vault[n].usb)'
    BY DEF HeldInv
  <1>0. ASSUME zeroed \subseteq zeroed' PROVE ~Clash(n)
    BY <1>0 DEF Clash
  <1>a. ASSUME NEW l, NEW u, Held(n, l, u), ~Clash(n), local'[n] = local[n],
               \A s \in Stick : usb'[s] = usb[s] \/ \E m \in Node \ {n} : Choosing(m) /\ cmd[m].stick = s
        PROVE  Held(n, l, u)'
    BY <1>a, HeldKept
  <1>1. ASSUME NEW m \in Node, NEW what \in {"run", "init"}, Begin(m, what)
        PROVE  /\ cmd'[n].at = "open" => Held(n, cmd[n].own, cmd[n].own)'
               /\ vault'[n] # NoVault => Held(n, vault[n].local, vault[n].usb)'
    <2>1. /\ cmd'[m].at = "local" /\ \A h \in Node \ {m} : cmd'[h] = cmd[h]
          /\ UNCHANGED <<local, usb, vault, zeroed>>
      BY <1>1, BeginShape DEF TypeInv
    <2> QED
      BY <1>0, <2>1 DEF HeldInv, Held, IsHalf
  <1>2. ASSUME NEW m \in Node, WriteLocal(m)
        PROVE  /\ cmd'[n].at = "open" => Held(n, cmd[n].own, cmd[n].own)'
               /\ vault'[n] # NoVault => Held(n, vault[n].local, vault[n].usb)'
    <2>1. /\ cmd[m].at = "local" /\ cmd'[m].at = "usb"
          /\ \A h \in Node \ {m} : cmd'[h] = cmd[h] /\ local'[h] = local[h]
          /\ UNCHANGED <<usb, vault>> /\ zeroed \subseteq zeroed'
      BY <1>2, WriteLocalShape
    <2>2. vault[m] = NoVault
      BY <2>1 DEF TypeInv, StageInv
    <2> QED
      BY <1>0, <2>1, <2>2 DEF HeldInv, Held, IsHalf
  <1>3. ASSUME NEW m \in Node, WriteUsb(m)
        PROVE  /\ cmd'[n].at = "open" => Held(n, cmd[n].own, cmd[n].own)'
               /\ vault'[n] # NoVault => Held(n, vault[n].local, vault[n].usb)'
    <2>1. /\ cmd[m].at = "usb" /\ cmd'[m].at = "open" /\ cmd'[m].own = cmd[m].own
          /\ \A h \in Node \ {m} : cmd'[h] = cmd[h]
          /\ cmd[m].stick \in Stick
          /\ \A s \in Stick \ {cmd[m].stick} : usb'[s] = usb[s]
          /\ usb'[cmd[m].stick] = NewHalf(m) /\ IsHalf(NewHalf(m))
          /\ NewHalf(m).raw = cmd[m].own
          /\ UNCHANGED <<local, vault, zeroed>>
      BY <1>3, WriteUsbShape
    <2>2. CASE m = n
      <3>1. vault[n] = NoVault /\ local[n] = NewHalf(n)
        BY <2>1, <2>2 DEF TypeInv, StageInv
      <3> QED
        BY <2>1, <2>2, <3>1 DEF Held, IsHalf
    <2>3. CASE m # n
      <3>1. \A s \in Stick : usb'[s] = usb[s] \/ \E h \in Node \ {n} : Choosing(h) /\ cmd[h].stick = s
        BY <2>1, <2>3 DEF Choosing
      <3>2. ASSUME NEW l, NEW u, Held(n, l, u) PROVE Held(n, l, u)'
        <4>1. local'[n] = local[n] /\ ~Clash(n)
          BY <1>0, <2>1
        <4> QED
          BY <1>a, <3>1, <3>2, <4>1
      <3>3. cmd'[n] = cmd[n] /\ vault'[n] = vault[n]
        BY <2>1, <2>3
      <3>4. ASSUME cmd'[n].at = "open" PROVE Held(n, cmd[n].own, cmd[n].own)'
        <4>1. Held(n, cmd[n].own, cmd[n].own)
          BY <1>0, <2>1, <3>3, <3>4 DEF HeldInv
        <4>2. PICK l : l = cmd[n].own
          OBVIOUS
        <4>3. Held(n, l, l)
          BY <4>1, <4>2
        <4>4. Held(n, l, l)'
          BY <3>2, <4>3 DEF Held, IsHalf
        <4> QED
          BY <3>3, <4>2, <4>4 DEF Held, IsHalf
      <3>5. ASSUME vault'[n] # NoVault PROVE Held(n, vault[n].local, vault[n].usb)'
        <4>1. Held(n, vault[n].local, vault[n].usb)
          BY <1>0, <2>1, <3>3, <3>5 DEF HeldInv
        <4>2. PICK l, u : l = vault[n].local /\ u = vault[n].usb
          OBVIOUS
        <4>3. Held(n, l, u)
          BY <4>1, <4>2
        <4>4. Held(n, l, u)'
          BY <3>2, <4>3 DEF Held, IsHalf
        <4> QED
          BY <3>3, <4>2, <4>4 DEF Held, IsHalf
      <3> QED
        BY <3>4, <3>5
    <2> QED
      BY <2>2, <2>3
  <1>4. CASE Quiet
    <2>1. zeroed' = zeroed /\ ~Clash(n)
      BY <1>0, <1>4 DEF Quiet
    <2>2. ASSUME cmd[n].at \notin {"local", "usb"}, NEW l, NEW u, Held(n, l, u)
          PROVE  Held(n, l, u)'
      <3>1. local'[n] = local[n]
        BY <1>4, <2>2 DEF Quiet
      <3>2. \A s \in Stick : usb'[s] = usb[s] \/ \E h \in Node \ {n} : Choosing(h) /\ cmd[h].stick = s
        BY <1>4, <2>2 DEF Quiet, Choosing
      <3> QED
        BY <1>a, <2>1, <2>2, <3>1, <3>2
    <2>3. ASSUME cmd'[n].at = "open" PROVE Held(n, cmd[n].own, cmd[n].own)'
      <3>1. cmd'[n] = cmd[n]
        BY <1>4, <2>3 DEF Quiet
      <3>2. Held(n, cmd[n].own, cmd[n].own)
        BY <2>1, <2>3, <3>1 DEF HeldInv
      <3> QED
        BY <2>2, <2>3, <3>1, <3>2 DEF Held, IsHalf
    <2>4. ASSUME vault'[n] # NoVault PROVE Held(n, vault[n].local, vault[n].usb)'
      <3>1. CASE cmd[n].at = "open" /\ vault'[n] = FirstSeal(n)
        <4>1. Held(n, cmd[n].own, cmd[n].own)
          BY <2>1, <3>1 DEF HeldInv
        <4>2. vault'[n].local = cmd[n].own /\ vault'[n].usb = cmd[n].own
          BY <3>1 DEF FirstSeal
        <4> QED
          BY <2>2, <3>1, <4>1, <4>2 DEF Held, IsHalf
      <3>2. CASE ~(cmd[n].at = "open" /\ vault'[n] = FirstSeal(n))
        <4>1. /\ vault[n] # NoVault
              /\ vault'[n].local = vault[n].local /\ vault'[n].usb = vault[n].usb
          BY <1>4, <2>4, <3>2, FirstRunAssumption DEF Quiet
        <4>2. cmd[n].at \notin {"local", "usb"}
          BY <4>1 DEF TypeInv, StageInv
        <4>3. Held(n, vault[n].local, vault[n].usb)
          BY <2>1, <4>1 DEF HeldInv
        <4> QED
          BY <2>2, <4>1, <4>2, <4>3 DEF Held, IsHalf
      <3> QED
        BY <3>1, <3>2
    <2> QED
      BY <2>3, <2>4
  <1> QED
    BY <1>1, <1>2, <1>3, <1>4, StepKinds

LEMMA InitAdmin == Init => AdminUsable
  BY DEF Init, AdminUsable

(* The admin is sealed when admin.pem is written, and neither again.       *)
LEMMA AdminStep == TypeInv /\ AdminUsable /\ [Next]_vars => AdminUsable'
  <1> SUFFICES ASSUME TypeInv, AdminUsable, [Next]_vars, NEW n \in Node, vault'[n] # NoVault
               PROVE  vault'[n].admin = 0 \/ vault'[n].admin = pem'[n]
    BY DEF AdminUsable
  <1>0. /\ vault \in [Node -> Vault \cup {NoVault}] /\ pem \in [Node -> Nat]
        /\ cmd \in [Node -> Command]
    BY DEF TypeInv, TypeOK
  <1>1. CASE vault' = vault /\ pem' = pem
    BY <1>1 DEF AdminUsable
  <1>2. ASSUME NEW m \in Node, Persist(m)
        PROVE  vault'[n].admin = 0 \/ vault'[n].admin = pem'[n]
    <2>1. /\ vault'[m].admin = 0 /\ pem' = pem
          /\ \A h \in Node \ {m} : vault'[h] = vault[h]
      BY <1>0, <1>2 DEF Persist, FirstSeal
    <2> QED
      BY <2>1 DEF AdminUsable
  <1>3. ASSUME NEW m \in Node, cmd[m].at = "pem", vault' = vault,
               \A h \in Node \ {m} : pem'[h] = pem[h]
        PROVE  vault'[n].admin = 0 \/ vault'[n].admin = pem'[n]
    BY <1>3 DEF AdminUsable, TypeInv, StageInv
  <1>4. ASSUME NEW m \in Node, Close(m)
        PROVE  vault'[n].admin = 0 \/ vault'[n].admin = pem'[n]
    <2>1. vault[m] \in Vault /\ pem[m] = cmd[m].own
      BY <1>4 DEF Close, TypeInv, StageInv
    <2>2. /\ vault'[m] = [vault[m] EXCEPT !.admin = cmd[m].own] /\ pem' = pem
          /\ \A h \in Node \ {m} : vault'[h] = vault[h]
      BY <1>0, <1>4 DEF Close
    <2>3. vault'[m].admin = pem'[m]
      BY <2>1, <2>2 DEF Vault
    <2> QED
      BY <2>2, <2>3 DEF AdminUsable
  <1>5. ASSUME NEW m \in Node, WritePem(m)
        PROVE  cmd[m].at = "pem" /\ vault' = vault /\ \A h \in Node \ {m} : pem'[h] = pem[h]
    BY <1>0, <1>5 DEF WritePem
  <1>6. ASSUME NEW m \in Node, Dies(m)
        PROVE  \/ vault' = vault /\ \A h \in Node : pem'[h] = pem[h]
               \/ cmd[m].at = "pem" /\ vault' = vault /\ \A h \in Node \ {m} : pem'[h] = pem[h]
    <2>1. /\ \A h \in Node : pem'[h] = pem[h] \/ (h = m /\ cmd[m].at = "pem")
          /\ vault' = vault
      BY <1>6, DiesShape DEF TypeInv
    <2> QED
      BY <2>1
  <1>7. CASE vault' = vault /\ \A h \in Node : pem'[h] = pem[h]
    BY <1>7 DEF AdminUsable
  <1>8. ASSUME NEW s \in Stick, NEW m \in Node \cup {NoNode}, Carry(s, m)
        PROVE  vault' = vault /\ pem' = pem
    BY <1>8 DEF Carry
  <1>9. ASSUME NEW m \in Node,
               \/ Begin(m, "run") \/ Begin(m, "init") \/ WriteLocal(m) \/ WriteUsb(m)
               \/ WriteCert(m) \/ Run(m, TRUE) \/ Run(m, FALSE)
        PROVE  vault' = vault /\ pem' = pem
    BY <1>9 DEF Begin, WriteLocal, WriteUsb, WriteCert, Run
  <1> QED
    BY <1>1, <1>2, <1>3, <1>4, <1>5, <1>6, <1>7, <1>8, <1>9 DEF Next, vars

RunInv == TypeInv /\ IdInv /\ ChosenInv /\ HeldInv /\ AdminUsable

LEMMA RunInvariant == Spec => []RunInv
  <1>1. Init => RunInv
    BY InitType, InitId, InitHeld, InitAdmin DEF RunInv
  <1>2. RunInv /\ [Next]_vars => RunInv'
    BY TypeStep, IdStep, ChosenStep, HeldStep, AdminStep DEF RunInv
  <1> QED
    BY <1>1, <1>2, PTL DEF Spec

(* However first runs are cut short and repeated, some stick opens every   *)
(* vault, unless two nodes carry the zero identity.                        *)
THEOREM VaultsOpen == Spec => []VaultOpens
  <1>1. RunInv => VaultOpens
    BY DEF RunInv, HeldInv, Held, VaultOpens, Opens
  <1> QED
    BY <1>1, RunInvariant, PTL

(* The admin a vault knows can log in with admin.pem.                      *)
THEOREM AdminsUsable == Spec => []AdminUsable
  <1>1. RunInv => AdminUsable
    BY DEF RunInv
  <1> QED
    BY <1>1, RunInvariant, PTL
=============================================================================
