------------------------------ MODULE FirstRun ------------------------------
(***************************************************************************)
(* The first run of a node and the two halves of its master key: pp init,  *)
(* pp run and initNode of cmd/server/main.go, the choice of a stick of     *)
(* cmd/server/usb_common.go, the half files of internal/crypto/master.go.  *)
(*                                                                         *)
(* Sticks are carried between machines.  A command is a sequence of file   *)
(* writes and may be killed, or fail, before or during each of them; a     *)
(* write that is cut short leaves a file that does not parse.  The vault   *)
(* is replaced by rename (module Vault).  A stick stays in its machine     *)
(* from the scan to the write of its half: the code writes to the path it  *)
(* scanned, whatever is mounted there by then.                             *)
(*                                                                         *)
(* Random values are serial numbers: every first run draws a new one.  The *)
(* explicit single-file key (-key, -rescue-out) is left out.               *)
(***************************************************************************)
EXTENDS Naturals

CONSTANTS
  Node,      \* machines, each with one data directory
  Stick,
  NoNode,    \* the place of a stick that is in no machine
  Nothing,   \* no such file
  Corrupt,   \* a half file that does not parse, or of the old format
  NoVault,
  MaxRuns    \* bound: first runs begun

Half == [id : Nat, raw : Nat]
Zero == 0
File == Half \cup {Nothing, Corrupt}
Vault == [local : Nat, usb : Nat, admin : Nat]

ASSUME FirstRunAssumption ==
  /\ NoNode \notin Node
  /\ Nothing \notin Half /\ Corrupt \notin Half /\ Nothing # Corrupt
  /\ NoVault \notin Vault
  /\ MaxRuns \in Nat

VARIABLES
  local,    \* per node: <data>/pp.local
  usb,      \* per stick: pp.key
  place,    \* per stick: the machine it is in
  vault,    \* per node: the raw halves of its key, the admin it knows (0: none)
  pem,      \* per node: the admin whose key is in admin.pem (0: none, or cut short)
  certs,    \* per node: how many of the certificate files are written
  cmd,      \* per node: the command that runs
  serial,   \* the last number drawn
  zeroed    \* history: nodes that wrote halves with the zero identity

vars == <<local, usb, place, vault, pem, certs, cmd, serial, zeroed>>

(* ca.crt, ca.key, tls.crt, tls.key, in this order.                        *)
CertFiles == 4

Off == [at |-> "off", what |-> "run", stick |-> NoNode, id |-> Zero, own |-> 0]

Init ==
  /\ local = [n \in Node |-> Nothing]
  /\ usb \in [Stick -> {Nothing, Corrupt}]
  /\ place = [s \in Stick |-> NoNode]
  /\ vault = [n \in Node |-> NoVault]
  /\ pem = [n \in Node |-> 0]
  /\ certs = [n \in Node |-> 0]
  /\ cmd = [n \in Node |-> Off]
  /\ serial = 0
  /\ zeroed = {}

-----------------------------------------------------------------------------
(* The choice of a stick.                                                  *)
IsHalf(f) == f \notin {Nothing, Corrupt}

Sticks(n) == {s \in Stick : place[s] = n}

(* With a local half: the sticks that carry the same identity.             *)
AnyHalf(n) == {s \in Sticks(n) : IsHalf(usb[s])}
Compatible(n) ==
  IF IsHalf(local[n])
  THEN {s \in Sticks(n) : IsHalf(usb[s]) /\ usb[s].id = local[n].id} ELSE {}

(* Without one: the sticks that hold no pp.key of any kind.                *)
Clean(n) == {s \in Sticks(n) : usb[s] = Nothing}

Resolved(n) == IF local[n] = Nothing THEN Clean(n) ELSE Compatible(n)

(* Only resolveUsbCreate fills in the identity of the new halves.          *)
Identity(n) == IF local[n] = Nothing THEN serial + 1 ELSE Zero

Always(n) == TRUE
NoVaultYet(n) == vault[n] = NoVault

-----------------------------------------------------------------------------
(* A stick is plugged in, pulled out or carried over.                      *)
Writing(n, s) == cmd[n].at \in {"local", "usb"} /\ cmd[n].stick = s

Carry(s, m) ==
  /\ m # place[s]
  /\ \A n \in Node : ~Writing(n, s)
  /\ place' = [place EXCEPT ![s] = m]
  /\ UNCHANGED <<local, usb, vault, pem, certs, cmd, serial, zeroed>>

At(n, stage) == cmd' = [cmd EXCEPT ![n].at = stage]

(* pp init, or pp run without a vault: the scan and the operator's choice.  *)
(* A choice the code refuses changes nothing.                              *)
Begin(n, what) ==
  /\ cmd[n].at = "off" /\ NoVaultYet(n) /\ serial < MaxRuns
  /\ \E s \in Resolved(n) :
       cmd' = [cmd EXCEPT ![n] = [at |-> "local", what |-> what, stick |-> s,
                                  id |-> Identity(n), own |-> serial + 1]]
  /\ serial' = serial + 1
  /\ UNCHANGED <<local, usb, place, vault, pem, certs, zeroed>>

NewHalf(n) == [id |-> cmd[n].id, raw |-> cmd[n].own]

(* CreateHalvesWithID: the local half first, then the stick.               *)
WriteLocal(n) ==
  /\ cmd[n].at = "local"
  /\ local' = [local EXCEPT ![n] = NewHalf(n)]
  /\ zeroed' = IF cmd[n].id = Zero THEN zeroed \cup {n} ELSE zeroed
  /\ At(n, "usb")
  /\ UNCHANGED <<usb, place, vault, pem, certs, serial>>

WriteUsb(n) ==
  /\ cmd[n].at = "usb"
  /\ usb' = [usb EXCEPT ![cmd[n].stick] = NewHalf(n)]
  /\ At(n, "open")
  /\ UNCHANGED <<local, place, vault, pem, certs, serial, zeroed>>

(* initNode: Open a new database and seal it, before there is an admin.    *)
FirstSealWithAdmin(n) == [local |-> cmd[n].own, usb |-> cmd[n].own, admin |-> cmd[n].own]
FirstSeal(n) == [local |-> cmd[n].own, usb |-> cmd[n].own, admin |-> 0]

Persist(n) ==
  /\ cmd[n].at = "open"
  /\ vault' = [vault EXCEPT ![n] = FirstSeal(n)]
  /\ At(n, "pem")
  /\ UNCHANGED <<local, usb, place, pem, certs, serial, zeroed>>

(* ca.Create, then the only copy of the private key.                       *)
WritePem(n) ==
  /\ cmd[n].at = "pem"
  /\ pem' = [pem EXCEPT ![n] = cmd[n].own]
  /\ At(n, "close")
  /\ UNCHANGED <<local, usb, place, vault, certs, serial, zeroed>>

Finished(n) == IF cmd[n].what = "run" THEN "serve" ELSE "off"

(* Close seals the admin; -no-tls of pp init ends there.                   *)
Close(n) ==
  /\ cmd[n].at = "close"
  /\ vault' = [vault EXCEPT ![n].admin = cmd[n].own]
  /\ At(n, "certs") \/ (cmd[n].what = "init" /\ At(n, "off"))
  /\ UNCHANGED <<local, usb, place, pem, certs, serial, zeroed>>

AfterCertPast(n) == IF certs[n] = CertFiles THEN Finished(n) ELSE "certs"
AfterCert(n) == IF certs[n] + 1 = CertFiles THEN Finished(n) ELSE "certs"

WriteCert(n) ==
  /\ cmd[n].at = "certs"
  /\ certs' = [certs EXCEPT ![n] = @ + 1]
  /\ At(n, AfterCert(n))
  /\ UNCHANGED <<local, usb, place, vault, pem, serial, zeroed>>

-----------------------------------------------------------------------------
(* pp run with a vault: KeyFromHalves and db.Open.  Without -tls=false the  *)
(* certificate files are needed; initNode is not called again.             *)
Opens(n, s) ==
  /\ local[n].raw = vault[n].local
  /\ usb[s].raw = vault[n].usb

Run(n, https) ==
  /\ cmd[n].at = "off" /\ ~NoVaultYet(n)
  /\ https => certs[n] = CertFiles
  /\ \E s \in Compatible(n) :
       /\ Opens(n, s)
       /\ cmd' = [cmd EXCEPT ![n] = [at |-> "serve", what |-> "run", stick |-> s,
                                     id |-> Zero, own |-> 0]]
  /\ UNCHANGED <<local, usb, place, vault, pem, certs, serial, zeroed>>

(* The command is stopped, killed or fails; the watchdog ends it when the  *)
(* stick is pulled.  A file it was writing may be cut short.               *)
Dies(n) ==
  LET s == cmd[n].stick IN
  /\ cmd[n].at # "off"
  /\ cmd' = [cmd EXCEPT ![n] = Off]
  /\ local' \in {local} \cup
       (IF cmd[n].at = "local" THEN {[local EXCEPT ![n] = Corrupt]} ELSE {})
  /\ usb' \in {usb} \cup
       (IF cmd[n].at = "usb" THEN {[usb EXCEPT ![s] = Corrupt]} ELSE {})
  /\ pem' \in {pem} \cup
       (IF cmd[n].at = "pem" THEN {[pem EXCEPT ![n] = 0]} ELSE {})
  /\ UNCHANGED <<place, vault, certs, serial, zeroed>>

Next ==
  \/ \E s \in Stick : \E m \in Node \cup {NoNode} : Carry(s, m)
  \/ \E n \in Node :
       \/ Begin(n, "run") \/ Begin(n, "init")
       \/ WriteLocal(n) \/ WriteUsb(n) \/ Persist(n) \/ WritePem(n)
       \/ Close(n) \/ WriteCert(n)
       \/ Run(n, TRUE) \/ Run(n, FALSE)
       \/ Dies(n)

Spec == Init /\ [][Next]_vars

-----------------------------------------------------------------------------
Stages == {"off", "local", "usb", "open", "pem", "close", "certs", "serve"}
Command == [at : Stages, what : {"run", "init"}, stick : Stick \cup {NoNode},
            id : Nat, own : Nat]

(* Type invariant.  A command that writes has a stick and a number drawn,  *)
(* and no node has more certificate files than there are.                  *)
TypeOK ==
  /\ local \in [Node -> File]
  /\ usb \in [Stick -> File]
  /\ place \in [Stick -> Node \cup {NoNode}]
  /\ vault \in [Node -> Vault \cup {NoVault}]
  /\ pem \in [Node -> Nat]
  /\ certs \in [Node -> 0..CertFiles]
  /\ cmd \in [Node -> Command]
  /\ \A n \in Node : cmd[n].at \notin {"off", "serve"} =>
       cmd[n].own \in 1..serial
  /\ \A n \in Node : cmd[n].at \in {"local", "usb"} => cmd[n].stick \in Stick
  /\ serial \in 0..MaxRuns
  /\ zeroed \subseteq Node

(* A vault can be opened: however often first runs were cut short and       *)
(* repeated, here and on machines that share the sticks, the local half of  *)
(* a node with a vault and some stick still give its key (the comment of    *)
(* resolveKeySource: a stick that already holds a pp.key is never           *)
(* overwritten).  Two nodes that both repeated a first run are excepted:    *)
(* their halves carry the same, zero identity.                              *)
Clash(n) == n \in zeroed /\ \E m \in Node \ {n} : m \in zeroed

VaultOpens ==
  \A n \in Node : vault[n] # NoVault /\ ~Clash(n) =>
    /\ IsHalf(local[n])
    /\ \E s \in Stick :
         IsHalf(usb[s]) /\ usb[s].id = local[n].id /\ Opens(n, s)

(* Nobody is locked out: the admin that a vault knows is the one whose key  *)
(* is in admin.pem, which is never issued again (initNode, ca.Create).      *)
AdminUsable ==
  \A n \in Node : vault[n] # NoVault =>
    vault[n].admin = 0 \/ vault[n].admin = pem[n]
=============================================================================
