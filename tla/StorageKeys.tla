----------------------------- MODULE StorageKeys -----------------------------
(***************************************************************************)
(* storage.py: encrypted databases and their keys in the secret store of   *)
(* the operating system, as the commands of tk-storage change them.        *)
(*                                                                         *)
(* A path has two entries in the secret store, the key and the pending key *)
(* of a rotation.  File, entries and command know nothing of each other:   *)
(* every call of the secret store and of the file system is a step, each   *)
(* can fail, and the process can die between any two.  An operator runs    *)
(* one command at a time.                                                  *)
(***************************************************************************)
EXTENDS Naturals

CONSTANTS Path,    \* of databases
          MaxKeys  \* bound of generated keys in TLC's instances

ASSUME KeyAssumption == MaxKeys \in Nat

NoKey == 0

VARIABLES file,     \* file[d]: the key that opens the file at d, if there is one
          primary,  \* primary[d], pending[d]: what the secret store has for d
          pending,
          made,     \* keys generated so far
          cmd       \* the command that runs

keyVars == <<file, primary, pending, made, cmd>>

Idle == [at |-> "idle", db |-> NoKey, key |-> NoKey]

KeyInit ==
  /\ file = [d \in Path |-> NoKey]
  /\ primary = [d \in Path |-> NoKey]
  /\ pending = [d \in Path |-> NoKey]
  /\ made = 0
  /\ cmd = Idle

\* secrets.token_hex.
Generate ==
  /\ made < MaxKeys
  /\ made' = made + 1

At(where, d) == cmd.at = where /\ cmd.db = d

\* The command goes on with its key, or is over.
GoTo(where) == cmd' = IF where = "idle" THEN Idle ELSE [cmd EXCEPT !.at = where]

Begin(where, d, key) == cmd' = [at |-> where, db |-> d, key |-> key]

\* connect: only with the key, and never beside a pending one.
Opens(d) == file[d] # NoKey /\ pending[d] = NoKey /\ primary[d] = file[d]

-----------------------------------------------------------------------------
(* initialize_encrypted, and copy_database to a path without a file. *)

\* The key is stored before there is a file.  That a copy also needs a source
\* makes no difference here.
InitKey(d) ==
  /\ cmd = Idle /\ file[d] = NoKey
  /\ Generate
  /\ primary' = [primary EXCEPT ![d] = made']
  /\ Begin("create", d, made')
  /\ UNCHANGED <<file, pending>>

\* A copy has all of its data in a temporary file by then.
Create(d) ==
  /\ At("create", d)
  /\ file' = [file EXCEPT ![d] = cmd.key]
  /\ GoTo("idle")
  /\ UNCHANGED <<primary, pending, made>>

\* Opening or checking a new file fails: the file is removed, then the key.
CreateFails(d) ==
  /\ At("create", d)
  /\ GoTo("discard")
  /\ UNCHANGED <<file, primary, pending, made>>

Discard(d) ==
  /\ At("discard", d)
  /\ primary' \in {primary, [primary EXCEPT ![d] = NoKey]}
  /\ GoTo("idle")
  /\ UNCHANGED <<file, pending, made>>

\* copy_database and restore_database over an existing file: the new file is
\* encrypted with the key stored for the old one, whether or not it opens it.
Replace(s, d) ==
  /\ cmd = Idle /\ s # d
  /\ Opens(s) /\ file[d] # NoKey /\ primary[d] # NoKey
  /\ file' = [file EXCEPT ![d] = primary[d]]
  /\ UNCHANGED <<primary, pending, made, cmd>>

-----------------------------------------------------------------------------
(* rekey. *)

Announce(d) ==
  /\ cmd = Idle
  /\ pending[d] = NoKey /\ primary[d] # NoKey
  /\ Generate
  /\ pending' = [pending EXCEPT ![d] = made']
  /\ Begin("reencrypt", d, made')
  /\ UNCHANGED <<file, primary>>

\* PRAGMA rekey is a transaction.
Reencrypt(d) ==
  /\ At("reencrypt", d)
  /\ file[d] # NoKey /\ file[d] = primary[d]
  /\ file' = [file EXCEPT ![d] = cmd.key]
  /\ GoTo("install")
  /\ UNCHANGED <<primary, pending, made>>

\* The primary key is replaced once the new one has been seen to open the file.
Install(d) ==
  /\ At("install", d)
  /\ file[d] = cmd.key
  /\ primary' = [primary EXCEPT ![d] = cmd.key]
  /\ GoTo("forget")
  /\ UNCHANGED <<file, pending, made>>

\* _delete_key, best effort.
Forget(d) ==
  /\ At("forget", d)
  /\ pending' \in {pending, [pending EXCEPT ![d] = NoKey]}
  /\ GoTo("idle")
  /\ UNCHANGED <<file, primary, made>>

-----------------------------------------------------------------------------
(* recover_rekey. *)

\* Mutation of Candidates: a rotation that began is taken for finished.
CandidatesUnprobed(d) == {IF pending[d] # NoKey THEN pending[d] ELSE primary[d]} \ {NoKey}

\* The stored keys that open the file; the primary one is tried first, but two
\* that open it are equal.
Candidates(d) == {k \in {primary[d], pending[d]} : k # NoKey /\ k = file[d]}

Recover(d) ==
  /\ cmd = Idle
  /\ \E k \in Candidates(d) :
       /\ primary' = [primary EXCEPT ![d] = k]
       /\ Begin("forget", d, k)
  /\ UNCHANGED <<file, pending, made>>

-----------------------------------------------------------------------------
\* A call fails or the process dies; nothing is rolled back.
Break ==
  /\ cmd # Idle
  /\ GoTo("idle")
  /\ UNCHANGED <<file, primary, pending, made>>

\* Somebody removes a file; its entries stay.
Remove(d) ==
  /\ cmd = Idle /\ file[d] # NoKey
  /\ file' = [file EXCEPT ![d] = NoKey]
  /\ UNCHANGED <<primary, pending, made, cmd>>

KeyNext ==
  \/ \E d \in Path :
       \/ InitKey(d) \/ Create(d) \/ CreateFails(d) \/ Discard(d)
       \/ Announce(d) \/ Reencrypt(d) \/ Install(d) \/ Forget(d)
       \/ Recover(d) \/ Remove(d)
  \/ \E s, d \in Path : Replace(s, d)
  \/ Break

KeySpec == KeyInit /\ [][KeyNext]_keyVars

-----------------------------------------------------------------------------
KeyTypeOK ==
  /\ file \in [Path -> 0..made]
  /\ primary \in [Path -> 0..made]
  /\ pending \in [Path -> 0..made]
  /\ made \in Nat
  /\ cmd \in [at : {"idle", "create", "discard", "reencrypt", "install", "forget"},
              db : Path \cup {NoKey}, key : 0..made]

\* The comment in rekey, "the pending key makes either crash point recoverable",
\* for all commands in any order: a stored key opens every file, and without a
\* pending key the primary one does, so that a program that starts can open it.
KeyOpens ==
  \A d \in Path : file[d] # NoKey =>
    IF pending[d] = NoKey THEN primary[d] = file[d] ELSE file[d] \in {primary[d], pending[d]}
=============================================================================
