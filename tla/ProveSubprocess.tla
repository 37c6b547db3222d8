-------------------------- MODULE ProveSubprocess --------------------------
(***************************************************************************)
(* prove_subprocess (script/src/bin/main.rs): a host hands the input of a  *)
(* guest program to a child process through a file, waits for the child to *)
(* exit, and reads the proof from a second file.  Both files are named     *)
(* after the program only, and lie in the machine's temporary directory,   *)
(* where an interrupted run leaves them for the next one to meet.          *)
(*                                                                         *)
(* A proof stands for the input it was made from.  fs::write opens and     *)
(* truncates, then writes, in two steps; a process that opened a file      *)
(* which is removed meanwhile writes to no name.                           *)
(***************************************************************************)
EXTENDS Naturals, FiniteSets

CONSTANTS
    Hosts,          \* runs of the binary that share a temporary directory
    Elfs, Inputs,   \* the guest programs, and what they may be asked to prove
    Spend,          \* the one of them whose proof commits to a board root
    RootOf          \* the board root an input of Spend is anchored at

(* What reading a file yields if there is no whole content to read.        *)
Unreadable == {"absent", "torn"}

ASSUME InputsAssumption == /\ Spend \in Elfs
                           /\ DOMAIN RootOf = Inputs
                           /\ Inputs \intersect Unreadable = {}

VARIABLES
    host,    \* per host, where it is in prove_subprocess and with which job
    child,   \* per host, the child process it has spawned
    files    \* the temporary directory: per program, its two files

vars == <<host, child, files>>

Idle == [pc |-> "idle"]
NoChild == [pc |-> "none"]
NoFile == [openers |-> {}, data |-> "absent"]

InPrepare == {"create", "fill", "spawn", "wait"}
HoldsProof == {"rm_stdin", "rm_proof", "returned", "accepted", "assert_failed"}
Calls == [pc : InPrepare \union {"read_proof", "child_failed", "read_failed"},
          elf : Elfs, input : Inputs]
Answers == [pc : HoldsProof, elf : Elfs, input : Inputs, proof : Inputs]

Children == [pc : {"read", "exit_ok", "exit_err"}, elf : Elfs]
Provers == [pc : {"prove", "create", "fill"}, elf : Elfs, input : Inputs]

Kinds == {"stdin", "proof"}
Files == [openers : SUBSET (Hosts \X {"host", "child"}), data : Inputs \union Unreadable]

(* open(.., O_CREAT | O_TRUNC) and write of std::fs::write, by process w.  *)
Open(elf, kind, w) ==
    files' = [files EXCEPT ![elf][kind] =
                 [openers |-> @.openers \union {w}, data |-> "torn"]]

Fill(elf, kind, w, data) ==
    files' = [files EXCEPT ![elf][kind] =
                 IF w \in @.openers
                 THEN [openers |-> @.openers \ {w}, data |-> data] ELSE @]

Remove(elf, kind) == files' = [files EXCEPT ![elf][kind] = NoFile]

Content(elf, kind) == files[elf][kind].data

At(h, pc) == host[h].pc = pc
Goto(h, pc) == host' = [host EXCEPT ![h].pc = pc]
ChildAt(h, pc) == child[h].pc = pc
ChildGoto(h, pc) == child' = [child EXCEPT ![h].pc = pc]

-----------------------------------------------------------------------------
Init == /\ host = [h \in Hosts |-> Idle]
        /\ child = [h \in Hosts |-> NoChild]
        /\ files = [e \in Elfs |-> [k \in Kinds |-> NoFile]]

Call(h) ==
    /\ host[h].pc \in {"idle", "accepted"}
    /\ \E elf \in Elfs, input \in Inputs :
         host' = [host EXCEPT ![h] = [pc |-> "create", elf |-> elf, input |-> input]]
    /\ UNCHANGED <<child, files>>

(* std::fs::write(&stdin_path, stdin_bytes)                                *)
CreateStdin(h) ==
    /\ At(h, "create")
    /\ Open(host[h].elf, "stdin", <<h, "host">>)
    /\ Goto(h, "fill")
    /\ UNCHANGED child

FillStdin(h) ==
    /\ At(h, "fill")
    /\ Fill(host[h].elf, "stdin", <<h, "host">>, host[h].input)
    /\ Goto(h, "spawn")
    /\ UNCHANGED child

Spawn(h) ==
    /\ At(h, "spawn")
    /\ child' = [child EXCEPT ![h] = [pc |-> "read", elf |-> host[h].elf]]
    /\ Goto(h, "wait")
    /\ UNCHANGED files

(* Mutant: any exit ends the wait well.                                    *)
ReapAnyStatus(h) ==
    /\ At(h, "wait")
    /\ child[h].pc \in {"exit_ok", "exit_err"}
    /\ Goto(h, "read_proof")
    /\ child' = [child EXCEPT ![h] = NoChild]
    /\ UNCHANGED files

(* Mutant: the poll does not wait for a child that has the output open.    *)
ReapEarly(h) ==
    /\ At(h, "wait")
    /\ child[h].pc \in {"exit_ok", "exit_err", "fill"}
    /\ Goto(h, IF ChildAt(h, "exit_err") THEN "child_failed" ELSE "read_proof")
    /\ child' = [child EXCEPT ![h] = NoChild]
    /\ UNCHANGED files

(* Mutant: the poll loop only knows success.                               *)
ReapSuccess(h) ==
    /\ At(h, "wait")
    /\ ChildAt(h, "exit_ok")
    /\ Goto(h, "read_proof")
    /\ child' = [child EXCEPT ![h] = NoChild]
    /\ UNCHANGED files

(* wait_tracking_peak_memory, and the assertion on the exit status.        *)
Reap(h) ==
    /\ At(h, "wait")
    /\ child[h].pc \in {"exit_ok", "exit_err"}
    /\ Goto(h, IF ChildAt(h, "exit_ok") THEN "read_proof" ELSE "child_failed")
    /\ child' = [child EXCEPT ![h] = NoChild]
    /\ UNCHANGED files

ReadProof(h) ==
    /\ At(h, "read_proof")
    /\ LET data == Content(host[h].elf, "proof")
       IN  IF data \in Unreadable THEN Goto(h, "read_failed")
           ELSE host' = [host EXCEPT ![h] =
                    [pc |-> "rm_stdin", elf |-> @.elf, input |-> @.input, proof |-> data]]
    /\ UNCHANGED <<child, files>>

(* The result of remove_file is ignored.                                   *)
RemoveStdin(h) ==
    /\ At(h, "rm_stdin")
    /\ Remove(host[h].elf, "stdin")
    /\ Goto(h, "rm_proof")
    /\ UNCHANGED child

RemoveProof(h) ==
    /\ At(h, "rm_proof")
    /\ Remove(host[h].elf, "proof")
    /\ Goto(h, "returned")
    /\ UNCHANGED child

(* The caller: of a spend's proof main asserts the board root.             *)
Accept(h) ==
    /\ At(h, "returned")
    /\ Goto(h, IF host[h].elf = Spend /\ RootOf[host[h].proof] # RootOf[host[h].input]
               THEN "assert_failed" ELSE "accepted")
    /\ UNCHANGED <<child, files>>

-----------------------------------------------------------------------------
(* run_internal_prove                                                      *)
ChildRead(h) ==
    /\ ChildAt(h, "read")
    /\ LET data == Content(child[h].elf, "stdin")
       IN  child' = [child EXCEPT ![h] =
               IF data \in Unreadable THEN [pc |-> "exit_err", elf |-> @.elf]
               ELSE [pc |-> "prove", elf |-> @.elf, input |-> data]]
    /\ UNCHANGED <<host, files>>

ChildProve(h) ==
    /\ ChildAt(h, "prove")
    /\ ChildGoto(h, "create")
    /\ UNCHANGED <<host, files>>

ChildCreate(h) ==
    /\ ChildAt(h, "create")
    /\ Open(child[h].elf, "proof", <<h, "child">>)
    /\ ChildGoto(h, "fill")
    /\ UNCHANGED host

ChildFill(h) ==
    /\ ChildAt(h, "fill")
    /\ Fill(child[h].elf, "proof", <<h, "child">>, child[h].input)
    /\ child' = [child EXCEPT ![h] = [pc |-> "exit_ok", elf |-> @.elf]]
    /\ UNCHANGED host

(* Every open file is closed when its process ends.                        *)
Closed(processes) ==
    [e \in Elfs |-> [k \in Kinds |->
        [files[e][k] EXCEPT !.openers = @ \ processes]]]

(* A panic of the prover, or the kernel short of memory.                   *)
ChildDies(h) ==
    /\ child[h].pc \in {"read", "prove", "create", "fill"}
    /\ child' = [child EXCEPT ![h] = [pc |-> "exit_err", elf |-> @.elf]]
    /\ files' = Closed({<<h, "child">>})
    /\ UNCHANGED host

(* Mutant: the child goes on when its host is interrupted.                 *)
InterruptHostOnly(h) ==
    /\ ~At(h, "idle")
    /\ host' = [host EXCEPT ![h] = Idle]
    /\ files' = Closed({<<h, "host">>})
    /\ UNCHANGED child

(* The run ends, by a panic or interrupted at any point together with its  *)
(* child, and is started again.                                            *)
Interrupt(h) ==
    /\ ~At(h, "idle")
    /\ host' = [host EXCEPT ![h] = Idle]
    /\ child' = [child EXCEPT ![h] = NoChild]
    /\ files' = Closed({h} \X {"host", "child"})

HostStep(h) ==
    \/ CreateStdin(h) \/ FillStdin(h) \/ Spawn(h) \/ Reap(h)
    \/ ReadProof(h) \/ RemoveStdin(h) \/ RemoveProof(h) \/ Accept(h)

ChildStep(h) == ChildRead(h) \/ ChildProve(h) \/ ChildCreate(h) \/ ChildFill(h)

Next == \E h \in Hosts : \/ Call(h) \/ HostStep(h)
                         \/ ChildStep(h) \/ ChildDies(h) \/ Interrupt(h)

Spec == Init /\ [][Next]_vars

(* Processes are scheduled, and proving ends.                              *)
FairSpec == Spec /\ \A h \in Hosts : WF_vars(HostStep(h)) /\ WF_vars(ChildStep(h))

-----------------------------------------------------------------------------
(* Type invariant; a host has a child exactly while it waits for it.       *)
TypeOK ==
    /\ host \in [Hosts -> {Idle} \union Calls \union Answers]
    /\ child \in [Hosts -> {NoChild} \union Children \union Provers]
    /\ \A h \in Hosts : At(h, "wait") <=> ~ChildAt(h, "none")
    /\ files \in [Elfs -> [Kinds -> Files]]

(* What prove_subprocess returns is a proof of the input it was given,     *)
(* whatever earlier runs were interrupted in and left behind.              *)
ProofAnswersRequest ==
    \A h \in Hosts : host[h].pc \in HoldsProof => host[h].proof = host[h].input

(* Once a child has reported success its proof is there and whole:         *)
(* expect("read proof file") and the decoding after it never panic.        *)
SuccessMeansProof == \A h \in Hosts : ~At(h, "read_failed")

(* main, on a spend's proof: assert_eq!(pv.board_root,                     *)
(* merkle_root_of(&entries)).                                              *)
BoardRootAsserted == \A h \in Hosts : ~At(h, "assert_failed")

(* Every call ends: with a proof, with a child that failed, or with the    *)
(* run.                                                                    *)
CallEnds ==
    \A h \in Hosts :
        At(h, "create") ~> host[h].pc \in {"accepted", "child_failed", "idle"}
=============================================================================
