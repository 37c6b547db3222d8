----------------------- MODULE ProveSubprocessProofs -----------------------
(* Theorems about ProveSubprocess for one run at a time on a machine, with *)
(* any programs and inputs, restarted any number of times.                 *)
EXTENDS ProveSubprocess, TLAPS

Live == {"read", "prove", "create", "fill", "exit_ok", "exit_err"}

(* The input file of the job holds its input from when it is written.      *)
StdinInv(h) ==
    /\ At(h, "fill") => <<h, "host">> \in files[host[h].elf]["stdin"].openers
    /\ host[h].pc \in {"spawn", "wait"} => Content(host[h].elf, "stdin") = host[h].input

(* The child works on the job's program and input; when it has ended well, *)
(* the output file holds the proof.                                        *)
ChildInv(h) ==
    /\ At(h, "wait") => /\ child[h].pc \in Live
                        /\ child[h].elf = host[h].elf
    /\ ~At(h, "wait") => child[h].pc = "none"
    /\ child[h].pc \in {"prove", "create", "fill"} => child[h].input = host[h].input
    /\ ChildAt(h, "fill") => <<h, "child">> \in files[host[h].elf]["proof"].openers
    /\ (ChildAt(h, "exit_ok") \/ At(h, "read_proof")) =>
          Content(host[h].elf, "proof") = host[h].input

AnswerInv(h) ==
    /\ host[h].pc \in HoldsProof => host[h].proof = host[h].input
    /\ ~At(h, "read_failed")

AloneInv(h) == StdinInv(h) /\ ChildInv(h) /\ AnswerInv(h)

(* What the conditions on pc say of the records.                           *)
LEMMA Shapes ==
    ASSUME TypeOK, NEW h \in Hosts
    PROVE  /\ host[h].pc \in InPrepare \union {"read_proof", "child_failed", "read_failed"}
                 => host[h] \in Calls
           /\ host[h].pc \in HoldsProof => host[h] \in Answers
           /\ child[h].pc \in {"read", "exit_ok", "exit_err"} => child[h] \in Children
           /\ child[h].pc \in {"prove", "create", "fill"} => child[h] \in Provers
  BY DEF TypeOK, Calls, Answers, Children, Provers, Idle, NoChild, HoldsProof, InPrepare

(* Moving on changes the position and nothing else.                        *)
LEMMA GotoKeeps ==
    ASSUME TypeOK, NEW h \in Hosts, NEW pc, Goto(h, pc)
    PROVE  /\ host[h] \in Calls =>
                 host'[h] = [pc |-> pc, elf |-> host[h].elf, input |-> host[h].input]
           /\ host[h] \in Answers =>
                 host'[h] = [pc |-> pc, elf |-> host[h].elf, input |-> host[h].input,
                             proof |-> host[h].proof]
           /\ \A g \in Hosts \ {h} : host'[g] = host[g]
           /\ host' = [g \in Hosts |-> host'[g]]
  BY DEF TypeOK, Goto, Calls, Answers

(* One file written, the others left alone.                                *)
LEMMA OneFile ==
    ASSUME NEW f \in [Elfs -> [Kinds -> Files]],
           NEW elf \in Elfs, NEW kind \in Kinds, NEW file \in Files,
           NEW g, g = [f EXCEPT ![elf][kind] = file]
    PROVE  /\ g \in [Elfs -> [Kinds -> Files]]
           /\ g[elf][kind] = file
           /\ \A e \in Elfs, k \in Kinds : e # elf \/ k # kind => g[e][k] = f[e][k]
<1>1. f[elf] \in [Kinds -> Files]
  OBVIOUS
<1>2. [f[elf] EXCEPT ![kind] = file] \in [Kinds -> Files]
  BY <1>1
<1>3. g = [f EXCEPT ![elf] = [f[elf] EXCEPT ![kind] = file]]
  OBVIOUS
<1> QED
  BY <1>1, <1>2, <1>3

(* What open, write and remove leave of the temporary directory.           *)
LEMMA OpenKeepsType ==
    ASSUME TypeOK, NEW elf \in Elfs, NEW kind \in Kinds,
           NEW w \in Hosts \X {"host", "child"}, Open(elf, kind, w)
    PROVE  /\ files' \in [Elfs -> [Kinds -> Files]]
           /\ w \in files'[elf][kind].openers
           /\ \A e \in Elfs, k \in Kinds :
                 e # elf \/ k # kind => files'[e][k] = files[e][k]
<1> DEFINE file == [openers |-> files[elf][kind].openers \union {w}, data |-> "torn"]
<1>1. files[elf][kind] \in Files
  BY DEF TypeOK
<1>2. file \in Files
  BY <1>1 DEF Files, Unreadable
<1>3. PICK new \in Files : new = file
  BY <1>2
<1>4. files' = [files EXCEPT ![elf][kind] = new]
  BY <1>3 DEF Open
<1>5. /\ files' \in [Elfs -> [Kinds -> Files]]
      /\ files'[elf][kind] = new
      /\ \A e \in Elfs, k \in Kinds :
            e # elf \/ k # kind => files'[e][k] = files[e][k]
  BY <1>4, OneFile DEF TypeOK
<1> QED
  BY <1>3, <1>5

(* The type of the directory after a write to an open file.                *)
LEMMA FillKeepsType ==
    ASSUME TypeOK, NEW elf \in Elfs, NEW kind \in Kinds,
           NEW w \in Hosts \X {"host", "child"}, NEW data \in Inputs,
           Fill(elf, kind, w, data)
    PROVE  /\ files' \in [Elfs -> [Kinds -> Files]]
           /\ w \in files[elf][kind].openers => files'[elf][kind].data = data
           /\ \A e \in Elfs, k \in Kinds :
                 e # elf \/ k # kind => files'[e][k] = files[e][k]
<1> DEFINE file == IF w \in files[elf][kind].openers
                   THEN [openers |-> files[elf][kind].openers \ {w}, data |-> data]
                   ELSE files[elf][kind]
<1>1. files[elf][kind] \in Files
  BY DEF TypeOK
<1>2. file \in Files
  BY <1>1 DEF Files
<1>3. PICK new \in Files : new = file
  BY <1>2
<1>4. files' = [files EXCEPT ![elf][kind] = new]
  BY <1>3 DEF Fill
<1>5. /\ files' \in [Elfs -> [Kinds -> Files]]
      /\ files'[elf][kind] = new
      /\ \A e \in Elfs, k \in Kinds :
            e # elf \/ k # kind => files'[e][k] = files[e][k]
  BY <1>4, OneFile DEF TypeOK
<1> QED
  BY <1>3, <1>5

(* The type of the directory after fs::remove_file.                        *)
LEMMA RemoveKeepsType ==
    ASSUME TypeOK, NEW elf \in Elfs, NEW kind \in Kinds, Remove(elf, kind)
    PROVE  /\ files' \in [Elfs -> [Kinds -> Files]]
           /\ \A e \in Elfs, k \in Kinds :
                 e # elf \/ k # kind => files'[e][k] = files[e][k]
<1>1. NoFile \in Files
  BY DEF NoFile, Files, Unreadable
<1> QED
  BY <1>1, OneFile DEF Remove, TypeOK

(* The end of a process touches no content.                                *)
LEMMA ClosedTyped ==
    ASSUME TypeOK, NEW ws PROVE Closed(ws) \in [Elfs -> [Kinds -> Files]]
<1> SUFFICES ASSUME NEW e \in Elfs, NEW k \in Kinds
             PROVE  [files[e][k] EXCEPT !.openers = @ \ ws] \in Files
  BY DEF Closed
<1>1. files[e][k] \in Files
  BY DEF TypeOK
<1> QED
  BY <1>1 DEF Files

-----------------------------------------------------------------------------
(* The invariant of one run alone on the machine is inductive.             *)
LEMMA AloneStep ==
    ASSUME NEW h, Hosts = {h}, TypeOK, AloneInv(h), [Next]_vars
    PROVE  TypeOK' /\ AloneInv(h)'
<1> USE Hosts = {h}, InputsAssumption
<1> DEFINE me == <<h, "host">>
           kid == <<h, "child">>
<1>0. h \in Hosts /\ me \in Hosts \X {"host", "child"} /\ kid \in Hosts \X {"host", "child"}
  OBVIOUS
<1>1. CASE Call(h)
  <2> PICK elf \in Elfs, input \in Inputs :
        host' = [host EXCEPT ![h] = [pc |-> "create", elf |-> elf, input |-> input]]
    BY <1>1 DEF Call
  <2>1. host'[h] = [pc |-> "create", elf |-> elf, input |-> input] /\ UNCHANGED <<child, files>>
    BY <1>0, <1>1 DEF TypeOK, Call
  <2>2. host' \in [Hosts -> {Idle} \union Calls \union Answers]
    BY <1>0 DEF TypeOK, Calls, InPrepare
  <2>3. child[h].pc = "none"
    BY <1>0, <1>1 DEF Call, AloneInv, ChildInv, At
  <2> QED
    BY <2>1, <2>2, <2>3 DEF TypeOK, AloneInv, StdinInv, ChildInv, AnswerInv, At, ChildAt,
                            Content, HoldsProof
<1>2. CASE CreateStdin(h)
  <2>1. host[h] \in Calls /\ host[h].elf \in Elfs /\ host[h].input \in Inputs
    BY <1>0, <1>2, Shapes DEF CreateStdin, At, InPrepare, Calls
  <2>2. host'[h] = [pc |-> "fill", elf |-> host[h].elf, input |-> host[h].input]
        /\ host' = [g \in Hosts |-> host'[g]]
    BY <1>0, <1>2, <2>1, GotoKeeps DEF CreateStdin
  <2>3. files' \in [Elfs -> [Kinds -> Files]] /\ me \in files'[host[h].elf]["stdin"].openers
    BY <1>0, <1>2, <2>1, OpenKeepsType DEF CreateStdin, Kinds
  <2>4. child' = child /\ child[h].pc = "none"
    BY <1>0, <1>2 DEF CreateStdin, AloneInv, ChildInv, At
  <2>5. TypeOK'
    BY <2>1, <2>2, <2>3, <2>4 DEF TypeOK, Calls, InPrepare, At, ChildAt
  <2> QED
    BY <2>2, <2>3, <2>4, <2>5 DEF AloneInv, StdinInv, ChildInv, AnswerInv, At, ChildAt, Content, HoldsProof
<1>3. CASE FillStdin(h)
  <2>1. host[h] \in Calls /\ host[h].elf \in Elfs /\ host[h].input \in Inputs
    BY <1>0, <1>3, Shapes DEF FillStdin, At, InPrepare, Calls
  <2>2. host'[h] = [pc |-> "spawn", elf |-> host[h].elf, input |-> host[h].input]
        /\ host' = [g \in Hosts |-> host'[g]]
    BY <1>0, <1>3, <2>1, GotoKeeps DEF FillStdin
  <2>3. me \in files[host[h].elf]["stdin"].openers
    BY <1>3 DEF FillStdin, AloneInv, StdinInv
  <2>4. files' \in [Elfs -> [Kinds -> Files]] /\ files'[host[h].elf]["stdin"].data = host[h].input
    BY <1>0, <1>3, <2>1, <2>3, FillKeepsType DEF FillStdin, Kinds
  <2>5. child' = child /\ child[h].pc = "none"
    BY <1>0, <1>3 DEF FillStdin, AloneInv, ChildInv, At
  <2>6. TypeOK'
    BY <2>1, <2>2, <2>4, <2>5 DEF TypeOK, Calls, InPrepare, At, ChildAt
  <2> QED
    BY <2>2, <2>4, <2>5, <2>6 DEF AloneInv, StdinInv, ChildInv, AnswerInv, At, ChildAt, Content, HoldsProof
<1>4. CASE Spawn(h)
  <2>1. host[h] \in Calls /\ host[h].elf \in Elfs /\ host[h].input \in Inputs
    BY <1>0, <1>4, Shapes DEF Spawn, At, InPrepare, Calls
  <2>2. host'[h] = [pc |-> "wait", elf |-> host[h].elf, input |-> host[h].input]
        /\ host' = [g \in Hosts |-> host'[g]]
    BY <1>0, <1>4, <2>1, GotoKeeps DEF Spawn
  <2>3. child'[h] = [pc |-> "read", elf |-> host[h].elf] /\ child' = [g \in Hosts |-> child'[g]]
    BY <1>0, <1>4 DEF Spawn, TypeOK
  <2>4. files' = files /\ Content(host[h].elf, "stdin") = host[h].input
    BY <1>4 DEF Spawn, AloneInv, StdinInv, At
  <2>5. TypeOK'
    BY <2>1, <2>2, <2>3, <2>4 DEF TypeOK, Calls, Children, InPrepare, At, ChildAt
  <2> QED
    BY <2>2, <2>3, <2>4, <2>5
       DEF AloneInv, StdinInv, ChildInv, AnswerInv, At, ChildAt, Content, HoldsProof, Live
<1>5. CASE Reap(h)
  <2>1. host[h] \in Calls /\ host[h].elf \in Elfs /\ host[h].input \in Inputs
    BY <1>0, <1>5, Shapes DEF Reap, At, InPrepare, Calls
  <2>2. PICK pc \in {"read_proof", "child_failed"} :
           /\ Goto(h, pc)
           /\ pc = "read_proof" => ChildAt(h, "exit_ok")
    BY <1>5 DEF Reap
  <2>3. host'[h] = [pc |-> pc, elf |-> host[h].elf, input |-> host[h].input]
        /\ host' = [g \in Hosts |-> host'[g]]
    BY <1>0, <2>1, <2>2, GotoKeeps
  <2>4. child'[h] = [pc |-> "none"] /\ child' = [g \in Hosts |-> child'[g]] /\ files' = files
    BY <1>0, <1>5 DEF Reap, TypeOK, NoChild
  <2>5. pc = "read_proof" => Content(host[h].elf, "proof") = host[h].input
    BY <2>2 DEF AloneInv, ChildInv
  <2>6. TypeOK'
    BY <2>1, <2>2, <2>3, <2>4 DEF TypeOK, Calls, NoChild, At, ChildAt
  <2> QED
    BY <2>2, <2>3, <2>4, <2>5, <2>6
       DEF AloneInv, StdinInv, ChildInv, AnswerInv, At, ChildAt, Content, HoldsProof, Live
<1>6. CASE ReadProof(h)
  <2>1. host[h] \in Calls /\ host[h].elf \in Elfs /\ host[h].input \in Inputs
    BY <1>0, <1>6, Shapes DEF ReadProof, At, Calls
  <2>2. Content(host[h].elf, "proof") = host[h].input
    BY <1>6 DEF ReadProof, AloneInv, ChildInv
  <2>3. host' = [host EXCEPT ![h] = [pc |-> "rm_stdin", elf |-> host[h].elf,
                                     input |-> host[h].input, proof |-> host[h].input]]
    BY <1>6, <2>1, <2>2 DEF ReadProof
  <2>4. host'[h] = [pc |-> "rm_stdin", elf |-> host[h].elf,
                    input |-> host[h].input, proof |-> host[h].input]
        /\ host' = [g \in Hosts |-> host'[g]]
    BY <1>0, <2>3 DEF TypeOK
  <2>5. child' = child /\ files' = files /\ child[h].pc = "none"
    BY <1>0, <1>6 DEF ReadProof, AloneInv, ChildInv, At
  <2>6. TypeOK'
    BY <2>1, <2>4, <2>5 DEF TypeOK, Answers, HoldsProof, At, ChildAt
  <2> QED
    BY <2>4, <2>5, <2>6
       DEF AloneInv, StdinInv, ChildInv, AnswerInv, At, ChildAt, Content, HoldsProof
<1>7. CASE RemoveStdin(h) \/ RemoveProof(h) \/ Accept(h)
  <2>1. host[h] \in Answers /\ host[h].elf \in Elfs /\ host[h].proof = host[h].input
    BY <1>0, <1>7, Shapes
       DEF RemoveStdin, RemoveProof, Accept, At, Answers, HoldsProof, AloneInv, AnswerInv
  <2>2. PICK pc \in HoldsProof : Goto(h, pc)
    BY <1>7 DEF RemoveStdin, RemoveProof, Accept, HoldsProof
  <2>3. host'[h] = [pc |-> pc, elf |-> host[h].elf, input |-> host[h].input,
                    proof |-> host[h].proof]
        /\ host' = [g \in Hosts |-> host'[g]]
    BY <1>0, <2>1, <2>2, GotoKeeps
  <2>4. files' \in [Elfs -> [Kinds -> Files]]
    <3>1. CASE RemoveStdin(h) \/ RemoveProof(h)
      BY <2>1, <3>1, RemoveKeepsType DEF RemoveStdin, RemoveProof, Kinds
    <3>2. CASE Accept(h)
      BY <3>2 DEF Accept, TypeOK
    <3> QED
      BY <1>7, <3>1, <3>2
  <2>5. child' = child /\ child[h].pc = "none"
    BY <1>0, <1>7 DEF RemoveStdin, RemoveProof, Accept, AloneInv, ChildInv, At
  <2>6. TypeOK'
    BY <2>1, <2>2, <2>3, <2>4, <2>5 DEF TypeOK, Answers, HoldsProof, At, ChildAt
  <2> QED
    BY <2>1, <2>2, <2>3, <2>5, <2>6
       DEF AloneInv, StdinInv, ChildInv, AnswerInv, At, ChildAt, Content, HoldsProof
<1>8. CASE ChildRead(h)
  <2>1. host' = host /\ files' = files /\ At(h, "wait") /\ child[h] \in Children
        /\ child[h].elf = host[h].elf /\ host[h].elf \in Elfs /\ host[h].input \in Inputs
    BY <1>0, <1>8, Shapes
       DEF ChildRead, ChildAt, At, AloneInv, ChildInv, InPrepare, Calls, TypeOK
  <2>2. Content(host[h].elf, "stdin") = host[h].input
    BY <2>1 DEF AloneInv, StdinInv, At
  <2>3. child' = [child EXCEPT ![h] = [pc |-> "prove", elf |-> host[h].elf,
                                       input |-> host[h].input]]
    BY <1>8, <2>1, <2>2 DEF ChildRead
  <2>4. child'[h] = [pc |-> "prove", elf |-> host[h].elf, input |-> host[h].input]
        /\ child' = [g \in Hosts |-> child'[g]]
    BY <1>0, <2>3 DEF TypeOK
  <2>5. TypeOK'
    BY <2>1, <2>4 DEF TypeOK, Provers, At, ChildAt
  <2> QED
    BY <2>1, <2>2, <2>4, <2>5
       DEF AloneInv, StdinInv, ChildInv, AnswerInv, At, ChildAt, Content, HoldsProof, Live
<1>9. CASE ChildProve(h) \/ ChildCreate(h) \/ ChildFill(h)
  <2>1. host' = host /\ At(h, "wait") /\ child[h] \in Provers
        /\ child[h].elf = host[h].elf /\ child[h].input = host[h].input
        /\ host[h].elf \in Elfs /\ host[h].input \in Inputs
    BY <1>0, <1>9, Shapes
       DEF ChildProve, ChildCreate, ChildFill, ChildAt, At, AloneInv, ChildInv, InPrepare,
           Calls, TypeOK
  <2>2. Content(host[h].elf, "stdin") = host[h].input
    BY <2>1 DEF AloneInv, StdinInv, At
  <2>3. CASE ChildProve(h)
    <3>1. child'[h] = [pc |-> "create", elf |-> host[h].elf, input |-> host[h].input]
          /\ child' = [g \in Hosts |-> child'[g]] /\ files' = files
      BY <1>0, <2>1, <2>3 DEF ChildProve, ChildGoto, Provers, TypeOK
    <3>2. TypeOK'
      BY <2>1, <3>1 DEF TypeOK, Provers, At, ChildAt
    <3> QED
      BY <2>1, <2>2, <3>1, <3>2
         DEF AloneInv, StdinInv, ChildInv, AnswerInv, At, ChildAt, Content, HoldsProof, Live
  <2>4. CASE ChildCreate(h)
    <3>1. child'[h] = [pc |-> "fill", elf |-> host[h].elf, input |-> host[h].input]
          /\ child' = [g \in Hosts |-> child'[g]]
      BY <1>0, <2>1, <2>4 DEF ChildCreate, ChildGoto, Provers, TypeOK
    <3>2. /\ files' \in [Elfs -> [Kinds -> Files]]
          /\ kid \in files'[host[h].elf]["proof"].openers
          /\ files'[host[h].elf]["stdin"] = files[host[h].elf]["stdin"]
      BY <1>0, <2>1, <2>4, OpenKeepsType DEF ChildCreate, Kinds
    <3>3. TypeOK'
      BY <2>1, <3>1, <3>2 DEF TypeOK, Provers, At, ChildAt
    <3> QED
      BY <2>1, <2>2, <3>1, <3>2, <3>3
         DEF AloneInv, StdinInv, ChildInv, AnswerInv, At, ChildAt, Content, HoldsProof, Live
  <2>5. CASE ChildFill(h)
    <3>1. child'[h] = [pc |-> "exit_ok", elf |-> host[h].elf] /\ child' = [g \in Hosts |-> child'[g]]
      BY <1>0, <2>1, <2>5 DEF ChildFill, TypeOK
    <3>2. kid \in files[host[h].elf]["proof"].openers
      BY <2>5 DEF ChildFill, AloneInv, ChildInv
    <3>3. /\ files' \in [Elfs -> [Kinds -> Files]]
          /\ files'[host[h].elf]["proof"].data = host[h].input
          /\ files'[host[h].elf]["stdin"] = files[host[h].elf]["stdin"]
      BY <1>0, <2>1, <2>5, <3>2, FillKeepsType DEF ChildFill, Kinds
    <3>4. TypeOK'
      BY <2>1, <3>1, <3>3 DEF TypeOK, Children, At, ChildAt
    <3> QED
      BY <2>1, <2>2, <3>1, <3>3, <3>4
         DEF AloneInv, StdinInv, ChildInv, AnswerInv, At, ChildAt, Content, HoldsProof, Live
  <2> QED
    BY <1>9, <2>3, <2>4, <2>5
<1>10. CASE ChildDies(h)
  <2>1. host' = host /\ At(h, "wait") /\ child[h].elf = host[h].elf /\ host[h].elf \in Elfs
    BY <1>0, <1>10, Shapes DEF ChildDies, At, AloneInv, ChildInv, InPrepare, Calls
  <2>2. child'[h] = [pc |-> "exit_err", elf |-> host[h].elf] /\ child' = [g \in Hosts |-> child'[g]]
    BY <1>0, <1>10, <2>1 DEF ChildDies, TypeOK
  <2>3. files' \in [Elfs -> [Kinds -> Files]]
    BY <1>10, ClosedTyped DEF ChildDies
  <2>4. files'[host[h].elf]["stdin"].data = files[host[h].elf]["stdin"].data
    <3>1. files[host[h].elf]["stdin"] \in Files
      BY <2>1 DEF TypeOK, Kinds
    <3> QED
      BY <1>10, <2>1, <3>1 DEF ChildDies, Closed, Kinds, Files
  <2>5. TypeOK'
    BY <2>1, <2>2, <2>3 DEF TypeOK, Children, At, ChildAt
  <2> QED
    BY <2>1, <2>2, <2>4, <2>5
       DEF AloneInv, StdinInv, ChildInv, AnswerInv, At, ChildAt, Content, HoldsProof, Live
<1>11. CASE Interrupt(h)
  <2>1. host'[h] = [pc |-> "idle"] /\ host' = [g \in Hosts |-> host'[g]]
        /\ child'[h] = [pc |-> "none"] /\ child' = [g \in Hosts |-> child'[g]]
    BY <1>0, <1>11 DEF Interrupt, Idle, NoChild, TypeOK
  <2>2. files' \in [Elfs -> [Kinds -> Files]]
    BY <1>11, ClosedTyped DEF Interrupt
  <2>3. TypeOK'
    BY <2>1, <2>2 DEF TypeOK, Idle, NoChild, At, ChildAt
  <2> QED
    BY <2>1, <2>3
       DEF AloneInv, StdinInv, ChildInv, AnswerInv, At, ChildAt, HoldsProof
<1>12. CASE UNCHANGED vars
  BY <1>12 DEF vars, TypeOK, AloneInv, StdinInv, ChildInv, AnswerInv, At, ChildAt, Content
<1> QED
  BY <1>0, <1>1, <1>2, <1>3, <1>4, <1>5, <1>6, <1>7, <1>8, <1>9, <1>10, <1>11, <1>12
     DEF Next, HostStep, ChildStep

(* A run that has the machine to itself keeps its invariant, wherever      *)
(* earlier runs were interrupted.                                          *)
LEMMA AloneInvariant ==
    ASSUME NEW h, Hosts = {h}
    PROVE  Spec => [](TypeOK /\ AloneInv(h))
<1> DEFINE Inv == TypeOK /\ AloneInv(h)
<1>1. Init => Inv
  BY Hosts = {h}
     DEF Init, TypeOK, AloneInv, StdinInv, ChildInv, AnswerInv, At, ChildAt, Idle, NoChild,
         HoldsProof, Files, NoFile, Unreadable
<1>2. Inv /\ [Next]_vars => Inv'
  BY AloneStep, Hosts = {h}
<1> QED
  BY <1>1, <1>2, PTL DEF Spec

(* TypeOK: host, child and the temporary directory are well typed, and     *)
(* there is a child exactly while its host waits for one (the poll loop of *)
(* wait_tracking_peak_memory).                                             *)
THEOREM TypeCorrect ==
    ASSUME NEW h, Hosts = {h}
    PROVE  Spec => []TypeOK
BY AloneInvariant, Hosts = {h}, PTL

(* ProofAnswersRequest: a run that has the machine to itself gets from     *)
(* prove_subprocess the proof of the input it asked for, wherever earlier  *)
(* runs were interrupted and whatever files they left.                     *)
THEOREM AloneAnswered ==
    ASSUME NEW h, Hosts = {h}
    PROVE  Spec => []ProofAnswersRequest
<1>1. AloneInv(h) => ProofAnswersRequest
  BY Hosts = {h} DEF AloneInv, AnswerInv, ProofAnswersRequest
<1> QED
  BY <1>1, AloneInvariant, Hosts = {h}, PTL

(* SuccessMeansProof: once the child of such a run has exited with         *)
(* success, the proof file is there and whole.                             *)
THEOREM AloneReadsProof ==
    ASSUME NEW h, Hosts = {h}
    PROVE  Spec => []SuccessMeansProof
<1>1. AloneInv(h) => SuccessMeansProof
  BY Hosts = {h} DEF AloneInv, AnswerInv, SuccessMeansProof
<1> QED
  BY <1>1, AloneInvariant, Hosts = {h}, PTL
=============================================================================
