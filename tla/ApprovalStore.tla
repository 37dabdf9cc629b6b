----------------------------- MODULE ApprovalStore -----------------------------
(***************************************************************************)
(* The shared approvals file (FileApprovalStore): the daemon of the        *)
(* organization and the threads of the Approval API each hold a store over *)
(* one JSON file, with no lock between them.  A save or a delete reads the *)
(* whole file, applies its one change and writes everything back through   *)
(* approvals.json.tmp, a name all of them share, which os.replace then     *)
(* makes the file.                                                         *)
(*                                                                         *)
(* A file that is missing, empty or cut short reads as no requests at all, *)
(* so all three are <<>> here.  The file system is external: an open       *)
(* handle follows its inode when the temporary name is replaced.           *)
(***************************************************************************)
EXTENDS Naturals, Sequences, SequencesExt

CONSTANTS Approvers,    \* threads of the Approval API
          Daemon,       \* the organization's worker, the other writer
          Problems,     \* what a request may gate (its target_ref)
          NoFile,       \* the temporary name does not exist
          MaxDecisions  \* bound: decisions the people at the API make

ASSUME DaemonAssumption == Daemon \notin Approvers
ASSUME MaxDecisionsAssumption == MaxDecisions \in Nat

VARIABLES
    file,       \* what approvals.json reads as
    tmp,        \* what approvals.json.tmp holds, or NoFile
    stage,      \* where each writer is in its save or delete
    edit,       \* the change each writer is to apply
    buffer,     \* the whole content each writer is to write back
    handle,     \* where the temporary file each writer has open is by now
    created,    \* requests created so far: the id of the newest
    decisions,  \* decisions made so far: the id of the newest
    grants      \* history: the requests a person granted

disk  == <<file, tmp, handle>>
saves == <<stage, edit, buffer>>
storeVars == <<disk, saves, created, decisions, grants>>

Writers == Approvers \cup {Daemon}

Status == {"pending", "granted", "rejected"}

\* ApprovalRequest.  decision is the id of current_decision, 0 before there is one.
Request == [id : Nat, target : Problems, status : Status, decision : Nat]

NewRequest(id, p) == [id |-> id, target |-> p, status |-> "pending", decision |-> 0]

\* What a writer does to the requests it has read.
NoEdit     == [op |-> "none"]
Put(r)     == [op |-> "put", request |-> r]
Delete(id) == [op |-> "delete", id |-> id]
Edit       == {NoEdit} \cup [op : {"put"}, request : Request] \cup [op : {"delete"}, id : Nat]

Stages == {"idle", "read", "open", "fill", "replace"}

\* {r.id: r for r in ...} with one request put in: in its place, or at the end.
Saved(content, r) ==
    IF \E i \in DOMAIN content : content[i].id = r.id
      THEN [i \in DOMAIN content |-> IF content[i].id = r.id THEN r ELSE content[i]]
      ELSE Append(content, r)

\* The rest of the requests: what is saved has an id once at the most.
Without(content, id) ==
    IF \E i \in DOMAIN content : content[i].id = id
      THEN RemoveAt(content, CHOOSE i \in DOMAIN content : content[i].id = id)
      ELSE content

Applied(content, e) ==
    IF e.op = "put" THEN Saved(content, e.request) ELSE Without(content, e.id)

Gating(p) == {i \in DOMAIN file : file[i].target = p}

\* for_target: the first request of the file with that target.
ForTarget(p) == file[CHOOSE i \in Gating(p) : \A j \in Gating(p) : i <= j]

StoreInit == /\ file = <<>> /\ tmp = NoFile
             /\ stage = [w \in Writers |-> "idle"]
             /\ edit = [w \in Writers |-> NoEdit]
             /\ buffer = [w \in Writers |-> <<>>]
             /\ handle = [w \in Writers |-> "closed"]
             /\ created = 0 /\ decisions = 0 /\ grants = {}

-----------------------------------------------------------------------------
(* One save or delete of one writer, a system call at a time. *)

BeginEdit(w, e) == /\ stage' = [stage EXCEPT ![w] = "read"]
                   /\ edit' = [edit EXCEPT ![w] = e]

ReadFile(w) == /\ stage[w] = "read"
               /\ buffer' = [buffer EXCEPT ![w] = Applied(file, edit[w])]
               /\ edit' = [edit EXCEPT ![w] = NoEdit]
               /\ stage' = [stage EXCEPT ![w] = "open"]
               /\ UNCHANGED <<disk, created, decisions, grants>>

\* write_text opens the temporary file: it is created, or what another writer has
\* there is cut to nothing.
OpenTmp(w) == /\ stage[w] = "open"
              /\ tmp' = <<>>
              /\ handle' = [handle EXCEPT ![w] = "tmp"]
              /\ stage' = [stage EXCEPT ![w] = "fill"]
              /\ UNCHANGED <<file, edit, buffer, created, decisions, grants>>

\* What the opened inode reads as once w has written: over another writer's longer
\* text a tail of it remains, which is no JSON.
Filled(w, content) == IF content = <<>> THEN {buffer[w]} ELSE {buffer[w], <<>>}

FillTmp(w) == /\ stage[w] = "fill"
              /\ \/ /\ handle[w] = "tmp"
                    /\ tmp' \in Filled(w, tmp)
                    /\ UNCHANGED file
                 \/ /\ handle[w] = "file"
                    /\ file' \in Filled(w, file)
                    /\ UNCHANGED tmp
                 \/ /\ handle[w] = "unlinked"
                    /\ UNCHANGED <<file, tmp>>
              /\ handle' = [handle EXCEPT ![w] = "closed"]
              /\ buffer' = [buffer EXCEPT ![w] = <<>>]
              /\ stage' = [stage EXCEPT ![w] = "replace"]
              /\ UNCHANGED <<edit, created, decisions, grants>>

\* Whatever is under the temporary name becomes the file.
Renamed == [w \in Writers |-> CASE handle[w] = "tmp" -> "file"
                                [] handle[w] = "file" -> "unlinked"
                                [] OTHER -> handle[w]]

ReplaceFile(w) == /\ stage[w] = "replace"
                  /\ tmp # NoFile
                  /\ file' = tmp
                  /\ tmp' = NoFile
                  /\ handle' = Renamed
                  /\ stage' = [stage EXCEPT ![w] = "idle"]
                  /\ UNCHANGED <<edit, buffer, created, decisions, grants>>

\* FileNotFoundError: another writer's replace took the temporary file.
ReplaceRaises(w) == /\ stage[w] = "replace"
                    /\ tmp = NoFile
                    /\ stage' = [stage EXCEPT ![w] = "idle"]
                    /\ UNCHANGED <<disk, edit, buffer, created, decisions, grants>>

\* The steps before the replace, the same for every writer.
Prepare(w) == ReadFile(w) \/ OpenTmp(w) \/ FillTmp(w)

-----------------------------------------------------------------------------
(* The Approval API: grant and reject. *)

Decided(r, outcome) == [id |-> r.id, target |-> r.target, status |-> outcome,
                        decision |-> decisions + 1]

\* The request is loaded, found pending and decided on this copy; the save follows.
Decide(a, outcome) ==
    /\ stage[a] = "idle"
    /\ decisions < MaxDecisions
    /\ \E i \in DOMAIN file :
         /\ file[i].status = "pending"
         /\ BeginEdit(a, Put(Decided(file[i], outcome)))
         /\ grants' = IF outcome = "granted" THEN grants \cup {file[i].id} ELSE grants
    /\ decisions' = decisions + 1
    /\ UNCHANGED <<disk, buffer, created>>

ApproverStep(a) == \/ \E outcome \in {"granted", "rejected"} : Decide(a, outcome)
                   \/ Prepare(a)
                   \/ ReplaceFile(a)
                   \/ ReplaceRaises(a)
=============================================================================
