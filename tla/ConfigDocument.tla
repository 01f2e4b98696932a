----------------------------- MODULE ConfigDocument -----------------------------
(***************************************************************************)
(* The configuration document of the gateway and those who write it:       *)
(* handler threads of the gateway (config.set and config.apply with a      *)
(* whole document, config.set of one path, skills.update) and the commands *)
(* of the CLI, which are processes of their own.  They read the document,  *)
(* copy it to a backup and replace it, without any lock.  A document is    *)
(* whole, with the edits it contains, or torn: not written to its end.     *)
(*                                                                         *)
(* Files can be written: a full disk is not modelled.                      *)
(***************************************************************************)
EXTENDS Naturals

CONSTANTS Edit,            \* edits, each made by a writer of its own, once
          MaxCrashes       \* bound

DocumentAssumption == MaxCrashes \in Nat

VARIABLES document,        \* the file
          inode,           \* which file it is: how often it was replaced
          backup,          \* the file next to it
          writer,          \* where each writer is, and what it has read
          crashes,
          excused          \* history: edits that may have been overwritten

documentVars == <<document, inode, backup, writer, crashes, excused>>

Document == [whole : BOOLEAN, edits : SUBSET Edit]
Torn     == [whole |-> FALSE, edits |-> {}]
Whole(edits) == [whole |-> TRUE, edits |-> edits]

\* How an edit is written: in a document the client composed from what it had
\* loaded, with the hash of that or without; as one entry merged into what is
\* there, by renaming a new file or in place.
Styles == {"hashed", "forced", "merged", "inPlace"}

NewWriter == [stage |-> "idle", style |-> "none", read |-> Torn, inode |-> 0]
Ended(stage) == [NewWriter EXCEPT !.stage = stage]

TypeOK ==
    /\ document \in Document /\ backup \in Document
    /\ inode \in Nat
    /\ writer \in [Edit ->
         [stage : {"idle", "loaded", "read", "saved", "truncated", "acknowledged", "failed"},
          style : Styles \cup {"none"}, read : Document, inode : Nat]]
    /\ crashes \in 0..MaxCrashes
    /\ excused \subseteq Edit

Init ==
    /\ document = Whole({}) /\ backup = Torn
    /\ inode = 0
    /\ writer = [e \in Edit |-> NewWriter]
    /\ crashes = 0
    /\ excused = {}

-----------------------------------------------------------------------------
At(e, stage) == writer[e].stage = stage
Becomes(e, state) == writer' = [writer EXCEPT ![e] = state]

\* Writers between their first look at the document and their last write
Busy == {e \in Edit : writer[e].stage \in {"read", "saved", "truncated"}}

\* What may be lost when e writes beside others: the edits of all of them, and
\* with one that writes in place among them, whatever was written so far.
Begun == {f \in Edit : ~At(f, "idle")}
Endangered(e) ==
    LET others == Busy \ {e}
    IN  IF others = {} THEN {}
        ELSE IF \A f \in others \cup {e} : writer[f].style # "inPlace" THEN others \cup {e}
        ELSE Begun

\* build_config_snapshot: a client loads the document before it edits it.
LoadSnapshot(e) ==
    /\ At(e, "idle")
    /\ \E style \in {"hashed", "forced"} :
         Becomes(e, [stage |-> "loaded", style |-> style, read |-> document, inode |-> 0])
    /\ UNCHANGED <<document, inode, backup, crashes, excused>>

\* Fault: the hash is not compared
CheckNothing(e) ==
    /\ At(e, "loaded")
    /\ Becomes(e, [writer[e] EXCEPT !.stage = "read"])
    /\ UNCHANGED <<document, inode, backup, crashes, excused>>

\* write_config_document: the document must still be the one the client loaded.
CheckHash(e) ==
    /\ At(e, "loaded")
    /\ Becomes(e, IF writer[e].style = "hashed" /\ document # writer[e].read
                  THEN Ended("failed")
                  ELSE [writer[e] EXCEPT !.stage = "read"])
    /\ UNCHANGED <<document, inode, backup, crashes, excused>>

\* persist_skill_entry and SetValue read the document themselves.
ReadDocument(e) ==
    /\ At(e, "idle")
    /\ \E style \in {"merged", "inPlace"} :
         Becomes(e, IF ~document.whole THEN Ended("failed")
                    ELSE [stage |-> "read", style |-> style, read |-> document, inode |-> 0])
    /\ UNCHANGED <<document, inode, backup, crashes, excused>>

\* copy_file.  Who saves without a hash, or on a document he saw torn, means to
\* do without what was there.
Backup(e) ==
    /\ At(e, "read")
    /\ backup' = document
    /\ excused' = IF \/ writer[e].style = "forced"
                     \/ writer[e].style = "hashed" /\ ~writer[e].read.whole
                  THEN Begun ELSE excused \cup Endangered(e)
    /\ Becomes(e, [writer[e] EXCEPT !.stage = "saved"])
    /\ UNCHANGED <<document, inode, crashes>>

NewText(e) == Whole(writer[e].read.edits \cup {e})

\* WriteFileAtomically; the handler answers when it has.
Rename(e) ==
    /\ At(e, "saved") /\ writer[e].style # "inPlace"
    /\ document' = NewText(e)
    /\ inode' = inode + 1
    /\ excused' = excused \cup Endangered(e)
    /\ Becomes(e, Ended("acknowledged"))
    /\ UNCHANGED <<backup, crashes>>

\* write_json_file: the stream is opened
Truncate(e) ==
    /\ At(e, "saved") /\ writer[e].style = "inPlace"
    /\ document' = Torn
    /\ excused' = excused \cup Endangered(e)
    /\ Becomes(e, [writer[e] EXCEPT !.stage = "truncated", !.inode = inode])
    /\ UNCHANGED <<inode, backup, crashes>>

\* ... and written: over what another put there meanwhile, longer perhaps, or
\* into a file that has been replaced.
WriteText(e) ==
    /\ At(e, "truncated")
    /\ IF writer[e].inode # inode THEN UNCHANGED document
       ELSE document' \in {NewText(e)} \cup (IF e \in excused THEN {Torn} ELSE {})
    /\ excused' = excused \cup Endangered(e)
    /\ Becomes(e, Ended("acknowledged"))
    /\ UNCHANGED <<inode, backup, crashes>>

\* Whoever writes is killed, the gateway and the commands of the CLI.
Crash ==
    /\ crashes < MaxCrashes
    /\ crashes' = crashes + 1
    /\ writer' = [e \in Edit |-> IF writer[e].stage \in {"idle", "acknowledged"}
                                 THEN writer[e] ELSE Ended("failed")]
    /\ UNCHANGED <<document, inode, backup, excused>>

Next ==
    \/ \E e \in Edit : \/ LoadSnapshot(e) \/ CheckHash(e) \/ ReadDocument(e)
                       \/ Backup(e) \/ Rename(e) \/ Truncate(e) \/ WriteText(e)
    \/ Crash

Spec == Init /\ [][Next]_documentVars

-----------------------------------------------------------------------------
(* Properties                                                               *)

\* What was acknowledged is in the document or, while that is torn, in its
\* backup, also after crashes.  Excused are edits whose writer overlapped with
\* another one (no lock is held between the check of the hash and the
\* replacement), all earlier ones when a writer in place was among them, and
\* those that someone chose to overwrite.
EditsSurvive ==
    \A e \in Edit \ excused :
       At(e, "acknowledged") => \/ e \in document.edits
                                \/ ~document.whole /\ e \in backup.edits
================================================================================
