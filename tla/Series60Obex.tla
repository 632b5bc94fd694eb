----------------------------- MODULE Series60Obex -----------------------------
(***************************************************************************)
(* sendfile() and recvfile() on Series 60 (src/src/series60/_obex.py):     *)
(* what they do to the files of the phone, when PyS60's calls fail or the  *)
(* program ends in the middle.  One thread makes the calls.                *)
(*                                                                         *)
(* PyS60 is external.  Assumed of it: bt_obex_receive() receives into a    *)
(* new file only, and may leave a part of it when it fails; rename() does  *)
(* not replace a file.                                                     *)
(***************************************************************************)
EXTENDS Integers, Sequences

CONSTANT MaxCalls   \* bound: calls made

ASSUME FilesAssumption == MaxCalls \in Nat

\* The names that _tempfilename() tries: for the user's file, and for a file object.
Names == [dest |-> <<"dest", "dest2", "dest3">>, temp |-> <<"temp", "temp2", "temp3">>]
Paths == {"dest", "dest2", "dest3", "temp", "temp2", "temp3"}

\* What is in a file: 0 the user's data, n what call n has received, -n a part of it or
\* what call n is to send.
NoFile == MaxCalls + 1

VARIABLES
    files,
    call,     \* the last call; "stranded" is history: a file could not be moved back
    before,   \* history: the files when it began
    kept,     \* history: what the user was last told is in "dest", NoFile if nothing
    excused   \* history: an exception but _socket.error, a failed receipt that left a
              \* part of a file, a file that could not be removed, or a crash

vars == <<files, call, before, kept, excused>>

TypeOK ==
    /\ {files, before} \subseteq [Paths -> -MaxCalls .. NoFile]
    /\ call \in [n : 0 .. MaxCalls, op : {"sendfile", "recvfile"}, object : BOOLEAN,
                 pc : {"idle", "looking", "moving", "receiving", "failed", "received",
                       "copying", "sending", "cleaning"},
                 localpath : Paths, temppath : Paths \cup {"None"},
                 outcome : {"ok", "OBEXError", "other"}, got : -MaxCalls .. NoFile,
                 stranded : BOOLEAN]
    /\ kept \in 0 .. NoFile /\ excused \in BOOLEAN

IsFile(path) == files[path] # NoFile

Init ==
    /\ files \in [Paths -> {0, NoFile}]
    /\ \A base \in {"dest", "temp"} : ~IsFile(Names[base][2]) /\ ~IsFile(Names[base][3])
    /\ call = [n |-> 0, op |-> "recvfile", object |-> FALSE, pc |-> "idle",
               localpath |-> "dest", temppath |-> "None", outcome |-> "ok", got |-> NoFile,
               stranded |-> FALSE]
    /\ before = files /\ kept = files["dest"] /\ excused = FALSE

-----------------------------------------------------------------------------
FreeNames(base) == {i \in 1 .. 3 : ~IsFile(Names[base][i])}

\* Mutant of TempFileName: the first name, whether it is free or not.
TempFileNameUntested(base) == Names[base][1]

\* _tempfilename()
TempFileName(base) ==
    Names[base][CHOOSE i \in FreeNames(base) : \A j \in FreeNames(base) : i <= j]

Call(op, object) ==
    /\ call.pc = "idle" /\ call.n < MaxCalls
    /\ op = "sendfile" => object
    /\ FreeNames("dest") # {} /\ FreeNames("temp") # {}
    /\ call' = [call EXCEPT !.n = @ + 1, !.op = op, !.object = object, !.outcome = "ok",
                    !.pc = IF op = "sendfile" THEN "sending" ELSE "looking",
                    !.temppath = "None", !.got = NoFile, !.stranded = FALSE,
                    !.localpath = IF op = "sendfile" THEN TempFileName("dest")
                                  ELSE IF object THEN TempFileName("temp") ELSE "dest"]
    /\ before' = files /\ excused' = FALSE
    /\ UNCHANGED <<files, kept>>

Goto(pc) == call' = [call EXCEPT !.pc = pc]

\* Each call ends: one with a file object removes its temporary file.
End(outcome) ==
    call' = [call EXCEPT !.outcome = outcome, !.pc = IF call.object THEN "cleaning" ELSE "idle"]

\* _recvfile() moves a file that is there out of the way.
Look ==
    /\ call.pc = "looking"
    /\ call' = IF IsFile(call.localpath)
               THEN [call EXCEPT !.pc = "moving", !.temppath = TempFileName("dest")]
               ELSE [call EXCEPT !.pc = "receiving"]
    /\ UNCHANGED <<files, before, kept, excused>>

\* The move fails, and so does the call, with OSError.
Move ==
    /\ call.pc = "moving"
    /\ \/ /\ files' = [files EXCEPT ![call.temppath] = files[call.localpath],
                                    ![call.localpath] = NoFile]
          /\ Goto("receiving")
       \/ End("other") /\ UNCHANGED files
    /\ UNCHANGED <<before, kept, excused>>

\* bt_obex_receive(): it succeeds, raises _socket.error, or something else is raised, as
\* by unicode().
Receive ==
    /\ call.pc = "receiving"
    /\ \/ /\ ~IsFile(call.localpath)
          /\ files' = [files EXCEPT ![call.localpath] = call.n]
          /\ kept' = IF call.object THEN kept ELSE call.n
          /\ Goto("received") /\ UNCHANGED excused
       \/ /\ \/ UNCHANGED <<files, excused>>
             \/ /\ ~IsFile(call.localpath)
                /\ files' = [files EXCEPT ![call.localpath] = -call.n]
                /\ excused' = (excused \/ ~call.object)
          /\ Goto("failed") /\ UNCHANGED kept
       \/ End("other") /\ excused' = TRUE /\ UNCHANGED <<files, kept>>
    /\ UNCHANGED before

\* Mutant of PutBack: the file that was moved is removed.
PutBackNothing ==
    /\ call.pc = "failed"
    /\ files' = IF call.temppath = "None" THEN files
                ELSE [files EXCEPT ![call.temppath] = NoFile]
    /\ End("OBEXError")
    /\ UNCHANGED <<before, kept, excused>>

\* The file is moved back.  If it cannot be, as when something is in its place, it stays
\* under the temporary name, and OBEXError is raised all the same.
PutBack ==
    /\ call.pc = "failed"
    /\ \/ /\ call.temppath = "None"
          /\ End("OBEXError") /\ UNCHANGED files
       \/ /\ call.temppath # "None" /\ ~IsFile(call.localpath)
          /\ files' = [files EXCEPT ![call.localpath] = files[call.temppath],
                                    ![call.temppath] = NoFile]
          /\ End("OBEXError")
       \/ /\ call.temppath # "None"
          /\ call' = [call EXCEPT !.outcome = "OBEXError", !.stranded = TRUE,
                          !.pc = IF call.object THEN "cleaning" ELSE "idle"]
          /\ UNCHANGED files
    /\ UNCHANGED <<before, kept, excused>>

\* The file that was moved is removed; if it cannot be, OSError is raised.
Received ==
    /\ call.pc = "received"
    /\ \/ /\ files' = IF call.temppath = "None" THEN files
                      ELSE [files EXCEPT ![call.temppath] = NoFile]
          /\ IF call.object THEN Goto("copying") ELSE End("ok")
          /\ UNCHANGED excused
       \/ /\ call.temppath # "None"
          /\ End("other") /\ excused' = TRUE /\ UNCHANGED files
    /\ UNCHANGED <<before, kept>>

\* dest.write(recvdfile.read()), which may raise.
Copy ==
    /\ call.pc = "copying"
    /\ \/ call' = [call EXCEPT !.pc = "cleaning", !.got = files[call.localpath]]
       \/ End("other")
    /\ UNCHANGED <<files, before, kept, excused>>

\* sendfile() writes what it has read into a file, as far as it can, and sends that.
Send ==
    /\ call.pc = "sending"
    /\ \/ /\ files' = [files EXCEPT ![call.localpath] = -call.n]
          /\ \E outcome \in {"ok", "OBEXError", "other"} : End(outcome)
       \/ End("other") /\ UNCHANGED files
    /\ UNCHANGED <<before, kept, excused>>

\* The temporary file is removed; if it cannot be, that is printed.
Clean ==
    /\ call.pc = "cleaning"
    /\ \/ files' = [files EXCEPT ![call.localpath] = NoFile] /\ UNCHANGED excused
       \/ IsFile(call.localpath) /\ excused' = TRUE /\ UNCHANGED files
    /\ Goto("idle")
    /\ UNCHANGED <<before, kept>>

\* The program ends, and is started again.
Crash ==
    /\ call.pc # "idle"
    /\ call' = [call EXCEPT !.pc = "idle", !.outcome = "other"]
    /\ excused' = TRUE
    /\ UNCHANGED <<files, before, kept>>

Next ==
    \/ \E op \in {"sendfile", "recvfile"}, object \in BOOLEAN : Call(op, object)
    \/ Look \/ Move \/ Receive \/ PutBack \/ Received \/ Copy \/ Send \/ Clean \/ Crash

Spec == Init /\ [][Next]_vars

-----------------------------------------------------------------------------
(* What is checked. *)

\* What the user had at the path, or was told is received there, is in some file at any
\* moment, whatever failed and wherever the program ended.
NothingLost == kept = NoFile \/ \E path \in Paths : files[path] = kept

\* "backup the original file so that we can put it back if the recv fails": a call that
\* returns leaves the files as it found them, but for the file it has received into a
\* path, and a file object gets what was received for it.  If the file cannot be put back,
\* OBEXError is raised and it is whole under the temporary name, with nothing in its place.
LeavesAsFound ==
    call.pc = "idle" /\ ~excused /\ call.n > 0 =>
      /\ files = IF call.stranded
                 THEN [before EXCEPT !["dest"] = NoFile, ![call.temppath] = before["dest"]]
                 ELSE IF call.op = "recvfile" /\ ~call.object /\ call.outcome = "ok"
                 THEN [before EXCEPT !["dest"] = call.n] ELSE before
      /\ call.stranded => call.outcome = "OBEXError" /\ before["dest"] # NoFile
      /\ call.op = "recvfile" /\ call.object /\ call.outcome = "ok" => call.got = call.n
=============================================================================
