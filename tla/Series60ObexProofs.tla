-------------------------- MODULE Series60ObexProofs --------------------------
(***************************************************************************)
(* Theorems about Series60Obex, for any number of calls: no file is lost,  *)
(* and a call leaves the files as it found them.                           *)
(***************************************************************************)
EXTENDS Series60Obex, TLAPS

USE FilesAssumption DEF FilesAssumption

Contents == -MaxCalls .. NoFile
CallRecords ==
    [n : 0 .. MaxCalls, op : {"sendfile", "recvfile"}, object : BOOLEAN,
     pc : {"idle", "looking", "moving", "receiving", "failed", "received",
           "copying", "sending", "cleaning"},
     localpath : Paths, temppath : Paths \cup {"None"},
     outcome : {"ok", "OBEXError", "other"}, got : Contents, stranded : BOOLEAN]

\* The parts of TypeOK, one by one.
Typed ==
    /\ files \in [Paths -> Contents] /\ before \in [Paths -> Contents]
    /\ call \in CallRecords
    /\ kept \in 0 .. NoFile /\ excused \in BOOLEAN

\* The data that is not to be lost is in a file other than path.
KeptApartFrom(path) == kept = NoFile \/ \E q \in Paths \ {path} : files[q] = kept

\* What may be at the path the call works on, and where a file that was there has gone.
WorkInv ==
    /\ call.pc \in {"copying", "cleaning", "sending"} => call.object
    /\ call.pc = "moving" => ~call.object
    /\ call.pc = "looking" => FreeNames("dest") # {}
    /\ call.pc = "looking" /\ call.object => ~IsFile(call.localpath)
    /\ call.pc = "moving" => /\ call.temppath \in Paths \ {call.localpath}
                             /\ ~IsFile(call.temppath) /\ IsFile(call.localpath)
    /\ call.pc # "idle" => call.temppath # call.localpath
    /\ call.pc # "idle" /\ call.object => call.temppath = "None" /\ KeptApartFrom(call.localpath)
    /\ call.pc = "received" /\ ~call.object => files[call.localpath] = kept

IInv == Typed /\ WorkInv /\ NothingLost

-----------------------------------------------------------------------------
LEMMA TypedIsTypeOK == TypeOK <=> Typed
<1>1. {files, before} \subseteq [Paths -> Contents]
        <=> files \in [Paths -> Contents] /\ before \in [Paths -> Contents]
  OBVIOUS
<1> QED BY <1>1, Zenon DEF TypeOK, Typed, Contents, CallRecords

\* What is written into files can be told from no file.
LEMMA ContentsHave ==
    /\ NoFile \in Contents /\ 0 \in Contents
    /\ \A n \in 0 .. MaxCalls : {n, -n} \subseteq Contents /\ n # NoFile /\ -n # NoFile
    /\ \A n \in 0 .. MaxCalls : n \in 0 .. NoFile
BY DEF Contents, NoFile

\* _tempfilename() returns the name of no file, if one of its names is free.
LEMMA FreeTempFileName ==
    ASSUME NEW base \in {"dest", "temp"}, FreeNames(base) # {}
    PROVE  TempFileName(base) \in Paths /\ ~IsFile(TempFileName(base))
<1> DEFINE F == FreeNames(base)
           Least(i) == i \in F /\ \A j \in F : i <= j
<1>1. F \subseteq {1, 2, 3}
  BY DEF FreeNames
<1>2. \E i \in F : \A j \in F : i <= j
  BY <1>1
<1>3. PICK i \in F : TempFileName(base) = Names[base][i]
  BY <1>2 DEF TempFileName
<1>4. i \in {1, 2, 3} /\ ~IsFile(Names[base][i])
  BY <1>1, <1>3 DEF FreeNames
<1>5. Names[base][i] \in Paths
  BY <1>4 DEF Names, Paths
<1> QED BY <1>3, <1>4, <1>5

LEMMA Initially == Init => IInv
<1> SUFFICES ASSUME Init PROVE IInv
  OBVIOUS
<1>1. Typed
  <2>1. files \in [Paths -> Contents] /\ before \in [Paths -> Contents]
    BY ContentsHave DEF Init
  <2>2. call \in CallRecords
    BY ContentsHave DEF Init, CallRecords, Paths
  <2>3. kept \in 0 .. NoFile
    BY DEF Init, NoFile, Paths
  <2> QED BY <2>1, <2>2, <2>3 DEF Init, Typed
<1>2. WorkInv
  BY DEF Init, WorkInv
<1>3. NothingLost
  BY DEF Init, NothingLost, Paths
<1> QED BY <1>1, <1>2, <1>3 DEF IInv

LEMMA CallKeeps ==
    ASSUME IInv, NEW op \in {"sendfile", "recvfile"}, NEW object \in BOOLEAN, Call(op, object)
    PROVE  IInv'
<1> USE DEF IInv
<1> DEFINE path == IF op = "sendfile" THEN TempFileName("dest")
                   ELSE IF object THEN TempFileName("temp") ELSE "dest"
           step == IF op = "sendfile" THEN "sending" ELSE "looking"
<1>0. /\ TempFileName("dest") \in Paths /\ ~IsFile(TempFileName("dest"))
      /\ TempFileName("temp") \in Paths /\ ~IsFile(TempFileName("temp"))
  BY FreeTempFileName DEF Call
<1>1. /\ call' = [call EXCEPT !.n = @ + 1, !.op = op, !.object = object, !.outcome = "ok",
                         !.pc = step, !.temppath = "None", !.got = NoFile,
                         !.stranded = FALSE, !.localpath = path]
      /\ before' = files /\ excused' = FALSE /\ files' = files /\ kept' = kept
      /\ call.n < MaxCalls /\ FreeNames("dest") # {} /\ (op = "sendfile" => object)
  BY DEF Call
<1>2. path \in Paths /\ (object => ~IsFile(path))
  BY <1>0, <1>1 DEF Paths
<1> HIDE DEF path
<1>3. Typed'
  <2>1. call.n + 1 \in 0 .. MaxCalls
    BY <1>1 DEF Typed, CallRecords
  <2>2. call' \in CallRecords
    BY <1>1, <1>2, <2>1, ContentsHave DEF Typed, CallRecords
  <2> QED BY <1>1, <2>2 DEF Typed
<1>4. /\ call'.pc = step /\ call'.object = object /\ call'.temppath = "None"
      /\ call'.localpath = path
  BY <1>1 DEF Typed, CallRecords
<1>5. object => KeptApartFrom(path)
  BY <1>2, NothingLost DEF NothingLost, KeptApartFrom, IsFile
<1>6. path # "None"
  BY <1>2 DEF Paths
<1>7. WorkInv'
  BY <1>1, <1>2, <1>4, <1>5, <1>6 DEF WorkInv, KeptApartFrom, IsFile, FreeNames
<1>8. NothingLost'
  BY <1>1 DEF NothingLost
<1> QED BY <1>3, <1>7, <1>8

\* What _recvfile() does before it receives.
LEMMA LookKeeps == ASSUME IInv, Look PROVE IInv'
<1> USE DEF IInv
<1>1. /\ call.pc = "looking"
      /\ files' = files /\ before' = before /\ kept' = kept /\ excused' = excused
  BY DEF Look
<1>2. CASE IsFile(call.localpath)
  <2>1. call' = [call EXCEPT !.pc = "moving", !.temppath = TempFileName("dest")]
    BY <1>2 DEF Look
  <2>2. TempFileName("dest") \in Paths /\ ~IsFile(TempFileName("dest"))
    BY <1>1, FreeTempFileName DEF WorkInv
  <2>3. Typed'
    BY <1>1, <2>1, <2>2 DEF Typed, CallRecords
  <2>4. WorkInv'
    BY <1>1, <1>2, <2>1, <2>2 DEF WorkInv, Typed, CallRecords, IsFile
  <2> QED BY <1>1, <2>3, <2>4 DEF NothingLost
<1>3. CASE ~IsFile(call.localpath)
  <2>1. call' = [call EXCEPT !.pc = "receiving"]
    BY <1>3 DEF Look
  <2>2. Typed'
    BY <1>1, <2>1 DEF Typed, CallRecords
  <2>3. WorkInv'
    BY <1>1, <2>1 DEF WorkInv, Typed, CallRecords, KeptApartFrom
  <2> QED BY <1>1, <2>2, <2>3 DEF NothingLost
<1> QED BY <1>2, <1>3

\* A step that ends the call, or goes on to remove its temporary file, without having
\* touched a file.
LEMMA EndKeeps ==
    ASSUME IInv, call.pc # "idle", NEW outcome \in {"ok", "OBEXError", "other"}, End(outcome),
           files' = files, before' = before, kept' = kept, excused' \in BOOLEAN
    PROVE  IInv'
<1> USE DEF IInv
<1>1. Typed'
  BY DEF Typed, CallRecords, End
<1>2. WorkInv'
  BY DEF WorkInv, Typed, CallRecords, End, KeptApartFrom
<1> QED BY <1>1, <1>2 DEF NothingLost

LEMMA MoveKeeps == ASSUME IInv, Move PROVE IInv'
<1>1. CASE End("other") /\ UNCHANGED files
  BY <1>1, EndKeeps DEF Move, IInv, Typed
<1>2. CASE /\ files' = [files EXCEPT ![call.temppath] = files[call.localpath],
                                     ![call.localpath] = NoFile]
           /\ Goto("receiving")
  <2> USE <1>2 DEF IInv
  <2>1. /\ call.pc = "moving" /\ ~call.object /\ before' = before /\ kept' = kept
        /\ excused' = excused
        /\ call.temppath \in Paths \ {call.localpath} /\ call.localpath \in Paths
        /\ files[call.temppath] = NoFile
    BY DEF Move, WorkInv, IsFile, Typed, CallRecords
  <2>2. Typed'
    BY <2>1, ContentsHave DEF Typed, CallRecords, Goto
  <2>3. WorkInv'
    BY <2>1 DEF WorkInv, Typed, CallRecords, Goto
  <2>4. NothingLost'
    <3> SUFFICES ASSUME kept # NoFile PROVE \E path \in Paths : files'[path] = kept
      BY <2>1 DEF NothingLost
    <3>1. PICK path \in Paths : files[path] = kept
      BY DEF NothingLost
    <3>2. path # call.temppath
      BY <2>1, <3>1
    <3>3. files'[call.temppath] = files[call.localpath]
      BY <2>1 DEF Typed
    <3>4. path # call.localpath => files'[path] = kept
      BY <2>1, <3>1, <3>2 DEF Typed
    <3> QED BY <2>1, <3>1, <3>3, <3>4
  <2> QED BY <2>2, <2>3, <2>4
<1> QED BY <1>1, <1>2 DEF Move

\* A file is received, in whole or in part, into a path where there was none.
LEMMA ReceiveKeeps == ASSUME IInv, Receive PROVE IInv'
<1> USE DEF IInv
<1>0. /\ call.pc = "receiving" /\ before' = before /\ call.n \in 0 .. MaxCalls
      /\ call.localpath \in Paths /\ call \in CallRecords /\ call.object \in BOOLEAN
  BY DEF Receive, Typed, CallRecords
<1>1. CASE End("other") /\ excused' = TRUE /\ UNCHANGED <<files, kept>>
  BY <1>0, <1>1, EndKeeps
<1>2. CASE /\ ~IsFile(call.localpath)
           /\ files' = [files EXCEPT ![call.localpath] = call.n]
           /\ kept' = IF call.object THEN kept ELSE call.n
           /\ Goto("received") /\ UNCHANGED excused
  <2> USE <1>2
  <2>1. Typed'
    BY <1>0, ContentsHave DEF Typed, CallRecords, Goto
  <2>2. files'[call.localpath] = call.n
    BY <1>0 DEF Typed
  <2>3. \A path \in Paths \ {call.localpath} : files'[path] = files[path]
    BY DEF Typed
  <2>4. WorkInv'
    BY <1>0, <2>2, <2>3 DEF WorkInv, CallRecords, Goto, KeptApartFrom
  <2>5. NothingLost'
    <3>1. CASE call.object
      BY <1>0, <2>3, <3>1 DEF NothingLost, WorkInv, KeptApartFrom
    <3>2. CASE ~call.object
      BY <1>0, <2>2, <3>2 DEF NothingLost
    <3> QED BY <3>1, <3>2
  <2> QED BY <2>1, <2>4, <2>5
<1>3. CASE /\ \/ UNCHANGED <<files, excused>>
              \/ /\ ~IsFile(call.localpath)
                 /\ files' = [files EXCEPT ![call.localpath] = -call.n]
                 /\ excused' = (excused \/ ~call.object)
           /\ Goto("failed") /\ UNCHANGED kept
  <2> USE <1>3
  <2>1. Typed'
    <3>1. files' \in [Paths -> Contents]
      BY <1>0, ContentsHave DEF Typed
    <3>2. excused' \in BOOLEAN
      BY <1>0 DEF Typed
    <3> QED BY <1>0, <3>1, <3>2 DEF Typed, CallRecords, Goto
  <2>2. \A path \in Paths \ {call.localpath} : files'[path] = files[path]
    BY DEF Typed
  <2>3. WorkInv'
    BY <1>0, <2>2 DEF WorkInv, CallRecords, Goto, KeptApartFrom
  <2>4. NothingLost'
    BY <1>0, <2>2 DEF NothingLost, IsFile
  <2> QED BY <2>1, <2>3, <2>4
<1> QED BY <1>1, <1>2, <1>3 DEF Receive

\* The file is moved back only to where none is.
LEMMA PutBackKeeps == ASSUME IInv, PutBack PROVE IInv'
<1> USE DEF IInv
<1>0. /\ call.pc = "failed" /\ UNCHANGED <<before, kept, excused>>
      /\ call.localpath \in Paths /\ call \in CallRecords /\ call.object \in BOOLEAN
  BY DEF PutBack, Typed, CallRecords
<1>1. CASE call.temppath = "None" /\ End("OBEXError") /\ UNCHANGED files
  BY <1>0, <1>1, EndKeeps DEF Typed
<1>2. CASE /\ call.temppath # "None" /\ ~IsFile(call.localpath) /\ End("OBEXError")
           /\ files' = [files EXCEPT ![call.localpath] = files[call.temppath],
                                     ![call.temppath] = NoFile]
  <2>1. call.temppath \in Paths \ {call.localpath} /\ ~call.object
    BY <1>0, <1>2 DEF WorkInv, CallRecords
  <2>2. files'[call.localpath] = files[call.temppath]
    BY <1>0, <1>2, <2>1 DEF Typed
  <2>3. \A path \in Paths \ {call.localpath, call.temppath} : files'[path] = files[path]
    BY <1>2, <2>1 DEF Typed
  <2>4. Typed'
    BY <1>0, <1>2, <2>1, ContentsHave DEF Typed, CallRecords, End
  <2>5. WorkInv'
    BY <1>0, <1>2, <2>1 DEF WorkInv, CallRecords, End
  <2>6. NothingLost'
    BY <1>0, <1>2, <2>1, <2>2, <2>3 DEF NothingLost, IsFile
  <2> QED BY <2>4, <2>5, <2>6
<1>3. CASE /\ call.temppath # "None" /\ UNCHANGED files
           /\ call' = [call EXCEPT !.outcome = "OBEXError", !.stranded = TRUE,
                           !.pc = IF call.object THEN "cleaning" ELSE "idle"]
  <2>1. ~call.object
    BY <1>0, <1>3 DEF WorkInv
  <2>2. Typed'
    BY <1>0, <1>3, <2>1 DEF Typed, CallRecords
  <2>3. WorkInv'
    BY <1>0, <1>3, <2>1 DEF WorkInv, CallRecords
  <2> QED BY <1>0, <1>3, <2>2, <2>3 DEF NothingLost
<1> QED BY <1>1, <1>2, <1>3 DEF PutBack

\* The file that was moved away goes once its successor is there.
LEMMA ReceivedKeeps == ASSUME IInv, Received PROVE IInv'
<1> USE DEF IInv
<1>0. /\ call.pc = "received" /\ before' = before /\ kept' = kept
      /\ call.localpath \in Paths /\ call \in CallRecords /\ call.object \in BOOLEAN
  BY DEF Received, Typed, CallRecords
<1>1. CASE End("other") /\ excused' = TRUE /\ UNCHANGED files
  BY <1>0, <1>1, EndKeeps
<1>2. CASE /\ files' = IF call.temppath = "None" THEN files
                       ELSE [files EXCEPT ![call.temppath] = NoFile]
           /\ IF call.object THEN Goto("copying") ELSE End("ok")
           /\ UNCHANGED excused
  <2> USE <1>2
  <2>1. /\ \A path \in Paths \ {call.temppath} : files'[path] = files[path]
        /\ call.object => files' = files
    BY <1>0 DEF Typed, WorkInv
  <2>2. Typed'
    <3>1. files' \in [Paths -> Contents]
      BY <1>0, ContentsHave DEF Typed, CallRecords
    <3>2. call' \in CallRecords
      BY <1>0 DEF CallRecords, Goto, End
    <3> QED BY <1>0, <3>1, <3>2 DEF Typed
  <2>3. WorkInv'
    BY <1>0, <2>1 DEF WorkInv, CallRecords, Goto, End, KeptApartFrom
  <2>4. NothingLost'
    BY <1>0, <2>1 DEF NothingLost, WorkInv, KeptApartFrom
  <2> QED BY <2>2, <2>3, <2>4
<1> QED BY <1>1, <1>2 DEF Received

LEMMA CopyKeeps == ASSUME IInv, Copy PROVE IInv'
<1> USE DEF IInv
<1>0. /\ call.pc = "copying" /\ UNCHANGED <<files, before, kept, excused>>
      /\ call.localpath \in Paths /\ call \in CallRecords
  BY DEF Copy, Typed, CallRecords
<1>1. CASE End("other")
  BY <1>0, <1>1, EndKeeps DEF Typed
<1>2. CASE call' = [call EXCEPT !.pc = "cleaning", !.got = files[call.localpath]]
  <2>1. files[call.localpath] \in Contents
    BY <1>0 DEF Typed
  <2>2. Typed'
    BY <1>0, <1>2, <2>1 DEF Typed, CallRecords
  <2>3. WorkInv'
    BY <1>0, <1>2 DEF WorkInv, CallRecords, KeptApartFrom
  <2> QED BY <1>0, <2>2, <2>3 DEF NothingLost
<1> QED BY <1>1, <1>2 DEF Copy

\* A step of a call with a file object that touches only its temporary file.
LEMMA ScratchKeeps ==
    ASSUME IInv, call.pc # "idle", call.object, NEW content \in Contents,
           files' = [files EXCEPT ![call.localpath] = content],
           before' = before, kept' = kept, excused' \in BOOLEAN,
           \/ Goto("idle")
           \/ \E outcome \in {"ok", "OBEXError", "other"} : End(outcome)
    PROVE  IInv'
<1> USE DEF IInv
<1>0. call.localpath \in Paths /\ call \in CallRecords
  BY DEF Typed, CallRecords
<1>1. \A path \in Paths \ {call.localpath} : files'[path] = files[path]
  BY DEF Typed
<1>2. call' \in CallRecords /\ call'.object /\ call'.localpath = call.localpath
      /\ call'.temppath = call.temppath /\ call'.pc \in {"idle", "cleaning"}
  BY <1>0 DEF CallRecords, Goto, End
<1>3. Typed'
  BY <1>0, <1>2 DEF Typed
<1>4. WorkInv'
  BY <1>0, <1>1, <1>2 DEF WorkInv, KeptApartFrom
<1>5. NothingLost'
  BY <1>0, <1>1 DEF NothingLost, WorkInv, KeptApartFrom
<1> QED BY <1>3, <1>4, <1>5

LEMMA SendKeeps == ASSUME IInv, Send PROVE IInv'
<1>0. /\ call.pc = "sending" /\ call.object /\ before' = before /\ kept' = kept
      /\ -call.n \in Contents /\ excused' \in BOOLEAN
  BY ContentsHave DEF Send, IInv, WorkInv, Typed, CallRecords
<1>1. CASE End("other") /\ files' = files
  BY <1>0, <1>1, EndKeeps
<1>2. CASE /\ files' = [files EXCEPT ![call.localpath] = -call.n]
           /\ \E outcome \in {"ok", "OBEXError", "other"} : End(outcome)
  BY <1>0, <1>2, ScratchKeeps
<1> QED BY <1>1, <1>2 DEF Send

\* The call is over, and the files are as they were.
LEMMA IdleKeeps ==
    ASSUME IInv, call' \in CallRecords, call'.pc = "idle", files' = files, before' = before,
           kept' = kept, excused' \in BOOLEAN
    PROVE  IInv'
BY DEF IInv, Typed, WorkInv, NothingLost

LEMMA CleanKeeps == ASSUME IInv, Clean PROVE IInv'
<1>0. /\ call.pc = "cleaning" /\ call.object /\ UNCHANGED <<before, kept>>
      /\ Goto("idle") /\ excused' \in BOOLEAN
      /\ call' \in CallRecords /\ call'.pc = "idle"
  BY DEF Clean, IInv, WorkInv, Typed, CallRecords, Goto
<1>1. CASE files' = [files EXCEPT ![call.localpath] = NoFile]
  BY <1>0, <1>1, ScratchKeeps, ContentsHave
<1>2. CASE files' = files
  BY <1>0, <1>2, IdleKeeps
<1> QED BY <1>1, <1>2 DEF Clean

LEMMA CrashKeeps == ASSUME IInv, Crash PROVE IInv'
<1>1. /\ call' \in CallRecords /\ call'.pc = "idle"
      /\ UNCHANGED <<files, before, kept>> /\ excused' \in BOOLEAN
  BY DEF Crash, IInv, Typed, CallRecords
<1> QED BY <1>1, IdleKeeps

\* The invariant is kept by every step, and so is always true.
THEOREM Inductive == Spec => []IInv
<1>1. Init => IInv
  BY Initially
<1>2. IInv /\ [Next]_vars => IInv'
  <2> SUFFICES ASSUME IInv, [Next]_vars PROVE IInv'
    OBVIOUS
  <2>1. ASSUME NEW op \in {"sendfile", "recvfile"}, NEW object \in BOOLEAN, Call(op, object)
        PROVE  IInv'
    BY <2>1, CallKeeps
  <2>2. CASE Look
    BY <2>2, LookKeeps
  <2>3. CASE Move
    BY <2>3, MoveKeeps
  <2>4. CASE Receive
    BY <2>4, ReceiveKeeps
  <2>5. CASE PutBack
    BY <2>5, PutBackKeeps
  <2>6. CASE Received
    BY <2>6, ReceivedKeeps
  <2>7. CASE Copy
    BY <2>7, CopyKeeps
  <2>8. CASE Send
    BY <2>8, SendKeeps
  <2>9. CASE Clean
    BY <2>9, CleanKeeps
  <2>10. CASE Crash
    BY <2>10, CrashKeeps
  <2>11. CASE UNCHANGED vars
    BY <2>11 DEF vars, IInv, Typed, WorkInv, NothingLost, KeptApartFrom, IsFile, FreeNames
  <2> QED BY <2>1, <2>2, <2>3, <2>4, <2>5, <2>6, <2>7, <2>8, <2>9, <2>10, <2>11 DEF Next
<1> QED BY <1>1, <1>2, PTL DEF Spec

\* What the user had at the path, or was told is received there, is in some file at any
\* moment: recvfile() moves a file to a name where none is, and removes it only when its
\* successor is there.
THEOREM NoFileLost == Spec => []NothingLost
<1>1. IInv => NothingLost
  BY DEF IInv
<1> QED BY <1>1, Inductive, PTL

\* Every variable keeps its type.
THEOREM TypeCorrect == Spec => []TypeOK
<1>1. IInv => TypeOK
  BY TypedIsTypeOK DEF IInv
<1> QED BY <1>1, Inductive, PTL

-----------------------------------------------------------------------------
(* A call leaves the files as it found them. *)

Untouched(S) == \A path \in Paths \ S : files[path] = before[path]

\* The file that was at the path is where it was, or has been moved away.
MovedAway ==
    IF call.temppath = "None" THEN Untouched({}) /\ ~IsFile(call.localpath)
    ELSE /\ Untouched({call.localpath, call.temppath})
         /\ files[call.temppath] = before[call.localpath]
         /\ ~IsFile(call.localpath) /\ before[call.temppath] = NoFile
         /\ before[call.localpath] # NoFile

\* Nothing but the temporary file of a file object is new.
ScratchOnly == Untouched({call.localpath}) /\ before[call.localpath] = NoFile

\* What is left to undo, as long as nothing excuses the call, at each point of it.
TraceInv ==
    /\ call.pc # "idle" => /\ call.n > 0
                           /\ ~call.object => call.localpath = "dest" /\ call.op = "recvfile"
                           /\ call.pc \notin {"sending", "cleaning"} => call.op = "recvfile"
    /\ call.pc = "sending" => call.op = "sendfile"
    /\ call.pc # "idle" => ~call.stranded
    /\ call.pc = "looking" => call.temppath = "None"
    /\ ~excused =>
         /\ call.pc \in {"looking", "moving", "sending"} => Untouched({})
         /\ call.pc = "sending" => before[call.localpath] = NoFile
         /\ call.pc = "receiving" => MovedAway
         /\ call.pc = "failed" => IF call.object THEN ScratchOnly ELSE MovedAway
         /\ call.pc = "received" =>
              /\ files[call.localpath] = call.n
              /\ call.object => ScratchOnly
              /\ Untouched({call.localpath, call.temppath})
              /\ call.temppath # "None" => before[call.temppath] = NoFile
         /\ call.pc = "copying" => ScratchOnly /\ files[call.localpath] = call.n
         /\ call.pc = "cleaning" =>
              /\ ScratchOnly
              /\ call.op = "recvfile" /\ call.outcome = "ok" => call.got = call.n

Trace == IInv /\ TraceInv /\ LeavesAsFound

\* Two states of the files are the same when they agree on each path.
LEMMA SameFiles == ASSUME Typed, Untouched({}) PROVE files = before
BY DEF Typed, Untouched

LEMMA SameFilesAfter == ASSUME Typed', Untouched({})' PROVE files' = before'
BY DEF Typed, Untouched

\* In the middle of a call there is nothing to say of its end.
LEMMA NotIdle == call'.pc # "idle" => LeavesAsFound'
BY DEF LeavesAsFound

\* After an excuse there is nothing to say of the files.
LEMMA Excused ==
    ASSUME Trace, IInv', excused', call.pc # "idle", call'.n = call.n, call'.op = call.op,
           call'.object = call.object, call'.localpath = call.localpath,
           call'.stranded = call.stranded,
           call'.pc \in {"idle", "cleaning", "failed"}, call.pc = "cleaning" => call'.pc = "idle",
           call'.pc = "cleaning" => call.object,
           call'.pc = "failed" => call.op = "recvfile"
    PROVE  Trace'
BY DEF Trace, TraceInv, LeavesAsFound

\* Typing, at the state before and after a step.
LEMMA TypedCall ==
    ASSUME IInv
    PROVE  /\ call \in CallRecords /\ call.localpath \in Paths /\ call.object \in BOOLEAN
           /\ call.n \in 0 .. MaxCalls /\ call.temppath \in Paths \cup {"None"}
           /\ DOMAIN files = Paths /\ DOMAIN before = Paths /\ excused \in BOOLEAN
           /\ call.pc # "idle" => call.temppath # call.localpath
BY DEF IInv, Typed, CallRecords, WorkInv

LEMMA CallTraces ==
    ASSUME Trace, IInv', NEW op \in {"sendfile", "recvfile"}, NEW object \in BOOLEAN,
           Call(op, object)
    PROVE  Trace'
<1>1. /\ before' = files /\ files' = files /\ call'.n = call.n + 1 /\ call'.op = op
      /\ call'.object = object /\ call'.temppath = "None" /\ ~call'.stranded
      /\ call'.pc = IF op = "sendfile" THEN "sending" ELSE "looking"
      /\ op = "sendfile" => object
  BY TypedCall DEF Call, Trace, CallRecords
<1>2. op = "sendfile" => files[call'.localpath] = NoFile
  BY FreeTempFileName, TypedCall DEF Call, Trace, CallRecords, IsFile
<1>3. ~object => call'.localpath = "dest"
  BY TypedCall DEF Call, Trace, CallRecords
<1>4. call.n + 1 > 0
  BY TypedCall DEF Trace
<1> QED BY <1>1, <1>2, <1>3, <1>4, NotIdle DEF Trace, TraceInv, Untouched

LEMMA LookTraces == ASSUME Trace, IInv', Look PROVE Trace'
<1>1. /\ files' = files /\ before' = before /\ excused' = excused
      /\ call.pc = "looking" /\ call'.pc \in {"moving", "receiving"}
      /\ call'.n = call.n /\ call'.op = call.op /\ call'.object = call.object
      /\ call'.stranded = call.stranded /\ call'.localpath = call.localpath
      /\ call'.pc = "receiving" =>
            ~IsFile(call.localpath) /\ call'.temppath = call.temppath
  BY TypedCall DEF Look, Trace, CallRecords
<1>2. call'.pc = "receiving" => call'.temppath = "None"
  BY <1>1 DEF Trace, TraceInv
<1> QED BY <1>1, <1>2, NotIdle DEF Trace, TraceInv, Untouched, MovedAway, IsFile

LEMMA MoveTraces == ASSUME Trace, IInv', Move PROVE Trace'
<1>0. /\ call.pc = "moving" /\ before' = before /\ excused' = excused
      /\ call'.n = call.n /\ call'.op = call.op /\ call'.object = call.object
      /\ call'.stranded = call.stranded /\ call'.localpath = call.localpath /\ call'.temppath = call.temppath
      /\ ~call.object /\ call.temppath \in Paths \ {call.localpath}
      /\ files[call.temppath] = NoFile /\ files[call.localpath] # NoFile
  BY TypedCall DEF Move, Trace, CallRecords, IInv, WorkInv, IsFile, Goto, End
<1>1. CASE End("other") /\ files' = files
  <2>1. call'.pc = "idle" /\ call'.outcome = "other"
    BY <1>0, <1>1, TypedCall DEF Trace, End, CallRecords
  <2>2. ~excused => files = before
    BY <1>0, SameFiles DEF Trace, IInv, TraceInv
  <2> QED BY <1>0, <1>1, <2>1, <2>2 DEF Trace, TraceInv, LeavesAsFound
<1>2. CASE /\ files' = [files EXCEPT ![call.temppath] = files[call.localpath],
                                     ![call.localpath] = NoFile]
           /\ Goto("receiving")
  <2>1. call'.pc = "receiving"
    BY <1>2, TypedCall DEF Trace, Goto, CallRecords
  <2>2. /\ files'[call.temppath] = files[call.localpath] /\ files'[call.localpath] = NoFile
        /\ \A path \in Paths \ {call.localpath, call.temppath} : files'[path] = files[path]
    BY <1>0, <1>2, TypedCall DEF Trace
  <2>3. call.localpath \in Paths /\ call.temppath # "None"
    BY <1>0, TypedCall DEF Trace, Paths
  <2> QED BY <1>0, <2>1, <2>2, <2>3, NotIdle DEF Trace, TraceInv, Untouched, MovedAway, IsFile
<1> QED BY <1>1, <1>2 DEF Move

LEMMA ReceiveTraces == ASSUME Trace, IInv', Receive PROVE Trace'
<1>0. /\ call.pc = "receiving" /\ before' = before
      /\ call'.n = call.n /\ call'.op = call.op /\ call'.object = call.object
      /\ call'.stranded = call.stranded /\ call'.localpath = call.localpath /\ call'.temppath = call.temppath
      /\ call.localpath \in Paths /\ call.object \in BOOLEAN
  BY TypedCall DEF Receive, Trace, CallRecords, Goto, End
<1>1. /\ call.object => call.temppath = "None" /\ call.op = "recvfile"
      /\ ~excused => MovedAway
      /\ call.temppath # call.localpath
  BY <1>0 DEF Trace, TraceInv, IInv, WorkInv
<1>2. CASE End("other") /\ excused' = TRUE
  BY <1>0, <1>2, Excused, TypedCall DEF End, CallRecords, Trace
<1>3. CASE /\ files' = [files EXCEPT ![call.localpath] = call.n]
           /\ Goto("received") /\ excused' = excused
  <2>1. call'.pc = "received"
    BY <1>3, TypedCall DEF Trace, Goto, CallRecords
  <2>2. /\ files'[call.localpath] = call.n
        /\ \A path \in Paths \ {call.localpath} : files'[path] = files[path]
    BY <1>0, <1>3, TypedCall DEF Trace
  <2> QED BY <1>0, <1>1, <1>3, <2>1, <2>2, NotIdle
          DEF Trace, TraceInv, Untouched, MovedAway, ScratchOnly, IsFile
<1>4. CASE files' = files /\ excused' = excused /\ Goto("failed")
  <2>1. call'.pc = "failed"
    BY <1>4, TypedCall DEF Trace, Goto, CallRecords
  <2> QED BY <1>0, <1>1, <1>4, <2>1, NotIdle
          DEF Trace, TraceInv, Untouched, MovedAway, ScratchOnly, IsFile
<1>5. CASE /\ files' = [files EXCEPT ![call.localpath] = -call.n]
           /\ excused' = (excused \/ ~call.object) /\ Goto("failed")
  <2>1. call'.pc = "failed"
    BY <1>5, TypedCall DEF Trace, Goto, CallRecords
  <2>2. \A path \in Paths \ {call.localpath} : files'[path] = files[path]
    BY <1>0, <1>5, TypedCall DEF Trace
  <2> QED BY <1>0, <1>1, <1>5, <2>1, <2>2, NotIdle
          DEF Trace, TraceInv, Untouched, MovedAway, ScratchOnly, IsFile
<1> QED BY <1>2, <1>3, <1>4, <1>5 DEF Receive

LEMMA PutBackTraces == ASSUME Trace, IInv', PutBack PROVE Trace'
<1>0. /\ call.pc = "failed" /\ before' = before /\ excused' = excused
      /\ call'.n = call.n /\ call'.op = call.op /\ call'.object = call.object
      /\ call'.temppath = call.temppath
      /\ call'.localpath = call.localpath /\ call.localpath \in Paths
      /\ call'.outcome = "OBEXError"
      /\ call'.pc = IF call.object THEN "cleaning" ELSE "idle"
      /\ call.temppath # call.localpath
  BY TypedCall DEF PutBack, Trace, CallRecords, End
<1>1. ~call.stranded
  BY <1>0 DEF Trace, TraceInv
<1>2. CASE call.temppath = "None" /\ End("OBEXError") /\ UNCHANGED files
  <2>1. ~call'.stranded /\ files' = files
    BY <1>1, <1>2, TypedCall DEF Trace, End, CallRecords
  <2>2. CASE call.object
    BY <1>0, <2>1, <2>2, NotIdle DEF Trace, TraceInv, Untouched, ScratchOnly
  <2>3. CASE ~call.object
    <3>1. ~excused => files' = before'
      BY <1>0, <1>2, <2>1, <2>3, SameFilesAfter
         DEF Trace, TraceInv, MovedAway, Untouched, IInv
    <3> QED BY <1>0, <2>1, <2>3, <3>1 DEF Trace, TraceInv, LeavesAsFound
  <2> QED BY <2>2, <2>3, TypedCall DEF Trace
<1>3. ASSUME call.temppath # "None"
      PROVE  /\ ~call.object /\ call.localpath = "dest" /\ call.op = "recvfile"
             /\ call.temppath \in Paths
             /\ ~excused => MovedAway
  BY <1>0, <1>3, TypedCall DEF Trace, TraceInv, IInv, WorkInv
<1>4. CASE /\ call.temppath # "None" /\ ~IsFile(call.localpath) /\ End("OBEXError")
           /\ files' = [files EXCEPT ![call.localpath] = files[call.temppath],
                                     ![call.temppath] = NoFile]
  <2>1. ~call'.stranded
    BY <1>1, <1>4, TypedCall DEF Trace, End, CallRecords
  <2>2. ~excused => Untouched({})'
    BY <1>0, <1>3, <1>4, TypedCall DEF MovedAway, Untouched, Trace
  <2>3. ~excused => files' = before'
    BY <2>2, SameFilesAfter DEF IInv
  <2> QED BY <1>0, <1>3, <1>4, <2>1, <2>3 DEF Trace, TraceInv, LeavesAsFound
<1>5. CASE /\ call.temppath # "None" /\ UNCHANGED files
           /\ call' = [call EXCEPT !.outcome = "OBEXError", !.stranded = TRUE,
                           !.pc = IF call.object THEN "cleaning" ELSE "idle"]
  <2>1. call'.stranded /\ files' = files
    BY <1>5, TypedCall DEF Trace, CallRecords
  <2>2. ASSUME ~excused
        PROVE  /\ files = [before EXCEPT !["dest"] = NoFile, ![call.temppath] = before["dest"]]
               /\ before["dest"] # NoFile
    <3>1. /\ Untouched({"dest", call.temppath}) /\ files["dest"] = NoFile
          /\ files[call.temppath] = before["dest"] /\ before["dest"] # NoFile
      <4>1. call.temppath # "None" /\ call.localpath = "dest" /\ MovedAway
        BY <1>3, <1>5, <2>2
      <4> QED BY <4>1 DEF MovedAway, IsFile
    <3>2. files \in [Paths -> Contents] /\ before \in [Paths -> Contents]
      BY DEF Trace, IInv, Typed
    <3>3. \A path \in Paths : files[path] =
            [before EXCEPT !["dest"] = NoFile, ![call.temppath] = before["dest"]][path]
      BY <1>0, <1>3, <1>5, <3>1, <3>2 DEF Untouched
    <3> QED BY <3>1, <3>2, <3>3
  <2> QED BY <1>0, <1>3, <1>5, <2>1, <2>2 DEF Trace, TraceInv, LeavesAsFound
<1> QED BY <1>2, <1>4, <1>5 DEF PutBack

LEMMA ReceivedTraces == ASSUME Trace, IInv', Received PROVE Trace'
<1>0. /\ call.pc = "received" /\ before' = before
      /\ call'.n = call.n /\ call'.op = call.op /\ call'.object = call.object
      /\ call'.stranded = call.stranded /\ call'.localpath = call.localpath /\ call.localpath \in Paths
      /\ call.temppath # call.localpath /\ call.object \in BOOLEAN
      /\ call.op = "recvfile" /\ call.object => call.temppath = "None"
  BY TypedCall DEF Received, Trace, TraceInv, IInv, WorkInv, CallRecords, End, Goto
<1>1. CASE End("other") /\ excused' = TRUE
  BY <1>0, <1>1, Excused, TypedCall DEF End, CallRecords, Trace
<1>2. CASE /\ files' = IF call.temppath = "None" THEN files
                       ELSE [files EXCEPT ![call.temppath] = NoFile]
           /\ IF call.object THEN Goto("copying") ELSE End("ok")
           /\ UNCHANGED excused
  <2>1. CASE call.object
    <3>1. files' = files /\ call'.pc = "copying" /\ excused' = excused
      BY <1>0, <1>2, <2>1, TypedCall DEF Goto, Trace, CallRecords, TraceInv, IInv, WorkInv
    <3> QED BY <1>0, <2>1, <3>1, NotIdle DEF Trace, TraceInv, Untouched, ScratchOnly
  <2>2. CASE ~call.object
    <3>1. call'.pc = "idle" /\ call'.outcome = "ok" /\ excused' = excused
      BY <1>2, <2>2, TypedCall DEF End, Trace, CallRecords
    <3>2. ~excused => files' = [before EXCEPT !["dest"] = call.n]
      <4> SUFFICES ASSUME ~excused PROVE files' = [before EXCEPT !["dest"] = call.n]
        OBVIOUS
      <4>1. /\ files[call.localpath] = call.n /\ call.localpath = "dest"
            /\ Untouched({call.localpath, call.temppath})
            /\ call.temppath # "None" => before[call.temppath] = NoFile
        BY <1>0, <2>2 DEF Trace, TraceInv
      <4>2. DOMAIN files' = Paths /\ files' \in [Paths -> Contents]
        BY DEF IInv, Typed
      <4>3. \A path \in Paths : files'[path] = IF path = "dest" THEN call.n ELSE before[path]
        <5> TAKE path \in Paths
        <5>1. CASE call.temppath = "None"
          BY <1>0, <1>2, <4>1, <5>1 DEF Untouched, Paths
        <5>2. CASE call.temppath # "None"
          BY <1>0, <1>2, <4>1, <5>2, TypedCall DEF Untouched, Trace
        <5> QED BY <5>1, <5>2
      <4>4. before \in [Paths -> Contents]
        BY DEF Trace, IInv, Typed
      <4> QED BY <4>2, <4>3, <4>4
    <3> QED BY <1>0, <2>2, <3>1, <3>2 DEF Trace, TraceInv, LeavesAsFound
  <2> QED BY <1>0, <2>1, <2>2
<1> QED BY <1>1, <1>2 DEF Received

LEMMA CopyTraces == ASSUME Trace, IInv', Copy PROVE Trace'
<1>0. /\ call.pc = "copying" /\ before' = before /\ files' = files /\ excused' = excused
      /\ call'.n = call.n /\ call'.op = call.op /\ call'.object = call.object
      /\ call'.stranded = call.stranded /\ call'.localpath = call.localpath /\ call.object /\ call'.pc = "cleaning"
      /\ call'.outcome = "ok" => call'.got = files[call.localpath]
  BY TypedCall DEF Copy, Trace, CallRecords, End, IInv, WorkInv
<1> QED BY <1>0, NotIdle DEF Trace, TraceInv, Untouched, ScratchOnly

LEMMA SendTraces == ASSUME Trace, IInv', Send PROVE Trace'
<1>0. /\ call.pc = "sending" /\ before' = before /\ excused' = excused
      /\ call'.n = call.n /\ call'.op = call.op /\ call'.object = call.object
      /\ call'.stranded = call.stranded /\ call'.localpath = call.localpath /\ call.object /\ call'.pc = "cleaning"
      /\ \A path \in Paths \ {call.localpath} : files'[path] = files[path]
  BY TypedCall DEF Send, Trace, CallRecords, End, IInv, WorkInv
<1>1. call.op = "sendfile"
  BY <1>0 DEF Trace, TraceInv
<1> QED BY <1>0, <1>1, NotIdle DEF Trace, TraceInv, Untouched, ScratchOnly

LEMMA CleanTraces == ASSUME Trace, IInv', Clean PROVE Trace'
<1>0. /\ call.pc = "cleaning" /\ before' = before
      /\ call'.n = call.n /\ call'.op = call.op /\ call'.object = call.object
      /\ call'.stranded = call.stranded /\ call'.localpath = call.localpath /\ call.object /\ call'.pc = "idle"
      /\ call'.outcome = call.outcome /\ call'.got = call.got
      /\ call.localpath \in Paths
  BY TypedCall DEF Clean, Trace, CallRecords, Goto, IInv, WorkInv
<1>1. CASE excused' = TRUE
  BY <1>0, <1>1 DEF Trace, TraceInv, LeavesAsFound
<1>2. CASE files' = [files EXCEPT ![call.localpath] = NoFile] /\ excused' = excused
  <2>1. ~excused => Untouched({})'
    BY <1>0, <1>2, TypedCall DEF Trace, TraceInv, ScratchOnly, Untouched
  <2>2. ~excused => files' = before'
    BY <2>1, SameFilesAfter DEF IInv
  <2> QED BY <1>0, <1>2, <2>2 DEF Trace, TraceInv, LeavesAsFound
<1> QED BY <1>1, <1>2 DEF Clean

LEMMA CrashTraces == ASSUME Trace, IInv', Crash PROVE Trace'
BY TypedCall DEF Crash, Trace, TraceInv, LeavesAsFound, CallRecords

\* A call that returns leaves no trace but the file it has received, or has left the
\* original whole under its temporary name and raised OBEXError, unless a failure
\* that the code does not provide for, or the end of the program, excuses it; and a file
\* object gets what was received for it.
THEOREM FilesAreAsFound == Spec => []LeavesAsFound
<1>1. Init /\ IInv => Trace
  BY DEF Init, Trace, TraceInv, LeavesAsFound
<1>2. Trace /\ IInv' /\ [Next]_vars => Trace'
  <2> SUFFICES ASSUME Trace, IInv', [Next]_vars PROVE Trace'
    OBVIOUS
  <2>1. ASSUME NEW op \in {"sendfile", "recvfile"}, NEW object \in BOOLEAN, Call(op, object)
        PROVE  Trace'
    BY <2>1, CallTraces
  <2>2. CASE Look
    BY <2>2, LookTraces
  <2>3. CASE Move
    BY <2>3, MoveTraces
  <2>4. CASE Receive
    BY <2>4, ReceiveTraces
  <2>5. CASE PutBack
    BY <2>5, PutBackTraces
  <2>6. CASE Received
    BY <2>6, ReceivedTraces
  <2>7. CASE Copy
    BY <2>7, CopyTraces
  <2>8. CASE Send
    BY <2>8, SendTraces
  <2>9. CASE Clean
    BY <2>9, CleanTraces
  <2>10. CASE Crash
    BY <2>10, CrashTraces
  <2>11. CASE UNCHANGED vars
    BY <2>11 DEF vars, Trace, TraceInv, LeavesAsFound, Untouched, MovedAway, ScratchOnly, IsFile
  <2> QED BY <2>1, <2>2, <2>3, <2>4, <2>5, <2>6, <2>7, <2>8, <2>9, <2>10, <2>11 DEF Next
<1>3. Trace => LeavesAsFound
  BY DEF Trace
<1>4. Init => IInv
  BY Initially
<1> QED BY <1>1, <1>2, <1>3, <1>4, Inductive, PTL DEF Spec
=============================================================================
