----------------------------- MODULE Clipboard -----------------------------
(***************************************************************************)
(* The clipboard of a viewer page (client/src/services/clipboard.ts): it   *)
(* copies the local clipboard to the remote desktop when the page gets the *)
(* focus, and what is copied on the remote desktop to the local clipboard. *)
(* Reading and writing the local clipboard are asynchronous and refused    *)
(* while the page is not focused.                                          *)
(***************************************************************************)
EXTENDS Naturals, Sequences

CONSTANTS
  Texts,      \* the texts people copy
  Image,      \* whatever is copied on the remote desktop and is no text
  Nothing,    \* the undefined cache
  MaxCopies,  \* bound: how often anybody copies anything
  MaxReads    \* bound: the reads of the local clipboard, and the streams they lead
             \* to, that are under way together

ASSUME ClipboardAssumption ==
  /\ Image \notin Texts /\ Nothing \notin Texts
  /\ MaxCopies \in Nat /\ MaxReads \in Nat \ {0}

VARIABLES
  installed,  \* install was called, in this page
  focused,    \* the page has the focus
  local,      \* the local clipboard
  remote,     \* the clipboard of the remote desktop
  cache,      \* this.cache
  reads,      \* calls of readText: TRUE if update made it, FALSE if install did
  answers,    \* what readText found, on its way back, with the call it answers
  writes,     \* calls of writeText
  toRemote,   \* clipboard streams on their way to the remote desktop
  toLocal,    \* clipboard streams from the remote desktop
  copies

clipboardVars ==
  <<installed, focused, local, remote, cache, reads, answers, writes, toRemote,
    toLocal, copies>>

Answer == [push : BOOLEAN, text : Texts]

ClipboardTypeOK ==
  /\ installed \in BOOLEAN
  /\ focused \in BOOLEAN
  /\ local \in Texts
  /\ remote \in Texts \cup {Image}
  /\ cache \in Texts \cup {Nothing}
  /\ reads \in Seq(BOOLEAN)
  /\ answers \in Seq(Answer)
  /\ writes \in Seq(Texts)
  /\ toRemote \in Seq(Texts)
  /\ toLocal \in Seq(Texts \cup {Image})
  /\ copies \in 0 .. MaxCopies
  /\ Len(reads) + Len(answers) + Len(toRemote) <= MaxReads
  /\ ~installed => reads = <<>> /\ answers = <<>> /\ writes = <<>>

ClipboardInit ==
  /\ installed = FALSE /\ focused = TRUE
  /\ local \in Texts /\ remote \in Texts /\ cache = Nothing
  /\ reads = <<>> /\ answers = <<>> /\ writes = <<>>
  /\ toRemote = <<>> /\ toLocal = <<>>
  /\ copies = 0

(* The page is left: what is not on a clipboard yet is gone. *)
ClipboardReset ==
  /\ installed' = FALSE /\ focused' = TRUE /\ cache' = Nothing
  /\ reads' = <<>> /\ answers' = <<>> /\ writes' = <<>>
  /\ toRemote' = <<>> /\ toLocal' = <<>>
  /\ UNCHANGED <<local, remote, copies>>

(* The connection is lost, and what was under way on it. *)
StreamsLost ==
  /\ toRemote' = <<>> /\ toLocal' = <<>>
  /\ UNCHANGED <<installed, focused, local, remote, cache, reads, answers, writes, copies>>

(* getLocalClipboard up to its await. *)
Read(push) == reads' = Append(reads, push)

RoomToRead == Len(reads) + Len(answers) + Len(toRemote) < MaxReads

(* install reads the clipboard once, for the cache only, and listens. *)
Install ==
  /\ installed' = TRUE
  /\ Read(FALSE)
  /\ UNCHANGED <<focused, local, remote, cache, answers, writes, toRemote, toLocal, copies>>

----------------------------------------------------------------------------
(* The listeners. *)

(* copy, cut or load, in the page. *)
Update ==
  /\ installed /\ focused /\ RoomToRead
  /\ Read(TRUE)
  /\ UNCHANGED <<installed, focused, local, remote, cache, answers, writes, toRemote, toLocal, copies>>

Focus ==
  /\ ~focused
  /\ focused' = TRUE
  /\ \/ installed /\ RoomToRead /\ Read(TRUE)
     \/ ~installed /\ UNCHANGED reads
  /\ UNCHANGED <<installed, local, remote, cache, answers, writes, toRemote, toLocal, copies>>

Blur ==
  /\ focused
  /\ focused' = FALSE
  /\ UNCHANGED <<installed, local, remote, cache, reads, answers, writes, toRemote, toLocal, copies>>

ReadText ==
  /\ reads # <<>> /\ focused
  /\ answers' = Append(answers, [push |-> Head(reads), text |-> local])
  /\ reads' = Tail(reads)
  /\ UNCHANGED <<installed, focused, local, remote, cache, writes, toRemote, toLocal, copies>>

(* The promise is rejected, and nobody cares. *)
ReadRefused ==
  /\ reads # <<>> /\ ~focused
  /\ reads' = Tail(reads)
  /\ UNCHANGED <<installed, focused, local, remote, cache, answers, writes, toRemote, toLocal, copies>>

(* Mistake: what is in the cache already is not sent again. *)
AnsweredNews(tunnel) ==
  /\ answers # <<>>
  /\ answers' = Tail(answers)
  /\ cache' = Head(answers).text
  /\ toRemote' = IF tunnel /\ Head(answers).push /\ cache' # cache
                   THEN Append(toRemote, cache') ELSE toRemote
  /\ UNCHANGED <<installed, focused, local, remote, reads, writes, toLocal, copies>>

(* The answer is cached, and setRemoteClipboard sends it if an update has  *)
(* asked for it; a tunnel that is closed drops it.                         *)
Answered(tunnel) ==
  /\ answers # <<>>
  /\ answers' = Tail(answers)
  /\ cache' = Head(answers).text
  /\ toRemote' = IF tunnel /\ Head(answers).push
                   THEN Append(toRemote, cache') ELSE toRemote
  /\ UNCHANGED <<installed, focused, local, remote, reads, writes, toLocal, copies>>

(* onClipboard and setLocalClipboard: the end of a stream from the remote  *)
(* desktop.  Only text is written.                                         *)
OnClipboard ==
  /\ toLocal # <<>>
  /\ toLocal' = Tail(toLocal)
  /\ writes' = IF installed /\ Head(toLocal) # Image
                 THEN Append(writes, Head(toLocal)) ELSE writes
  /\ UNCHANGED <<installed, focused, local, remote, cache, reads, answers, toRemote, copies>>

WriteText ==
  /\ writes # <<>>
  /\ local' = IF focused THEN Head(writes) ELSE local
  /\ writes' = Tail(writes)
  /\ UNCHANGED <<installed, focused, remote, cache, reads, answers, toRemote, toLocal, copies>>

----------------------------------------------------------------------------
(* The remote desktop and the people. *)

RemoteReceives ==
  /\ toRemote # <<>>
  /\ remote' = Head(toRemote)
  /\ toRemote' = Tail(toRemote)
  /\ UNCHANGED <<installed, focused, local, cache, reads, answers, writes, toLocal, copies>>

(* In another program. *)
LocalCopy ==
  /\ ~focused /\ copies < MaxCopies
  /\ copies' = copies + 1
  /\ \E t \in Texts : local' = t
  /\ UNCHANGED <<installed, focused, remote, cache, reads, answers, writes, toRemote, toLocal>>

RemoteCopy(tunnel) ==
  /\ copies < MaxCopies
  /\ copies' = copies + 1
  /\ \E t \in Texts \cup {Image} :
       /\ remote' = t
       /\ toLocal' = IF tunnel THEN Append(toLocal, t) ELSE toLocal
  /\ UNCHANGED <<installed, focused, local, cache, reads, answers, writes, toRemote>>

Relay(tunnel) ==
  ReadText \/ ReadRefused \/ Answered(tunnel) \/ OnClipboard \/ WriteText \/ RemoteReceives

ClipboardStep(tunnel) ==
  \/ Relay(tunnel)
  \/ Update \/ Focus \/ Blur
  \/ LocalCopy \/ RemoteCopy(tunnel)

=============================================================================
