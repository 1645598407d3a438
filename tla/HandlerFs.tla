----------------------------- MODULE HandlerFs ------------------------------
(***************************************************************************)
(* http::server::impl::HandlerFs: files served to a client that keeps what *)
(* it got and asks again with If-None-Match and If-Modified-Since, while   *)
(* the file is changed by others.                                          *)
(*                                                                         *)
(* One step is one call of the file system or the writing of a part of the *)
(* response.  A content is its length and which of the versions written so *)
(* far it has in each place.  Of the response the status, the two header   *)
(* fields and the body matter here; OutputMessage is in HttpOutput.        *)
(***************************************************************************)
EXTENDS HttpValues

CONSTANTS
    FileSizes,      \* lengths of the file
    Inodes,         \* numbers of files, in the order of their use
    MaxFsClock, MaxChanges,     \* bounds
    FsGranula,      \* size of the response's buffer
    ExtInfos        \* what the conf says of the file's extension: [level, minSize]

ASSUME FsAssumption ==
    /\ FileSizes \subseteq Nat /\ Inodes \subseteq Nat \ {0} /\ 1 \in Inodes
    /\ FsGranula \in Nat \ {0}
    /\ MaxFsClock \in Nat \ {0} /\ MaxFsClock < 24856 * DayTicks

VARIABLES
    fsTime, disk,   \* the time; per inode its content and st_mtime
    changes,        \* history: how many contents the file has had, less one
    entry,          \* the inode at the path, 0 if there is none
    fsAt, fsAsk,    \* where onRequest is; the request's path and fields
    st, fd,         \* stat's answer; the open inode, 0 if none
    reply,          \* the response so far: code, fields and body
    copy,           \* what the client keeps
    fsConf,         \* allowETag, allowLastModified, ExtInfo
    changed,        \* history: the file has changed since stat
    excused         \* history: a copy may be stale unseen (see CopyCurrent)

fileVars == <<fsTime, disk, changes, entry, fsAt, fsAsk, st, fd, reply, copy, fsConf, changed, excused>>
fsVars == <<fileVars, headerValue>>

NoCopy == [kept |-> FALSE]
NoStat == [size |-> 0, mtime |-> 0, ino |-> 0]
NoReply == [code |-> 0, compress |-> FALSE, body |-> <<>>]
Content(version, size) == [i \in 1 .. size |-> version]
Unused == [content |-> <<>>, mtime |-> 0]

FsStart(conf) ==
    /\ fsTime = 1 /\ entry = 1 /\ changes = 0
    /\ disk = [n \in Inodes |-> IF n = 1 THEN [content |-> Content(1, 2), mtime |-> 0] ELSE Unused]
    /\ fsAt = "idle" /\ fsAsk = "file" /\ st = NoStat /\ fd = 0
    /\ reply = NoReply /\ copy = NoCopy /\ fsConf = conf /\ changed = FALSE /\ excused = FALSE
    /\ ValuesStart

FsInit ==
    \E e, m \in BOOLEAN, x \in ExtInfos :
      /\ e \/ m
      /\ FsStart([allowETag |-> e, allowLastModified |-> m, level |-> x.level, minSize |-> x.minSize])

-----------------------------------------------------------------------------
(* The file system. *)

FsTick ==
    /\ fsTime < MaxFsClock
    /\ fsTime' = fsTime + 1
    /\ UNCHANGED <<disk, changes, entry, fsAt, fsAsk, st, fd, reply, copy, fsConf, changed, excused, headerValue>>

Untouched == <<fsTime, fsAt, fsAsk, st, fd, reply, copy, fsConf, headerValue>>

(* Each change has a content of its own, numbered by the changes so far. *)
Change(n, size) ==
    /\ changes < MaxChanges
    /\ changes' = changes + 1
    /\ disk' = [disk EXCEPT ![n] = [content |-> Content(changes + 2, size), mtime |-> fsTime]]
    /\ changed' = (fsAt \notin {"idle", "stat"})
    /\ excused' = (excused \/ \E i \in Inodes : disk[i].mtime = fsTime)
    /\ UNCHANGED Untouched

(* The file is overwritten in place; another file is moved to its place; *)
(* it is removed.                                                        *)
FsWrite(size) == entry # 0 /\ Change(entry, size) /\ UNCHANGED entry
FsReplace(n, size) == disk[n] = Unused /\ Change(n, size) /\ entry' = n
FsRemove ==
    /\ entry # 0 /\ entry' = 0 /\ changed' = (fsAt \notin {"idle", "stat"})
    /\ UNCHANGED <<disk, changes, excused>> /\ UNCHANGED Untouched

-----------------------------------------------------------------------------
(* onRequest. *)

ETag(s) == [mtime |-> s.mtime, size |-> s.size, ino |-> s.ino]
StatNow(n) == [size |-> Len(disk[n].content), mtime |-> disk[n].mtime, ino |-> n]

(* A request for the file, for something that is not one, or with "..". *)
FsRequest(what) ==
    /\ fsAt = "idle"
    /\ fsAsk' = what /\ fsAt' = "stat" /\ reply' = NoReply
    /\ UNCHANGED <<fsTime, disk, changes, entry, st, fd, copy, fsConf, changed, excused, headerValue>>

FsAnswer(code) == [code |-> code, compress |-> FALSE, length |-> 0, body |-> <<>>]

FsNotFound ==
    /\ fsAt = "stat" /\ (fsAsk # "file" \/ entry = 0)
    /\ reply' = FsAnswer(404) /\ fsAt' = "done"
    /\ UNCHANGED <<fsTime, disk, changes, entry, fsAsk, st, fd, copy, fsConf, changed, excused, headerValue>>

(* The client's fields, if it keeps a copy. *)
NoneMatch(s) == fsConf.allowETag /\ copy.kept /\ copy.etag = ETag(s)
NotModifiedSince(s) ==
    /\ fsConf.allowLastModified /\ copy.kept
    /\ LET since == Parse("Date", copy.modified) IN since.ok /\ since.value >= s.mtime

FsStat ==
    /\ fsAt = "stat" /\ fsAsk = "file" /\ entry # 0
    /\ LET s == StatNow(entry) IN
       /\ st' = s /\ changed' = FALSE
       /\ IF NoneMatch(s) \/ NotModifiedSince(s)
          THEN reply' = FsAnswer(304) /\ fsAt' = "done"
          ELSE UNCHANGED reply /\ fsAt' = IF s.size # 0 THEN "open" ELSE "header"
    /\ UNCHANGED <<fsTime, disk, changes, entry, fsAsk, fd, copy, fsConf, excused, headerValue>>

(* open; its failure (-1) is not noticed, and the body stays empty. *)
FsOpen ==
    /\ fsAt = "open" /\ fsAt' = "header"
    /\ \/ entry # 0 /\ fd' = entry /\ UNCHANGED excused
       \/ fd' = 0 /\ excused' = (excused \/ entry # 0)
    /\ UNCHANGED <<fsTime, disk, changes, entry, fsAsk, st, reply, copy, fsConf, changed, headerValue>>

(* The fields say what stat said. *)
DescribedNow(s) == IF entry = 0 THEN s ELSE StatNow(entry)
Described(s) == s

FsHeader ==
    /\ fsAt = "header"
    /\ \E accepted \in BOOLEAN :
       LET s == Described(st) IN
       reply' = [code |-> 200, etag |-> ETag(s), modified |-> Generate("Date", s.mtime),
                 compress |-> accepted /\ fsConf.level > 0 /\ st.size > 0 /\ st.size >= fsConf.minSize,
                 length |-> st.size, body |-> <<>>]
    /\ fsAt' = IF fd = 0 THEN "flush" ELSE "read"
    /\ UNCHANGED <<fsTime, disk, changes, entry, fsAsk, st, fd, copy, fsConf, changed, excused, headerValue>>

(* read, whose answer is ignored: beyond the end of a file that has become *)
(* shorter the body is whatever is in the buffer.                          *)
FsRead ==
    /\ fsAt = "read"
    /\ LET n    == Len(reply.body)
           have == disk[fd].content
           upto == IF n + FsGranula < st.size THEN n + FsGranula ELSE st.size
       IN  /\ reply' = [reply EXCEPT !.body =
                          [i \in 1 .. upto |-> IF i <= n THEN reply.body[i]
                                               ELSE IF i <= Len(have) THEN have[i] ELSE 0]]
           /\ fsAt' = IF upto = st.size THEN "flush" ELSE "read"
    /\ UNCHANGED <<fsTime, disk, changes, entry, fsAsk, st, fd, copy, fsConf, changed, excused, headerValue>>

FsFlush ==
    /\ fsAt = "flush" /\ fsAt' = "done" /\ fd' = 0
    /\ UNCHANGED <<fsTime, disk, changes, entry, fsAsk, st, reply, copy, fsConf, changed, excused, headerValue>>

(* The variables of a call end with it. *)
Forgotten == reply' = NoReply /\ st' = NoStat /\ fsAsk' = "file" /\ changed' = FALSE

(* The connection breaks while the response is written (at the fields the  *)
(* descriptor is not closed).                                              *)
FsBroken ==
    /\ fsAt \in {"header", "read", "flush"}
    /\ fsAt' = "idle" /\ fd' = 0 /\ Forgotten
    /\ UNCHANGED <<fsTime, disk, changes, entry, copy, fsConf, excused, headerValue>>

(* The client: it keeps a response that is whole, that is, has the length  *)
(* it announced; a compressed one announces none.                          *)
FsReceived ==
    /\ fsAt = "done" /\ fsAt' = "idle"
    /\ copy' = CASE reply.code = 200 ->
                      IF reply.compress \/ Len(reply.body) = reply.length
                      THEN [kept |-> TRUE, etag |-> reply.etag, modified |-> reply.modified, body |-> reply.body]
                      ELSE NoCopy
                 [] reply.code = 404 -> NoCopy
                 [] OTHER -> copy
    /\ Forgotten
    /\ UNCHANGED <<fsTime, disk, changes, entry, fd, fsConf, excused, headerValue>>

FsNext ==
    \/ FsTick
    \/ \E size \in FileSizes : FsWrite(size) \/ \E n \in Inodes : FsReplace(n, size)
    \/ FsRemove
    \/ \E what \in {"file", "directory", "dotdot"} : FsRequest(what)
    \/ FsNotFound \/ FsStat \/ FsOpen \/ FsHeader \/ FsRead \/ FsFlush \/ FsBroken \/ FsReceived

(* A field of some message, apart from the files. *)
FieldNext == headerValue.kind = "none" /\ ValuesNext /\ UNCHANGED fileVars

FsSpec == FsInit /\ [][FsNext \/ FieldNext]_fsVars

-----------------------------------------------------------------------------
(* Properties. *)

(* A client is told to use its copy only if that is the file as stat found *)
(* it, though the file may change at any step of a response and what the   *)
(* client got then be a mixture of versions.  Excused are two changes at   *)
(* one time, which st_mtime does not tell apart, and an open that failed,  *)
(* after which an empty body passes for the file.                          *)
CopyCurrent ==
    fsAt = "done" /\ reply.code = 304 /\ ~excused /\ ~changed => copy.body = disk[entry].content

(* A file that does not change while it is served is served whole. *)
ServedWhole ==
    fsAt = "done" /\ reply.code = 200 /\ ~excused /\ ~changed => reply.body = disk[entry].content

(* Files are served as they are; and what is said of them and of requests  *)
(* in header fields means what it says.                                    *)
FilesServed == CopyCurrent /\ ServedWhole /\ ValuesExact
=============================================================================
