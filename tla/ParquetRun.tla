----------------------------- MODULE ParquetRun -----------------------------
(***************************************************************************)
(* The two Parquet adapters.  A local call opens the file at its path,     *)
(* twice (ParquetAdapter::open looks at the footer, execute builds the     *)
(* reader), and then pulls one row group after the other through the       *)
(* handle it has.  A remote call (S3ParquetAdapter) downloads the object,  *)
(* writes it to a temporary file of its own and runs the local adapter on  *)
(* that; the file goes when the call ends, whichever way it ends.          *)
(*                                                                         *)
(* Others replace the object, and replace, remove or overwrite the local   *)
(* file, while the calls run.  A version stands for the contents of a      *)
(* file, a row group for the version it belongs to.                        *)
(***************************************************************************)
EXTENDS AdapterCalls

CONSTANTS
    LocalCalls, RemoteCalls,
    NumGroups,   \* row groups in a file
    MaxVersion,  \* bound on the versions of the file and of the object
    Gone,        \* no file at a path
    Partial,     \* a file that is not complete
    Spoiled      \* of a call whose file was overwritten under it

ASSUME ParquetAssumption ==
    /\ LocalCalls \cap RemoteCalls = {}
    /\ NumGroups \in Nat /\ MaxVersion \in Nat \ {0}
\* What stands for no version is none, nor is it anything else of its kind.
ASSUME SentinelsAssumption ==
    /\ {None, Gone, Partial, Spoiled} \cap Nat = {}
    /\ None \notin {Gone, Partial, Spoiled}
    /\ Gone \notin {Partial, Spoiled}
    /\ Partial # Spoiled

VARIABLES
    object,   \* the version of the object in the store
    version,  \* the last version of the local file
    file,     \* the inode at the local path, or Gone
    content,  \* what the inodes of the local file hold: an inode is named by its
              \*   first version
    tmp,      \* the temporary file of each remote call: Gone, Partial or a version
    handle,   \* the inode each local call reads, None before it is open
    read      \* the row groups a call has pulled

source  == <<object, version, file, content>>
parquet == <<source, tmp, handle, read>>

ParquetCalls == LocalCalls \cup RemoteCalls

ParquetInit ==
    /\ object = 1
    /\ version = 1
    /\ file \in {1, Gone}
    /\ content = [i \in 1 .. MaxVersion |-> IF i = 1 THEN 1 ELSE Gone]
    /\ tmp = [c \in RemoteCalls |-> Gone]
    /\ handle = [c \in LocalCalls |-> None]
    /\ read = [c \in ParquetCalls |-> <<>>]

-----------------------------------------------------------------------------
(* The download.                                                           *)

\* get and bytes: one response, which has one version of the object.
Get(c) ==
    /\ Idle(c)
    /\ seen' = [seen EXCEPT ![c] = object]
    /\ Goto(c, "downloaded")
    /\ UNCHANGED <<pool, parquet>>

GetFails(c) ==
    /\ Idle(c)
    /\ ReturnHarmed(c, "connection")
    /\ UNCHANGED <<seen, pool, parquet>>

\* NamedTempFile::new, File::create and write_all: tokio's write_all returns while
\* the write itself is still a job of the pool.
StoreTemp(c) ==
    /\ pc[c] = "downloaded"
    /\ tmp' = [tmp EXCEPT ![c] = Partial]
    /\ Spawn(c)
    /\ Goto(c, "writing")
    /\ UNCHANGED <<seen, source, handle, read>>

StoreTempFails(c) ==
    /\ pc[c] = "downloaded"
    /\ ReturnHarmed(c, "connection")
    /\ UNCHANGED <<seen, pool, parquet>>

WriteEnds(c) ==
    /\ pc[c] = "writing"
    /\ c \in busy
    /\ tmp' = [tmp EXCEPT ![c] = seen[c]]
    /\ EndJob(c)
    /\ UNCHANGED <<calls, source, handle, read>>

\* The job fails, and flush reports it.
WriteFails(c) ==
    /\ pc[c] = "writing"
    /\ c \in busy
    /\ tmp' = [tmp EXCEPT ![c] = Gone]
    /\ ReturnHarmed(c, "connection")
    /\ EndJob(c)
    /\ UNCHANGED <<seen, source, handle, read>>

\* Plausible bug: the file is closed without a flush.
FlushForgotten(c) == TRUE

Flushed(c) == c \notin busy /\ \A i \in DOMAIN queue : queue[i] # c

-----------------------------------------------------------------------------
(* The local adapter.                                                      *)

AtPath(c) ==
    IF c \in RemoteCalls THEN tmp[c] ELSE IF file = Gone THEN Gone ELSE content[file]

\* The answer of a call ends the life of its temporary file.
Unlinked(c) == IF c \in RemoteCalls THEN [tmp EXCEPT ![c] = Gone] ELSE tmp

\* No file at the path, or one without a footer.  Nobody but the adapter touches a
\* temporary file; the local one is in the hands of others.
CannotOpen(c) ==
    /\ AtPath(c) \in {Gone, Partial}
    /\ AnswerWith(c, IF AtPath(c) = Gone THEN "connection" ELSE "query")
    /\ harmed' = harmed \cup ({c} \cap LocalCalls)
    /\ tmp' = Unlinked(c)

\* A local call begins with ParquetAdapter::open; a remote one gets there when flush
\* returns.
AtOpen(c) == IF c \in LocalCalls THEN Idle(c) ELSE pc[c] = "writing" /\ Flushed(c)

\* ParquetAdapter::open, on the caller's own thread, and the first step of execute.
Validate(c) ==
    /\ AtOpen(c)
    /\ \/ CannotOpen(c) /\ UNCHANGED pool
       \/ AtPath(c) \notin {Gone, Partial} /\ Goto(c, "opening") /\ Spawn(c) /\ UNCHANGED tmp
    /\ UNCHANGED <<seen, source, handle, read>>

\* The file opens, and is not Parquet.
NotParquet(c) ==
    /\ AtOpen(c)
    /\ AtPath(c) \notin {Gone, Partial}
    /\ ReturnHarmed(c, "query")
    /\ tmp' = Unlinked(c)
    /\ UNCHANGED <<seen, pool, source, handle, read>>

ParquetThread(c) ==
    /\ pc[c] \in {"writing", "opening", "reading"}
    /\ TakeJob(c)
    /\ UNCHANGED <<calls, parquet>>

\* The first job of execute: the file is opened again, and its footer read.
OpenReader(c) ==
    /\ pc[c] = "opening"
    /\ c \in busy
    /\ \/ CannotOpen(c) /\ EndJob(c) /\ UNCHANGED <<seen, handle>>
       \/ /\ AtPath(c) \notin {Gone, Partial}
          /\ IF c \in LocalCalls
               THEN /\ handle' = [handle EXCEPT ![c] = file]
                    /\ seen' = [seen EXCEPT ![c] = content[file]]
               ELSE UNCHANGED <<handle, seen>>
          /\ Respawn(c)
          /\ Goto(c, "reading")
          /\ UNCHANGED tmp
    /\ UNCHANGED <<source, read>>

\* Plausible bug: the path is opened again for every row group.
RowGroupAtPath(c) == AtPath(c)

RowGroup(c) == IF c \in LocalCalls THEN content[handle[c]] ELSE tmp[c]

\* A job of next_batch.
NextBatch(c) ==
    /\ pc[c] = "reading"
    /\ c \in busy
    /\ Len(read[c]) < NumGroups
    /\ read' = [read EXCEPT ![c] = Append(@, RowGroup(c))]
    /\ Respawn(c)
    /\ UNCHANGED <<calls, source, tmp, handle>>

\* The job that finds the end of the file; evaluate gives its verdicts.
EndOfFile(c) ==
    /\ pc[c] = "reading"
    /\ c \in busy
    /\ Len(read[c]) = NumGroups
    /\ Return(c, "ok")
    /\ EndJob(c)
    /\ tmp' = Unlinked(c)
    /\ UNCHANGED <<seen, source, handle, read>>

\* A read error, or a panic of the decoder, which the JoinHandle reports.
JobFails(c) ==
    /\ pc[c] \in {"opening", "reading"}
    /\ c \in busy
    /\ \E error \in {"connection", "query"} : ReturnHarmed(c, error)
    /\ EndJob(c)
    /\ tmp' = Unlinked(c)
    /\ UNCHANGED <<seen, source, handle, read>>

-----------------------------------------------------------------------------
(* The others.  Only what they do during a call can matter to it.          *)

InFlight(S) == \E c \in S : pc[c] \notin {"idle", "done"}

PutObject ==
    /\ InFlight(RemoteCalls)
    /\ object < MaxVersion
    /\ object' = object + 1
    /\ UNCHANGED <<calls, pool, version, file, content, tmp, handle, read>>

Overwriting == file # Gone /\ content[file] = Partial

\* rename(2) of a finished file onto the path: who has the old one open keeps it.
ReplaceFile ==
    /\ InFlight(LocalCalls)
    /\ ~Overwriting
    /\ version < MaxVersion
    /\ version' = version + 1
    /\ file' = version'
    /\ content' = [content EXCEPT ![version'] = version']
    /\ UNCHANGED <<calls, pool, object, tmp, handle, read>>

RemoveFile ==
    /\ InFlight(LocalCalls)
    /\ ~Overwriting
    /\ file # Gone
    /\ file' = Gone
    /\ UNCHANGED <<calls, pool, object, version, content, tmp, handle, read>>

\* The file is truncated and written anew, under the calls that read it.
BeginOverwrite ==
    /\ InFlight(LocalCalls)
    /\ ~Overwriting
    /\ file # Gone
    /\ version < MaxVersion
    /\ content' = [content EXCEPT ![file] = Partial]
    /\ seen' = [c \in Callers |->
                  IF c \in LocalCalls /\ handle[c] = file /\ pc[c] # "done"
                    THEN Spoiled ELSE seen[c]]
    /\ UNCHANGED <<pc, answer, harmed, pool, object, version, file, tmp, handle, read>>

EndOverwrite ==
    /\ Overwriting
    /\ version' = version + 1
    /\ content' = [content EXCEPT ![file] = version']
    /\ UNCHANGED <<calls, pool, object, file, tmp, handle, read>>

-----------------------------------------------------------------------------
Download(c) ==
    \/ StoreTemp(c)
    \/ StoreTempFails(c)
    \/ WriteEnds(c)
    \/ WriteFails(c)

Open(c) == Validate(c) \/ NotParquet(c)

Scan(c) ==
    \/ ParquetThread(c)
    \/ OpenReader(c)
    \/ NextBatch(c)
    \/ EndOfFile(c)
    \/ JobFails(c)

ParquetStep(c) == (c \in RemoteCalls /\ (Download(c) \/ Open(c))) \/ Scan(c)

ParquetNext ==
    \/ \E c \in LocalCalls : Open(c)
    \/ \E c \in RemoteCalls : Get(c) \/ GetFails(c)
    \/ \E c \in ParquetCalls : ParquetStep(c)
    \/ PutObject \/ ReplaceFile \/ RemoveFile \/ BeginOverwrite \/ EndOverwrite
=============================================================================
