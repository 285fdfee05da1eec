---------------------------- MODULE FetchArtifacts ----------------------------
(***************************************************************************)
(* scripts/fetch_e5_artifacts.py: every pinned file is downloaded to a     *)
(* .part file, hashed, and moved over the output.  Responses may be cut    *)
(* short, corrupted or reset, a process may be killed at any point and the *)
(* script started again, by one user or by several at once.                *)
(*                                                                         *)
(* A directory entry names an inode, an inode holds a sequence of blocks,  *)
(* and the hash of a file is compared by comparing its blocks.  Hashing a  *)
(* file is one step.                                                       *)
(***************************************************************************)
EXTENDS Naturals, Sequences, FiniteSets

CONSTANTS
  Fetchers,   \* the processes that run the script
  NumFiles,   \* the files of the manifest
  MaxCrashes  \* bound on kills

ASSUME NumFilesAssumption   == NumFiles \in Nat \ {0}
ASSUME MaxCrashesAssumption == MaxCrashes \in Nat

VARIABLES
  output,    \* file -> its inode, or NoInode
  partial,   \* file -> the inode of its .part, or NoInode
  blocks,    \* inode -> its content
  pc,        \* process -> where it is
  file,      \* process -> the file it is at
  response,  \* process -> what is left of the response
  stream,    \* process -> the inode it writes
  offset,    \* process -> how many blocks it has written
  crashes

disk == <<output, partial, blocks>>
fetchVars == <<output, partial, blocks, pc, file, response, stream, offset, crashes>>

Files   == 1..NumFiles
NoInode == 0

\* Enough inodes for every entry and every open stream.
Inodes == 1..2 * NumFiles + Cardinality(Fetchers)

Expected == <<"first", "second">>

\* What urlopen and read may give: the file, a truncated or a corrupted one,
\* or a connection that is reset before the second block.
Responses == {Expected, <<"first">>, <<"first", "corrupt">>,
              <<"first", "reset">>}

InUse == {output[f] : f \in Files} \cup {partial[f] : f \in Files}
         \cup {stream[p] : p \in Fetchers}

Hashes(inode) == inode # NoInode /\ blocks[inode] = Expected

Goto(p, label) == pc' = [pc EXCEPT ![p] = label]
Part(p)        == partial[file[p]]

\* download returns; main goes to the next file.
NextFile(p) ==
  IF file[p] < NumFiles
    THEN Goto(p, "check") /\ file' = [file EXCEPT ![p] = @ + 1]
    ELSE Goto(p, "done") /\ UNCHANGED file

-----------------------------------------------------------------------------
StartRun(p) ==
  /\ pc[p] \in {"idle", "failed"}
  /\ Goto(p, "check")
  /\ file' = [file EXCEPT ![p] = 1]
  /\ UNCHANGED <<disk, response, stream, offset, crashes>>

\* Mistake: an output that exists is taken for the pinned file.
CheckOutputExists(p) ==
  /\ pc[p] = "check"
  /\ IF output[file[p]] # NoInode
       THEN NextFile(p)
       ELSE Goto(p, "exists") /\ UNCHANGED file
  /\ UNCHANGED <<disk, response, stream, offset, crashes>>

CheckOutput(p) ==
  /\ pc[p] = "check"
  /\ IF Hashes(output[file[p]])
       THEN NextFile(p)
       ELSE Goto(p, "exists") /\ UNCHANGED file
  /\ UNCHANGED <<disk, response, stream, offset, crashes>>

\* Mistake: a stale .part stops the script.
StaleStops(p) ==
  /\ pc[p] = "exists"
  /\ Goto(p, IF Part(p) # NoInode THEN "failed" ELSE "request")
  /\ UNCHANGED <<disk, file, response, stream, offset, crashes>>

StaleExists(p) ==
  /\ pc[p] = "exists"
  /\ Goto(p, IF Part(p) # NoInode THEN "unlink" ELSE "request")
  /\ UNCHANGED <<disk, file, response, stream, offset, crashes>>

\* unlink raises if another process has removed the file meanwhile.
UnlinkStale(p) ==
  /\ pc[p] = "unlink"
  /\ Goto(p, IF Part(p) # NoInode THEN "request" ELSE "failed")
  /\ partial' = [partial EXCEPT ![file[p]] = NoInode]
  /\ UNCHANGED <<output, blocks, file, response, stream, offset, crashes>>

Request(p, answer) ==
  /\ pc[p] = "request"
  /\ response' = [response EXCEPT ![p] = answer]
  /\ Goto(p, "open")
  /\ UNCHANGED <<disk, file, stream, offset, crashes>>

Unreachable(p) ==
  /\ pc[p] = "request"
  /\ Goto(p, "failed")
  /\ UNCHANGED <<disk, file, response, stream, offset, crashes>>

\* open("wb") truncates the .part that exists, or creates one.
Open(p) ==
  /\ pc[p] = "open"
  /\ LET free  == CHOOSE i \in Inodes \ InUse : TRUE
         inode == IF Part(p) # NoInode THEN Part(p) ELSE free
     IN /\ partial' = [partial EXCEPT ![file[p]] = inode]
        /\ blocks' = [blocks EXCEPT ![inode] = <<>>]
        /\ stream' = [stream EXCEPT ![p] = inode]
  /\ offset' = [offset EXCEPT ![p] = 0]
  /\ Goto(p, "write")
  /\ UNCHANGED <<output, file, response, crashes>>

\* A write at an offset past the end leaves a hole.
WriteAt(content, at, block) ==
  [i \in 1..(IF at < Len(content) THEN Len(content) ELSE at + 1) |->
     IF i = at + 1 THEN block
     ELSE IF i <= Len(content) THEN content[i] ELSE "hole"]

Write(p) ==
  /\ pc[p] = "write"
  /\ response[p] # <<>>
  /\ IF Head(response[p]) = "reset"
       THEN /\ Goto(p, "failed")
            /\ stream' = [stream EXCEPT ![p] = NoInode]
            /\ UNCHANGED <<blocks, response, offset>>
       ELSE /\ blocks' = [blocks EXCEPT ![stream[p]] =
                            WriteAt(@, offset[p], Head(response[p]))]
            /\ offset' = [offset EXCEPT ![p] = @ + 1]
            /\ response' = [response EXCEPT ![p] = Tail(@)]
            /\ UNCHANGED <<pc, stream>>
  /\ UNCHANGED <<output, partial, file, crashes>>

Close(p) ==
  /\ pc[p] = "write"
  /\ response[p] = <<>>
  /\ stream' = [stream EXCEPT ![p] = NoInode]
  /\ Goto(p, "hash")
  /\ UNCHANGED <<disk, file, response, offset, crashes>>

\* Mistake: the download is not hashed.
TrustPartial(p) ==
  /\ pc[p] = "hash"
  /\ Goto(p, IF Part(p) = NoInode THEN "failed" ELSE "replace")
  /\ UNCHANGED <<disk, file, response, stream, offset, crashes>>

\* sha256_file opens the name again: it raises if the .part is gone.
HashPartial(p) ==
  /\ pc[p] = "hash"
  /\ Goto(p, IF Part(p) = NoInode THEN "failed"
             ELSE IF Hashes(Part(p)) THEN "replace" ELSE "mismatch")
  /\ UNCHANGED <<disk, file, response, stream, offset, crashes>>

DropPartial(p) ==
  /\ pc[p] = "mismatch"
  /\ partial' = [partial EXCEPT ![file[p]] = NoInode]
  /\ Goto(p, "failed")
  /\ UNCHANGED <<output, blocks, file, response, stream, offset, crashes>>

\* os.replace, then "verified".
Replace(p) ==
  /\ pc[p] = "replace"
  /\ IF Part(p) = NoInode
       THEN Goto(p, "failed") /\ UNCHANGED <<output, partial, file>>
       ELSE /\ output' = [output EXCEPT ![file[p]] = Part(p)]
            /\ partial' = [partial EXCEPT ![file[p]] = NoInode]
            /\ NextFile(p)
  /\ UNCHANGED <<blocks, response, stream, offset, crashes>>

Crash(p) ==
  /\ pc[p] \notin {"idle", "done", "failed"}
  /\ crashes < MaxCrashes
  /\ crashes' = crashes + 1
  /\ Goto(p, "idle")
  /\ stream' = [stream EXCEPT ![p] = NoInode]
  /\ UNCHANGED <<disk, file, response, offset>>

Step(p) == \/ StartRun(p) \/ CheckOutput(p) \/ StaleExists(p) \/ UnlinkStale(p)
           \/ \E answer \in Responses : Request(p, answer)
           \/ Unreachable(p)
           \/ Open(p) \/ Write(p) \/ Close(p) \/ HashPartial(p)
           \/ DropPartial(p) \/ Replace(p)

-----------------------------------------------------------------------------
\* The directory may hold anything earlier runs left in it.
FetchInit ==
  /\ \E outs, parts \in SUBSET Files :
       /\ output = [f \in Files |-> IF f \in outs THEN f ELSE NoInode]
       /\ partial = [f \in Files |-> IF f \in parts THEN NumFiles + f
                                                    ELSE NoInode]
  /\ blocks \in [Inodes -> {<<"first">>, <<"corrupt">>}]
  /\ \A i \in Inodes : i > 2 * NumFiles => blocks[i] = <<"first">>
  /\ pc = [p \in Fetchers |-> "idle"]
  /\ file = [p \in Fetchers |-> 1]
  /\ response = [p \in Fetchers |-> <<>>]
  /\ stream = [p \in Fetchers |-> NoInode]
  /\ offset = [p \in Fetchers |-> 0]
  /\ crashes = 0

FetchNext == \E p \in Fetchers : Step(p) \/ Crash(p)

\* A started process goes on, a failed one is started again, and the server
\* answers with the file now and then.
Fairness == \A p \in Fetchers : /\ WF_fetchVars(Step(p))
                                /\ SF_fetchVars(Request(p, Expected))

FetchSpec == FetchInit /\ [][FetchNext]_fetchVars /\ Fairness

-----------------------------------------------------------------------------
\* The files a process has got past in this run of the script.
Passed(p) == IF pc[p] = "done" THEN Files
             ELSE IF pc[p] \in {"idle", "failed"} THEN {}
             ELSE 1..file[p] - 1

\* A file reported as verified is the pinned one, whatever earlier runs,
\* kills and bad responses left behind.
VerifiedIsExpected ==
  \A p \in Fetchers : \A f \in Passed(p) : Hashes(output[f])

\* An output that is the pinned file stays it, and nothing but the pinned
\* file is ever put in the place of one.
OutputsOnlyImprove ==
  [][\A f \in Files : /\ Hashes(output[f]) => Hashes(output[f])'
                      /\ output'[f] # output[f] => Hashes(output[f])']_fetchVars

\* The script never wedges itself: started again after every failure, it
\* gets every file, whatever .part an earlier run left.
Fetched == <>(\A f \in Files : Hashes(output[f]))

=============================================================================
