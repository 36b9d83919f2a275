------------------------------ MODULE Chunking ------------------------------
(***************************************************************************)
(* chunking.py: a Chunker splits a file into chunk files, hashes it and    *)
(* writes a .ccif file that tells how to put it together again, which      *)
(* Reconstruct does.  The file belongs to its user, who may edit it while  *)
(* a Chunker reads it, and reads it twice: for the chunks and for the hash.*)
(* All names carry the Chunker's uuid but that of the result, which is     *)
(* reconstructed/<file name> for every Chunker of the file.                *)
(*                                                                         *)
(* A hash stands for the content it was made of.  Left out are the hashes  *)
(* of the chunks, which are all the hash of nothing (the content is hashed *)
(* before it is written) and which Reconstruct does not look at.  Pieces   *)
(* are taken to be larger than the buffer that Python reads ahead into.    *)
(***************************************************************************)
EXTENDS Naturals, Sequences

CONSTANTS
    Chunkers,     \* the Chunkers that are run on the file
    Size,         \* Size[c]: the parameter of c, the chunks it is asked for
    Lengths,      \* the lengths that the file may have
    MaxEdits      \* bound: how often the file is edited

ASSUME ChunkingAssumption ==
    /\ Size \in [Chunkers -> Nat]
    /\ Lengths \subseteq Nat
    /\ "none" \notin Chunkers
    /\ MaxEdits \in Nat

VARIABLES
    file,         \* the content of the file
    edits,        \* how often it has been edited
    step,         \* step[c]: where generic_run of c stands
    piece,        \* piece[c]: _size, the bytes of a chunk
    at,           \* at[c]: the position of c in the file it has open
    chunks,       \* chunks[c]: the contents of its chunk files, by number
    original,     \* original[c]: what original_file_hash is the hash of
    ccif,         \* ccif[c]: its .ccif file
    current,      \* the Chunker whose chunk files are being put together
    todo,         \* the chunk files that construct_file has yet to copy
    result,       \* the content of reconstructed/<file name>
    verdict,      \* verdict[c]: how the last Reconstruct of c ended
    edited        \* history: Chunkers under whose hands the file was edited

chunkVars == <<step, piece, at, chunks, original, ccif>>
rebuildVars == <<current, todo, result, verdict>>
vars == <<file, edits, chunkVars, rebuildVars, edited>>

-----------------------------------------------------------------------------

\* A byte is told from others by the edit that wrote it and by its place.
Bytes == (0..MaxEdits) \X (Nat \ {0})

\* What the file may contain after edit number n.
Written(n) == {[i \in 1..len |-> <<n, i>>] : len \in Lengths}

TypeOK ==
    /\ file \in Written(edits)
    /\ edits \in 0..MaxEdits
    /\ step \in [Chunkers -> {"idle", "reading", "hashing", "hashed",
                              "writing", "done", "dead"}]
    /\ piece \in [Chunkers -> Nat]
    /\ at \in [Chunkers -> Nat]
    /\ chunks \in [Chunkers -> Seq(Seq(Bytes))]
    /\ original \in [Chunkers -> Seq(Bytes)]
    /\ ccif \in [Chunkers -> {"none", "empty", "full"}]
    /\ current \in Chunkers \cup {"none"}
    /\ todo \in Seq(Seq(Bytes))
    /\ result \in Seq(Bytes)
    /\ verdict \in [Chunkers -> {"none", "unreadable", "ensured", "broken"}]
    /\ edited \subseteq Chunkers

Init ==
    /\ edits = 0
    /\ file \in Written(0)
    /\ step = [c \in Chunkers |-> "idle"]
    /\ piece = [c \in Chunkers |-> 0]
    /\ at = [c \in Chunkers |-> 0]
    /\ chunks = [c \in Chunkers |-> <<>>]
    /\ original = [c \in Chunkers |-> <<>>]
    /\ ccif = [c \in Chunkers |-> "none"]
    /\ current = "none"
    /\ todo = <<>>
    /\ result = <<>>
    /\ verdict = [c \in Chunkers |-> "none"]
    /\ edited = {}

Goto(c, s) == step' = [step EXCEPT ![c] = s]

\* The user overwrites the file, in place.
Edit ==
    /\ edits < MaxEdits
    /\ edits' = edits + 1
    /\ file' \in Written(edits + 1)
    /\ edited' = edited \cup {c \in Chunkers :
                                 step[c] \in {"reading", "hashing"}}
    /\ UNCHANGED <<chunkVars, rebuildVars>>

-----------------------------------------------------------------------------
(* Chunker                                                                 *)

\* A mutant: the division is rounded up.
PieceRoundedUp(c) == (Len(file) + Size[c] - 1) \div Size[c]

\* os.stat(...).st_size // self.size
Piece(c) == Len(file) \div Size[c]

\* chunks looks at the size and opens the file, or divides by zero.
Stat(c) ==
    /\ step[c] = "idle"
    /\ IF Size[c] = 0
       THEN Goto(c, "dead") /\ UNCHANGED piece
       ELSE Goto(c, "reading") /\ piece' = [piece EXCEPT ![c] = Piece(c)]
    /\ UNCHANGED <<file, edits, at, chunks, original, ccif, rebuildVars,
                   edited>>

\* f.read(_size): read(0) returns nothing, as the end of the file does.
Read(c) ==
    LET to == IF at[c] + piece[c] <= Len(file) THEN at[c] + piece[c]
                                               ELSE Len(file)
    IN  SubSeq(file, at[c] + 1, to)

\* A turn of the loop of produce_chunks, or its end when nothing was read.
ProduceChunk(c) ==
    /\ step[c] = "reading"
    /\ IF Read(c) = <<>>
       THEN Goto(c, "hashing") /\ UNCHANGED <<at, chunks>>
       ELSE /\ at' = [at EXCEPT ![c] = @ + Len(Read(c))]
            /\ chunks' = [chunks EXCEPT ![c] = Append(@, Read(c))]
            /\ UNCHANGED step
    /\ UNCHANGED <<file, edits, piece, original, ccif, rebuildVars, edited>>

\* hasher opens the file again.
Hasher(c) ==
    /\ step[c] = "hashing"
    /\ Goto(c, "hashed")
    /\ original' = [original EXCEPT ![c] = file]
    /\ UNCHANGED <<file, edits, piece, at, chunks, ccif, rebuildVars, edited>>

\* write_ccif: the file is there when it is opened and full when it is closed.
WriteCcif(c) ==
    /\ \/ /\ step[c] = "hashed"
          /\ Goto(c, "writing")
          /\ ccif' = [ccif EXCEPT ![c] = "empty"]
       \/ /\ step[c] = "writing"
          /\ Goto(c, "done")
          /\ ccif' = [ccif EXCEPT ![c] = "full"]
    /\ UNCHANGED <<file, edits, piece, at, chunks, original, rebuildVars,
                   edited>>

\* The process of a Chunker dies; its files stay.
Crash(c) ==
    /\ step[c] \notin {"idle", "done", "dead"}
    /\ Goto(c, "dead")
    /\ UNCHANGED <<file, edits, piece, at, chunks, original, ccif,
                   rebuildVars, edited>>

-----------------------------------------------------------------------------
(* Reconstruct, for one .ccif file after the other                         *)

\* Those whose names contain the uuid, in the order of their numbers.
ChunkFiles(c) == chunks[c]

\* A mutant: the result is opened for appending.
Opened == result

\* What is in the result once construct_file has opened it ("wb+").
Truncated == <<>>

\* scan_for_ccif_files finds the file and parse_ccif_file reads it.  An empty
\* one yields an empty name: open raises, as reconstructed/ is a directory.
Begin(c) ==
    /\ current = "none"
    /\ \/ /\ ccif[c] = "full"
          /\ current' = c
          /\ todo' = ChunkFiles(c)
          /\ result' = Truncated
          /\ UNCHANGED verdict
       \/ /\ ccif[c] = "empty"
          /\ verdict' = [verdict EXCEPT ![c] = "unreadable"]
          /\ UNCHANGED <<current, todo, result>>
    /\ UNCHANGED <<file, edits, chunkVars, edited>>

\* A mutant: what is written is the list of chunks.
WriteNested(chunk) == Append(result, chunk)

Write(chunk) == result \o chunk

\* A turn of the loop of construct_file.
ConstructFile ==
    /\ current # "none"
    /\ todo # <<>>
    /\ result' = Write(Head(todo))
    /\ todo' = Tail(todo)
    /\ UNCHANGED <<file, edits, chunkVars, current, verdict, edited>>

\* ensure_integrity
EnsureIntegrity ==
    /\ current # "none"
    /\ todo = <<>>
    /\ verdict' = [verdict EXCEPT ![current] =
                      IF result = original[current] THEN "ensured"
                                                    ELSE "broken"]
    /\ current' = "none"
    /\ UNCHANGED <<file, edits, chunkVars, todo, result, edited>>

\* The process that puts files together dies, and leaves a part of the result.
BreakOff ==
    /\ current # "none"
    /\ current' = "none"
    /\ todo' = <<>>
    /\ UNCHANGED <<file, edits, chunkVars, result, verdict, edited>>

-----------------------------------------------------------------------------

GenericRun(c) == Stat(c) \/ ProduceChunk(c) \/ Hasher(c) \/ WriteCcif(c)

Next ==
    \/ Edit
    \/ \E c \in Chunkers : GenericRun(c) \/ Crash(c) \/ Begin(c)
    \/ ConstructFile
    \/ EnsureIntegrity
    \/ BreakOff

Spec == Init /\ [][Next]_vars

-----------------------------------------------------------------------------
(* Properties that hold.                                                   *)

\* A Chunker that has read an unchanged file has made at least as many chunks
\* as it was asked for, and less than twice as many: the rest of the division
\* is spread over further chunks.  A file shorter than that, for which the
\* chunks would have to be empty, is not split at all.
ChunkCount ==
    \A c \in Chunkers :
        step[c] \in {"hashed", "writing", "done"} /\ c \notin edited =>
            LET n == Len(chunks[c]) IN
            IF Len(original[c]) < Size[c]
            THEN n = 0
            ELSE Size[c] <= n /\ n < 2 * Size[c]

\* Whatever Chunkers and attempts at the same result a crash has left halfway,
\* a Reconstruct that comes to its end has restored what was hashed, but in two
\* cases: the file was edited while the Chunker read it, or is shorter than
\* the number of chunks and not empty, and then has been lost for certain.
VerdictExplained ==
    \A c \in Chunkers :
        LET TooShort == Len(original[c]) \in 1..Size[c] - 1 IN
        /\ verdict[c] = "broken" => c \in edited \/ TooShort
        /\ verdict[c] = "ensured" => c \in edited \/ ~TooShort
=============================================================================
