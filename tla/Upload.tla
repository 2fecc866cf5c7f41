------------------------------- MODULE Upload -------------------------------
(***************************************************************************)
(* The file server: HttpsSession reads an upload in pieces, looks for the  *)
(* boundary that ends the file, and appends each piece to the file of that *)
(* name.  A download is answered with the file as it is.                   *)
(*                                                                         *)
(* All sessions run on one thread, one read after another in any order,    *)
(* and share the directory.  Only lengths matter: a body is                *)
(*     the head of the part | the content | "\r\n--" | boundary | "--\r\n" *)
(* and a piece is the range [from, to) of it that was written.  Nothing    *)
(* catches what a handler throws, so it ends the process.                  *)
(***************************************************************************)
EXTENDS Integers, SequencesExt

CONSTANTS
    Sessions,   \* one per upload
    Names,      \* of files
    Sizes,      \* lengths of the contents
    Buf,        \* bytes a read can take: the size of data_
    Keep,       \* where previousRead begins in a read
    Boundary,   \* length of the boundary
    PartHead    \* length of what precedes the content

(* The head of the part is in the first read, and what closes the body is  *)
(* not longer than a read.                                                 *)
ASSUME UploadAssumption ==
    /\ Sizes \subseteq Nat
    /\ {Buf, Keep, Boundary, PartHead} \subseteq Nat \ {0}
    /\ Keep < Buf
    /\ PartHead < Buf
    /\ Boundary + 4 <= Buf

VARIABLES
    name,   \* savedFileName
    size,   \* length of the content
    mode,   \* the branch of do_read the next read takes
    at,     \* bytes of the body that were read
    prev,   \* previousRead is the range [prev, at)
    file,   \* pieces in the file of each name
    up,     \* the process runs
    early   \* history: a download ended it

vars == <<name, size, mode, at, prev, file, up, early>>

Modes == {"header", "first", "rest", "answered", "gone"}

Init ==
    /\ name \in [Sessions -> Names]
    /\ size \in [Sessions -> Sizes]
    /\ mode = [s \in Sessions |-> "header"]
    /\ at = [s \in Sessions |-> 0]
    /\ prev = [s \in Sessions |-> 0]
    /\ file = [n \in Names |-> <<>>]
    /\ up = TRUE
    /\ early = FALSE

(* Where the closing boundary begins, and where the body ends.             *)
Cut(s) == PartHead + size[s] + 4
Body(s) == Cut(s) + Boundary + 4

(* The boundary can be found in the range [from, to).                      *)
Found(s, from, to) == from <= Cut(s) /\ Cut(s) + Boundary <= to

(* Faulty: data_ is taken to be full.                                      *)
ReadToFull(s) == at[s] + Buf

(* The position after a read: a TLS record is a multiple of Buf, so only   *)
(* the last read is short.                                                 *)
ReadTo(s) == IF Body(s) - at[s] < Buf THEN Body(s) ELSE at[s] + Buf

(* Faulty: the "\r\n--" is taken off and the newline before it, too.       *)
ContentEndShort(s) == Cut(s) - 5

(* contentPosEnd -= 3.                                                     *)
ContentEnd(s) == Cut(s) - 3

(* Faulty: an upload does not empty the file it finds.                     *)
SaveAppending(s, from, to) ==
    file' = [file EXCEPT ![name[s]] =
        Append(@, [session |-> s, from |-> from, to |-> to])]

(* save_file: the first write of a session empties the file.               *)
Save(s, from, to) ==
    file' = [file EXCEPT ![name[s]] =
        Append(IF mode[s] = "first" THEN <<>> ELSE @,
               [session |-> s, from |-> from, to |-> to])]

-----------------------------------------------------------------------------
Reads(s, branch) ==
    /\ up
    /\ mode[s] = branch
    /\ UNCHANGED <<name, size, early>>

(* The request line and its headers come in a read of their own.           *)
Header(s) ==
    /\ Reads(s, "header")
    /\ mode' = [mode EXCEPT ![s] = "first"]
    /\ UNCHANGED <<at, prev, file, up>>

(* The piece is the last one: saved and answered, and the socket is shut.  *)
Finish(s, from, to) ==
    /\ Save(s, from, to)
    /\ at' = [at EXCEPT ![s] = ReadTo(s)]
    /\ mode' = [mode EXCEPT ![s] = "answered"]
    /\ UNCHANGED <<prev, up>>

(* substr(1000) of the read is kept and the piece is saved; substr throws  *)
(* before that when the read is shorter.                                   *)
GoOn(s, from) ==
    IF ReadTo(s) < at[s] + Keep
    THEN up' = FALSE /\ UNCHANGED <<mode, at, prev, file>>
    ELSE /\ Save(s, from, ReadTo(s))
         /\ at' = [at EXCEPT ![s] = ReadTo(s)]
         /\ prev' = [prev EXCEPT ![s] = at[s] + Keep]
         /\ mode' = [mode EXCEPT ![s] = "rest"]
         /\ UNCHANGED up

First(s) ==
    /\ Reads(s, "first")
    /\ at[s] < Body(s)
    /\ IF Found(s, 0, ReadTo(s))
       THEN Finish(s, PartHead, ContentEnd(s))
       ELSE GoOn(s, PartHead)

(* Faulty: the boundary is looked for in one read only.                    *)
RestAlone(s) ==
    /\ Reads(s, "rest")
    /\ at[s] < Body(s)
    /\ IF Found(s, at[s], ReadTo(s))
       THEN Finish(s, at[s], IF ContentEnd(s) < at[s] THEN ReadTo(s) ELSE ContentEnd(s))
       ELSE GoOn(s, at[s])

(* Faulty: a boundary in two reads does not set finishedReading.           *)
RestWaiting(s) ==
    /\ Reads(s, "rest")
    /\ at[s] < Body(s)
    /\ IF Found(s, at[s], ReadTo(s))
       THEN Finish(s, at[s], IF ContentEnd(s) < at[s] THEN ReadTo(s) ELSE ContentEnd(s))
       ELSE IF Found(s, prev[s], ReadTo(s))
            THEN /\ at' = [at EXCEPT ![s] = ReadTo(s)]
                 /\ UNCHANGED <<mode, prev, file, up>>
            ELSE GoOn(s, at[s])

(* A boundary at the very start makes contentPosEnd negative, and substr   *)
(* takes the whole read.  One that began in the last read leaves nothing.  *)
Rest(s) ==
    /\ Reads(s, "rest")
    /\ at[s] < Body(s)
    /\ IF Found(s, at[s], ReadTo(s))
       THEN Finish(s, at[s], IF ContentEnd(s) < at[s] THEN ReadTo(s) ELSE ContentEnd(s))
       ELSE IF Found(s, prev[s], ReadTo(s)) THEN Finish(s, at[s], at[s])
       ELSE GoOn(s, at[s])

(* A read fails: the handler does nothing, and the session is gone.        *)
Break(s) ==
    /\ \E branch \in {"header", "first", "rest"} : Reads(s, branch)
    /\ mode' = [mode EXCEPT ![s] = "gone"]
    /\ UNCHANGED <<at, prev, file, up>>

(* The directory of the files is created by the first save.                *)
Directory == \E n \in Names : file[n] # <<>>

(* A download of a file that is not there is not answered, and one of a    *)
(* file that is there changes nothing.  Without the directory the path is  *)
(* made canonical twice, and the second time nothing catches the exception.*)
Download ==
    /\ up
    /\ ~Directory
    /\ up' = FALSE
    /\ early' = TRUE
    /\ UNCHANGED <<name, size, mode, at, prev, file>>

Read(s) == Header(s) \/ First(s) \/ Rest(s)

Next == Download \/ \E s \in Sessions : Read(s) \/ Break(s)

Spec == Init /\ [][Next]_vars

(* A read that can be completed is.                                        *)
FairSpec == Spec /\ \A s \in Sessions : WF_vars(Read(s))

-----------------------------------------------------------------------------
Piece == [session : Sessions, from : Nat, to : Nat]

TypeOK ==
    /\ mode \in [Sessions -> Modes]
    /\ up \in BOOLEAN /\ early \in BOOLEAN
    /\ \A s \in Sessions : prev[s] <= at[s] /\ at[s] <= Body(s)
    /\ \A n \in Names : file[n] \in Seq(Piece)

(* The places of an upload's pieces in its file.                           *)
PiecesOf(s) == {i \in DOMAIN file[name[s]] : file[name[s]][i].session = s}

(* However uploads of one name interleave and cut each other off, a file   *)
(* begins with the beginning of the upload that began last, no other       *)
(* upload's beginning is in it, and what it holds of each is one range, in *)
(* order, with nothing twice; a download in the middle gets such a file.   *)
PiecesInOrder ==
    /\ \A n \in Names : \A i \in DOMAIN file[n] :
            file[n][i].from = PartHead <=> i = 1
    /\ \A s \in Sessions : \A i, j \in PiecesOf(s) :
            i < j /\ (\A k \in PiecesOf(s) : k <= i \/ j <= k)
                => file[name[s]][j].from = file[name[s]][i].to

(* An upload that was answered and cut off by no later one is in the file  *)
(* from its first byte to its last: reads that split the boundary, or put  *)
(* it at the start of a read, lose nothing.                                *)
AnsweredWhole ==
    \A s \in Sessions :
        mode[s] = "answered" /\ Head(file[name[s]]).session = s =>
            /\ file[name[s]][1].from = PartHead
            /\ \E i \in PiecesOf(s) :
                /\ \A j \in PiecesOf(s) : j <= i
                /\ file[name[s]][i].to >= PartHead + size[s]

(* The server goes down only for a download before anything was uploaded,  *)
(* or for an upload whose boundary is split by two reads, with more of it  *)
(* in the first than previousRead keeps.                                   *)
DiesOnlyIfSplit ==
    up \/ early \/ \E s \in Sessions :
              /\ mode[s] = "rest"
              /\ Cut(s) < at[s] - (Buf - Keep)
              /\ at[s] < Cut(s) + Boundary

(* No upload waits for more than was sent.                                 *)
UploadEnds ==
    \A s \in Sessions :
        mode[s] = "header" ~> mode[s] \in {"answered", "gone"} \/ ~up
=============================================================================
