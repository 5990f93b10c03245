------------------------------ MODULE JpegBatches ------------------------------
(***************************************************************************)
(* The host programs of hg_jpeg.cpp and hg_jpeg_encoder.cpp over the files *)
(* of a directory.  The decoder takes them batch by batch, with buffers of *)
(* the size of a batch's first image; the encoder takes them one by one    *)
(* and encodes each at every quality.  Pixels, statistics and sizes of     *)
(* bitstreams are left out; a file is [suffix, readable, size], and is     *)
(* known by its place in the directory.                                    *)
(*                                                                         *)
(* External: the library refuses an image without data, and may refuse a   *)
(* batch with empty entries; it does not know how large a buffer is.       *)
(*                                                                         *)
(* main is [program, dir, batch, files, next, pc, exit, count]: its files  *)
(* are those listed, of which the ones before next are dealt with; thread  *)
(* and stream are not used; res is [library, loaded, buffers, decoded,     *)
(* encoded, overrun]: the objects that exist, the files of the batch, the  *)
(* sizes of its buffers, and what was done with which file (history).      *)
(***************************************************************************)
EXTENDS HostRuntime, FiniteSets

CONSTANTS Directories, BatchSizes

Suffix == {"jpg", "JPG", "jpeg", "other"}
File   == [suffix : Suffix, readable : BOOLEAN, size : Nat \ {0}]

BatchesAssumption == Directories \subseteq Seq(File) /\ BatchSizes \subseteq Nat \ {0}

QUALITY_LEVELS == << 30, 50, 70, 90 >>

Init ==
  /\ \E program \in {"decoder", "encoder"}, dir \in Directories, batch \in BatchSizes :
       main = [program |-> program, dir |-> dir, files |-> {}, next |-> 1, pc |-> "list",
               batch |-> IF program = "decoder" THEN batch ELSE 1, exit |-> "none", count |-> 0]
  /\ thread = << >> /\ stream = << >>
  /\ res = [library |-> {}, loaded |-> {}, buffers |-> << >>, decoded |-> {},
            encoded |-> {}, overrun |-> FALSE]

At(program, label) ==
  /\ Running /\ main.program = program /\ main.pc = label
  /\ UNCHANGED << thread, stream >>

Goto(label) == main' = [main EXCEPT !.pc = label]
Exit(status) == main' = [main EXCEPT !.exit = status]

First(S) == CHOOSE i \in S : \A j \in S : i <= j
Last(S)  == CHOOSE i \in S : \A j \in S : j <= i

-------------------------------------------------------------------------------
(* What both do.                                                           *)

\* The encoder leaves out the files called ".jpeg".
Suffixes(program) == {"jpg", "JPG"} \cup (IF program = "decoder" THEN {"jpeg"} ELSE {})

list_jpeg_files(program, dir) ==
  { i \in 1..Len(dir) : dir[i].suffix \in Suffixes(program) }

ListFiles(program) ==
  /\ At(program, "list")
  /\ LET files == list_jpeg_files(program, main.dir) IN
       IF files = {} THEN Exit("failure")
       ELSE main' = [main EXCEPT !.files = files, !.pc = "init"]
  /\ UNCHANGED res

Objects(program) ==
  {"handle", "state"} \cup (IF program = "encoder" THEN {"enc_state", "enc_params"} ELSE {})

CreateObjects(program) ==
  /\ At(program, "init")
  /\ res' = [res EXCEPT !.library = Objects(program)]
  /\ Goto("load")

Rest == { i \in main.files : i >= main.next }

\* A loop over whole batches only, as a mutation.
CleanupBeforeRemainder(program) ==
  /\ At(program, "load") /\ Cardinality(Rest) < main.batch
  /\ res' = [res EXCEPT !.library = {}]
  /\ Exit(IF main.count > 0 THEN "success" ELSE "failure")

\* main returns, and the destructor destroys the library's objects.
Cleanup(program) ==
  /\ At(program, "load") /\ Rest = {}
  /\ res' = [res EXCEPT !.library = {}]
  /\ Exit(IF main.count > 0 THEN "success" ELSE "failure")

Readable(i) == main.dir[i].readable
Size(i)     == main.dir[i].size

\* Image i is written to a buffer.
Overruns(i, buffer) == Size(i) > buffer

-------------------------------------------------------------------------------
(* hg_jpeg.cpp                                                             *)

\* The next files that can be read; those that cannot are passed over, after
\* the last one of a full batch by the next batch.
LoadBatch ==
  /\ At("decoder", "load") /\ Rest # {}
  /\ LET readable == { i \in Rest : Readable(i) }
         taken    == { i \in readable : Cardinality({ j \in readable : j < i }) < main.batch }
     IN  /\ res' = [res EXCEPT !.loaded = taken]
         /\ main' = [main EXCEPT !.pc = "query",
                       !.next = IF Cardinality(taken) = main.batch THEN Last(taken) + 1
                                                                   ELSE Len(main.dir) + 1]

\* The first image has the size of all; none is an error.
QueryFirst ==
  /\ At("decoder", "query")
  /\ IF res.loaded = {} THEN Exit("error") /\ UNCHANGED res
     ELSE /\ Goto("decode")
          /\ res' = [res EXCEPT !.buffers = [b \in 1..main.batch |-> Size(First(res.loaded))]]

\* The place of image i in the batch.
Entry(i) == Cardinality({ j \in res.loaded : j < i }) + 1

DecodeBatch ==
  /\ At("decoder", "decode")
  /\ res' = [res EXCEPT
       !.decoded = @ \cup res.loaded,
       !.overrun = @ \/ \E i \in res.loaded : Overruns(i, res.buffers[Entry(i)])]
  /\ Goto("count")

\* The statistics, also of the entries past the last file; the buffers are freed.
CountAndFree ==
  /\ At("decoder", "count")
  /\ res' = [res EXCEPT !.buffers = << >>, !.loaded = {}]
  /\ main' = [main EXCEPT !.pc = "load", !.count = @ + main.batch]

-------------------------------------------------------------------------------
(* hg_jpeg_encoder.cpp                                                     *)

Here == First(Rest)

LoadFile ==
  /\ At("encoder", "load") /\ Rest # {}
  /\ IF Readable(Here) THEN Goto("decode") ELSE main' = [main EXCEPT !.next = Here + 1]
  /\ UNCHANGED res

\* A buffer of the image's own size, and the image in it.
Decode ==
  /\ At("encoder", "decode")
  /\ res' = [res EXCEPT !.buffers = << Size(Here) >>, !.decoded = @ \cup {Here}]
  /\ Goto("encode")

\* Encoded at every quality; the file with the last one is written if it can be.
EncodeAll ==
  /\ At("encoder", "encode")
  /\ res' = [res EXCEPT !.encoded =
               @ \cup { << Here, QUALITY_LEVELS[q] >> : q \in 1..Len(QUALITY_LEVELS) }]
  /\ Goto("free")

FreeImage ==
  /\ At("encoder", "free")
  /\ res' = [res EXCEPT !.buffers = << >>]
  /\ main' = [main EXCEPT !.pc = "load", !.next = Here + 1, !.count = @ + 1]

-------------------------------------------------------------------------------
\* A call in checkHggcErrors fails.
ApiFails ==
  /\ Running /\ main.pc # "list"
  /\ Exit("error")
  /\ UNCHANGED << thread, stream, res >>

Progress ==
  \/ \E program \in {"decoder", "encoder"} :
       ListFiles(program) \/ CreateObjects(program) \/ Cleanup(program)
  \/ LoadBatch \/ QueryFirst \/ DecodeBatch \/ CountAndFree
  \/ LoadFile \/ Decode \/ EncodeAll \/ FreeImage

Next == Progress \/ ApiFails

Spec == Init /\ [][Next]_machine /\ WF_machine(Progress)
-------------------------------------------------------------------------------
TypeOK ==
  /\ main \in [program : {"decoder", "encoder"}, dir : Directories, batch : BatchSizes \cup {1},
               files : SUBSET (1..Len(main.dir)), next : 1..Len(main.dir) + 1,
               pc : {"list", "init", "load", "query", "decode", "count", "encode", "free"},
               exit : {"none", "success", "failure", "error"}, count : Nat]
  /\ thread = << >> /\ stream = << >>
  /\ res \in [library : SUBSET Objects(main.program), loaded : SUBSET main.files,
              buffers : Seq(Nat), decoded : SUBSET main.files,
              encoded : SUBSET (main.files \X { QUALITY_LEVELS[q] : q \in 1..4 }),
              overrun : BOOLEAN]
  /\ Cardinality(res.loaded) <= main.batch

Due == { i \in 1..Len(main.dir) : main.dir[i].suffix \in Suffixes(main.program) /\ Readable(i) }

\* A sample that reports PASS has worked on every file it lists and can read,
\* however batches and unreadable files fall.
EveryImageDone ==
  main.exit = "success" =>
    /\ Due # {} /\ res.decoded = Due
    /\ main.program = "encoder" =>
         /\ main.count = Cardinality(Due)
         /\ res.encoded = Due \X { QUALITY_LEVELS[q] : q \in 1..Len(QUALITY_LEVELS) }

\* An image is decoded past its buffer only in a batch with images of two sizes.
ImagesFit ==
  res.overrun => \E i, j \in res.decoded : Size(i) # Size(j) /\ main.batch > 1

\* A sample that returns from main has freed its buffers and the library's objects.
NothingLeaks ==
  main.exit \in {"success", "failure"} => res.library = {} /\ res.buffers = << >>
===============================================================================
