# imDedup in TLA+

imDedup removes the redundancy between JPEG images: it decodes images to their
quantized DCT coefficients, finds similar images by super features, stores an image
as a delta of a similar one, and restores the folder from raw copies and deltas.  It
is a C program of about 5.9 thousand lines of its own (`main.c`, `idedup.c/.h`,
`jpeg.c`, `2df.c`, `buffer.c`, `index.c`, `idelta.c`, `rejpeg.c`, the rolling hashes)
around vendored libraries, written as pipelines of threads joined by lists with hand-made
monitors.  It has no tests; what documents it are its comments, the option texts
in `main.c` and the scripts in `build/`.

This directory holds TLA+ models of it, the configurations that check them with TLC,
and TLAPS proofs about the lists and the batch as a whole, similarity detection with
its buffer, the rolling digest and the super features, the cutting of folders into
batches, the delta of an image and its reading back, the coder of its inserted blocks, the
container file, and the restorer.

## 1. The system

### Compressing

    dir_thread -> dirList -> name_thread -> nameList ->          (idedup.c)
      one batch of a road:
      read_thread -> rawList -> decode_thread -> decodeList ->   (idedup.c, jpeg.c)
      detect_thread[i] -> detectList[i] ->                       (2df.c, buffer.c)
      index_thread[i]  -> indexList[i] ->                        (index.c)
      dedup_thread[i]  -> dedupList[i] ->                        (idelta.c)
      rejpeg_thread[i] -> rejpegList -> write_thread             (rejpeg.c, idedup.c)

With `--delta=xdelta` no `index_thread` runs, and `tra_dedup_thread`,
`tra_rejpeg_thread` and `tra_write_thread` take the places of the last three.

`idedup_compress` starts `dir_thread`, a `name_thread` (one per road, or one for all
"in chaos") and the roads.  A road (`compress_road_thread`) waits for a name, starts the
threads of a batch, joins them and begins again.  The configuration that `build/run.sh`
uses is 1 reader, 4 decoders, 3 detectors, 1 writer, 1 road, variable chunking.

### Restoring

    de_read_thread -> readList -> de_decode_thread -> decdList      joined, then
    de_dedup_thread -> dedupList -> de_encode_and_write_thread

### Components

| Component | State | Operations | Hard behaviour | Correct when |
|---|---|---|---|---|
| List monitor (`idedup.h:126-156`, used at every list) | head, tail, counter, `size` (bytes left), `ending`, `rCond`, `wCond` | append, pop, wait, end | one signal per operation though nodes differ in size and several threads wait; the last producer must be told from the first | every node is handed over exactly once, nobody sleeps on what is there, the bytes balance, every thread can be joined |
| Batch (`compress_road_thread` and the threads it starts) | the seven kinds of lists, who has ended, the writers' caches | start, pass on, end, join | each stage counts and signals its own end; one stage ends with the wrong mutex; a full list blocks everything before it | stages end in order, every image is stored once, the joins return |
| Folder walk and batches (`idedup.c:37-299, 690-1020`) | `dirList`, `nameList`, end-of-folder marks, the road's batch | list folders and names, begin, fill and end a batch | roads, their readers and several name lists meet on the same conditions | a file is in one batch, variable chunking keeps folders whole, the run ends |
| Similarity detection (`2df.c`) | SF_NUM tables, `bestMatch` | compute features, look up, insert, choose, pin, reload | tables are locked one at a time; a chosen base may be evicted meanwhile | a base's pixels are there while they are used, the most similar image is chosen, what is stored can be restored |
| Rolling hashes (`rabin/`, `gear.h`, walks in `2df.c`) | digest, window, greatest values met | slide, keep the greatest, sum up | tables for one window length; first and last windows of nine walks | the digest is its window's, super features are those of the image's windows |
| Decode buffer (`buffer.c`) | LRU list, `size`, `link` of a node | insert, touch, evict, reload | eviction with everything in use, with one node, from several threads | space balances, pins are counted, the loop ends, the list is never run off |
| Block index (`index.c`) | hash, chained entries, sub-block pointers | list a plane's blocks, hand over to `dedup_thread` | an index read before it is set; an unlock of the wrong mutex | only blocks of the base are listed, the end is heard |
| Delta encoding (`idelta.c`) | instructions, inserted blocks | find copies, join planes, apply | hash collisions, row ends, an instruction with an empty part | the delta applied to its base gives the target |
| Coding of inserted blocks (`rejpeg.c`) | pairs, words | zigzag, run lengths, variable lengths, and back | runs longer than a byte holds, numbers across words | decoding gives the blocks back |
| Container writer (`idedup.c:300-690`) | private caches, `.idp` file | cache, flush, and reading a record back | several writers and one file; fields larger than the cache; a flag for each coded array | each writer's bytes stay whole and in order, a record reads back |
| Restorer (`idedup.c:1060-1240` and the `de_` threads) | table of bases, lists | read, decode, apply, put back, write | deltas before their bases; waits that test once | every delta whose base comes back is written, both phases end |
| JPEG decoding (`jpeg.c`) | - | decode, keep, copy raw | - | its lists and its raw copies are modelled, libjpeg is not |
| Command line, statistics, vendored code, build files | - | - | - | not modelled, see section 8 |

Components interact through the lists (each with its mutex), through nodes that travel
down the pipeline while the tables and the buffer still point at them (`link` says
how many stages do), and through files: a base whose pixels were evicted is read
again from the input folder.  There are no callbacks and nothing is persisted that a
restart would pick up, so there is no crash recovery to model.

## 2. Modules

| Module | Stands for | Role |
|---|---|---|
| `Delivery` | what a list, and a batch as a whole, promises | abstract |
| `Footprint` | bytes of a set of nodes | operators |
| `Handoff` | one list with its threads | detailed, implements `Delivery` |
| `Pipeline` | all threads and lists of a batch | composition of the lists, implements `Delivery` |
| `Detection` | detection, decode buffer, release of the pins in later stages | detailed |
| `Features` | super features and the rolling hashes under them | algorithm |
| `Batches` | folder walk, names, roads, readers | detailed |
| `Delta` | index, copy search, joining the planes, reading back | detailed |
| `Codec` | zigzag, RLE, VLI and inverses | detailed |
| `Container` | the writers' caches, the `.idp` file, reading a record | detailed |
| `Rebuild` | what restoring promises | abstract |
| `Restore` | the restorer's four threads and two phases | detailed, implements `Rebuild` |
| `QueueLemmas` | facts about sequences without repetition, joined sequences, bytes, least numbers and recursive functions | lemmas |
| `HandoffProofs`, `PipelineProofs`, `BatchesProofs`, `ContainerProofs`, `RestoreProofs` | theorems about the module in the name | proofs |
| `DetectionProofs` | theorems about `Detection`, and about `Features` | proofs |
| `DeltaProofs` | theorems about `Delta`, and about `Codec` | proofs |
| `MC*` | constants for TLC | instances |

No module declares a RECURSIVE operator; recursion is by functions (`Rebuilt`, `Grown`,
`Of`, `Pow`, `Folded`, `Mod`, `ZerosBehind`, `Number`, `SlidOver`, `Summed`) and folds.  Definitions with "Mutant" in their comment are not part of any specification:
each is a plausible slip in the operation that follows it (a signal forgotten, space not
credited, a test in the wrong order) and is there to show that a property notices.

### Handoff - the list monitor

The program writes the same monitor out at every list; the model follows `rawList`
between `read_thread` (`idedup.c:222-299`) and `decode_thread` (`jpeg.c:130-143`), and
what differs elsewhere is a constant: the threads on either side, `MemSize` of a node,
`Capacity`, how often `rCond` is signalled at the end (`EndSignals`) and `wCond` after a
pop (`TakeSignals`).

| Model | Code |
|---|---|
| `queue`, `free`, `ending` | `head..tail`, `size`, `ending` of `ListNode` |
| `waitR`, `waitW` | threads inside `pthread_cond_wait` on `rCond`, `wCond` |
| `held` | the node a producer has and wants to append |
| `Fetch`, `PutWait`, `Put`, `End` | the body of `read_thread`, its wait for room, the append, the end |
| `TakeWait`, `Take`, `Exit` | the wait of `decode_thread`, the pop, leaving the loop |
| `Signalled`, `SpuriousR`, `SpuriousW` | pthreads: a signal wakes any one waiter; a wait may return for nothing |

A critical section is one action: from the lock to the unlock or to the wait nothing of
another thread can come in between.  A woken thread only leaves the wait set and
competes for the mutex, so another may take what it was woken for.

### Pipeline - the threads of a batch

| Model | Code |
|---|---|
| `method`, `fate` | `delta_method`; what `decode_a_single_img` and `detect_a_single_img` find out about an image |
| `source`, `held` | files left to read; the node in a thread's hands |
| `queue`, `ending`, `waitR`, `waitW` | the lists and their monitors |
| `In`, `Out`, `Finished` | which list a thread reads and appends to, and its test of `ending` |
| `EndSignals`, `TakeSignals` | the counts of its `pthread_cond_signal` calls |
| `copied`, `cache`, `file` | raw copies, records in a writer's cache, records in the `.idp` file |
| `Fetch`, `Wait`, `Take`, `RawCopy`, `PutWait`, `Put`, `End` | the loops of `read_thread` to `rejpeg_thread` and the `tra_` threads |
| `Record`, `EndWriter` | `write_thread`, `tra_write_thread` |
| `EndUnheard` | `index.c:302-308`: the end of `index_thread` |
| `ended` | threads that have returned, which the road joins |

`Handoff` leaves open which end a thread waits for and how often it signals its own;
`Pipeline` fills that in stage by stage from the code and asks what the stages do to one
another.  Space is counted in nodes here.  `EndUnheard` is the one place where a critical
section is not one: `index_thread` unlocks `indexList`'s mutex (`index.c:305`), which it
does not hold, so what `dedup_thread` protects between its test of `ending` and its
wait is open at that moment, and the end may be counted and signalled in between.

### Detection - detection and the decode buffer

One action is one critical section, one step of the eviction loop, or one stretch of code
between them.  `stage` says how far an image is, from `decoded` to
`raw` or `delta`; `work` is the detector's current image.  `Pop`, `BeginInsert`,
`Insert` take it from `decodeList` into the buffer.  `EvictHead` is an iteration of
`move_action` / `delete_from_top_action`: a node whose `link` is 0 loses its pixels, one
in use goes to the tail.  `EvictLast` is the write through a NULL `head` when the list
becomes empty: it sets `crashed`, after which nothing happens.  `Look` is one
table under its mutex, `Pin` the increment of `link`, `Touch`, `BeginReload` and `Reload`
bring the base's pixels back, `Emit` passes the pair on, `Unpin` and
`WriteRaw` give an unmatched image up and write its raw copy, `Dedup` and `Rejpeg`
are the later stages with regard to `link`.  Which super features images have is a free
choice here (`FeatureSets`): the model knows only which are equal.

### Features - super features

`Features` is `compute_features`: `Roll` one step of the rolling hash (`rabin_slide`,
`gear_slide`, the two-dimensional register) and, when a window is complete (`Due`), of the
greatest values of its linear transformations; `NextBand` the next row of windows; `Sum` the
super features.  The walks over rows, columns and bytes are operators (`Bands`, `Units`,
`Unit`) that say, for each method and dimension, in which order the code takes blocks or bytes in.  Words have 8 bits, bytes 2, and the polynomial degree 5, so that
every overflow and every carry of the real widths (64, 8, 53) occurs.

### Batches - folders, names and batches

`Walker` (`PutDir`, `EndDirs`) is `dir_thread`; `Namer` (`TakeDir`, `WaitDir`,
`PutName`, `EndNames`) is a `name_thread`; `Road` (`BeginBatch`, `EndBatch`, `IdleRoad`) is
`compress_road_thread`; `Reader` (`ReadFile`, `Skip`, `IdleReader`) is a `read_thread` of
the running batch.  The mark `end_of_dir` may be missing on a folder's last file, as
`name_thread` sets none when `.` or `..` comes last in `readdir` order.  What happens to a
batch after reading is `Pipeline`'s subject, so `EndBatch` waits for the readers only.

### Delta - one image as a delta of another

`Listed` is the index of a plane: runs of equal hashes are thinned
(`index.c:100`), and the hash a block is listed under is arbitrary for all but the first
block of a row, because `j` is read before it is set (`index.c:83`).  `Copy`, `Insert` and
`EndRow` are `get_instructions_thread`, one thread for each plane.  `Merge` joins the planes' arrays;
`Decode` and `NextPlane` read them back as `de_dedup_a_single_img` does, row by row with the
width of `Stored(plane)`: the encoder cuts each plane by its own size (`idelta.c:257-263`), but the
file has only the first two sizes (`idedup.c:376-380`), and the decoder takes the second for the third
plane too (`idelta.c:760-769`).  `ColourAssumption` says where that is right: the two planes
of colour of a target are of one size.  No line of the code makes sure of it - `jpeg.c:26-31` count the
components, `jpeg.c:49-51` allocate as if it were so.  Without the assumption TLC shows the
decoder reading a copy that no instruction has.  The base's planes are read with their own sizes on both sides.

### Codec - coding the inserted blocks

`RleEncode`, `VliEncode`, `Open`, `VliDecode`, `RleDecode` are the passes, one pair or
number at a time, over the scaled-down sizes `BlockLen`, `RunMax`, `WordBits`, `MaxBits`.

### Container - the `.idp` file

A byte is a record, a field and a position.  `Layout` is the order in which
`write_thread` (or `tra_write_thread`) hands the fields to `write_cache`, with the lengths
that `compress_delta_ins` leaves in `subSize` and its bits in the flag.  `Pop` takes a
record, `Flush`, `Write` and `Copy` are `write_cache` for one field: the cache is written
out when the field does not fit, in the two writes the C library makes of it, and the
field is copied in.  `Leave` and `Close` are the writer's end.  `Pointers` is how far the
cursor of `de_read_thread` and `decompress_delta_ins` is at each field of the record it
reads, from the lengths it finds in it, and `ReadBack` what is between.  `Begun`, `Whole`
and `Of` are for the properties: the first fields of a record, whole records behind
one another, and a writer's share of the file.

### Restore - restoring a folder

`Read` is `de_read_thread`, `Unpack` `de_decode_thread`, `Rebuilder` `de_dedup_thread`,
`Output` `de_encode_and_write_thread`.  The consumers take the whole list, test before and
once after `pthread_cond_wait` (an `if`, not a loop), and the end is set under the mutex
but signalled outside it (`idedup.c:1150-1151`): `EndReading`/`EndApplying` and
`TellEnd` are two actions.  `Bases` says which base each delta may name.

### Composition

The modules meet at the lists.  `Handoff` shows that one list keeps `Delivery` whatever the
sizes and the threads; `Pipeline` puts all lists and threads of a batch together
and shows that the batch as a whole keeps `Delivery` again, with files as items and the
road as the one consumer that leaves when it is done.  `Detection` takes the images that
wait for a stage in any order, which is weaker than the FIFO the lists give; `Batches` keeps
the lists' conditions but not their capacity, which `Handoff` covers; `Container` refines
what `Pipeline` calls a writer's `cache` and `file`.  `Restore` does not use `Handoff`
because its two lists follow another protocol.

## 3. Runs

At most one type invariant stands for a module, and only where it says more than types (no
pin count or free space below zero); the other properties are about several threads or
relate pieces of state.  For every property of a passing run `PROJECT.json` names a mutant of
the code that breaks it.

| Run | Instance | Properties | What it shows |
|---|---|---|---|
| `HandoffRaw` | 3 producers, 2 consumers, 5 nodes of 1-3 bytes, capacity 4 | `TypeOK Placement SpaceAccounted NoStrandedConsumer NoStrandedProducer ImplementsDelivery AllJoined` | one signal per operation is enough although nodes differ in size; nodes are handed over exactly once; all threads end |
| `PipelineBatch` | 1 reader, 2 decoders, 1 chain, 1 writer, 2 images, lists with room for one, both delta methods | `ShutInOrder NoneOversleeps ImplementsDelivery AllStored JoinedUnlessOverslept` | stages end in order, only the known thread can sleep through its end, every file is stored once, the joins return otherwise |
| `PipelineUnheard` | one thread of each kind, one image | `AllJoined` violated | finding 2 |
| `DetectOne` | 1 detector, 4 images of two sizes, 2 super features of 2 values, any two images fit | `NoCrash AllRestorable BestChosen AllStored` | with the buffer large enough and one detector the most similar image is chosen, all is stored, and everything stored is restorable |
| `DetectTwo` | 2 detectors, 3 images, two of which overflow the buffer | `TypeOK SpaceAccounted PinnedResident PinsBalanced ResidentCharged` | the books of the buffer hold under interleaving, up to and including a crash |
| `CyclicBases` | 2 detectors, 2 images, 2 features | `AllRestorable` violated | finding 1 |
| `Features` | 12 small images and walks, 8-bit words | `DigestIsHash SuperFeaturesOfWindows` | the rolling digest is its window's remainder at every byte; super features are those of exactly the image's windows |
| `BatchesFolders` | 3 folders (one empty), 4 files (one unreadable), batches of 2 bytes, four configurations | `EachOnce WholeFolders Ends` | every file gets into one batch; no folder is cut by variable chunking, chaos excepted; where a batch has one reader some road ends |
| `DeltaPlanes` | planes 2x2, 1x1 and 1x1 against 1x3, 1x1 and 1x1, two block values, every index, the values symmetric | `Faithful InsertedAreNew` | reading back gives the target, and a correct index misses no copy |
| `CodecBlocks` | two blocks of 4 coefficients out of -3, 0, 1 | `ReadsWritten Lossless` | coefficients come back; the decoder takes no word that the encoder did not write |
| `ContainerFile` | 2 records of different lengths, 1 or 2 writers, cache of 5 bytes, file blocks of 2 | `OwnBytesInOrder ReadsBack AllInFile` | each writer's bytes stay whole and in order, one writer's records read back at every moment, all are in the file at the end |
| `RestoreFolder` | 3 deltas over any bases, a readable and an unreadable raw copy | `NoneLost NoMissedSignal PhasesApart AllRestored ImplementsRebuild NoneStarved Ends` | no delta is lost, applied early or starved; a restorable folder is restored and both phases end |

`AllJoined`, `AllStored`, `JoinedUnlessOverslept`, `AllInFile`, `NoneStarved` and `Ends` are
liveness; `ImplementsDelivery` and `ImplementsRebuild` are refinement (the abstract `Spec` as
a property).  Deadlock is not checked in these runs: the program is meant to stop, and the
liveness properties say that it stops in the right place.

Where a property is weaker than a reader may expect:

- `JoinedUnlessOverslept` lets the joins of a batch hang when a `dedup_thread` oversleeps its
  end, which finding 2 shows it can; `AllStored` holds even then, as what the thread waits for is only the end.
- `Ends` of `Batches` says that all files are read or skipped, in every configuration, and
  that one road ends where a batch has one reader.  Other roads can wait for ever on the single
  end signal, and so can one of two readers, for which its road waits (section 5).
- `WholeFolders` excepts chaos, in which the roads take names from one list.
- `Ends`, `AllRestored` and `NoneStarved` of `Restore` except behaviours with a spurious
  wakeup (`spurious`): the second test is an `if`, so a consumer woken for nothing leaves,
  and what comes after it is left behind.  `NoneLost` and `ImplementsRebuild` hold in them too.
- `AllRestorable` and `BestChosen` are about one detector; with two, finding 1.
- `InsertedAreNew` is about an index of true hashes; `Faithful` is about any, and about targets
  whose planes of colour are of one size.
- `ReadsBack` is about one writer and idelta: two writers' records may lie inside one another in
  the file, and an xdelta record says nowhere whether its delta was entropy coded (`rejpeg.c:469`).
- `AllInFile` is about records whose fields fit the cache; a longer one is copied behind the
  cache's end (`idedup.c:321`) and the model stops there (`overrun`).
- `SuperFeaturesOfWindows` leaves out the block sizes 3, 5, 6 and 7 of the two-dimensional
  method, which keep bits of blocks that have left the window, size 1, which shifts a 64-bit
  register by 64, and gear over bytes, of which only the first 63 bytes count
  because the result of `gear_slide` is dropped after them.

### Bounds and why they are enough

- *Handoff*: with three producers two can wait for room while a third goes on, and a signal
  can wake the one that does not fit; two consumers are the least for one to be left
  asleep; nodes of 1, 2 and 3 bytes in a list of 4 make room for one node and not another.  The proofs lift all bounds.
- *Pipeline*: two decoders are the least for the first end to differ from the last; room for
  one makes every list block the one before it; every assignment of fates to two images is tried.
  With a second chain (404 thousand states) the safety properties hold as well; the proofs lift all bounds of the safety properties and of the refinement.
- *Detection*: three images give two detectors a target each and a base in common, four a
  base each; two tables are the least in which look-ups and insertions of two
  images can cross; four images let a base be evicted and loaded again while another
  is in use.  Feature values are names, so the first image's are fixed.  The proofs lift the
  bounds of every safety property.
- *Features*: the smallest widths in which the register overflows and the polynomial reduces; images of one
  band and of several, rows that are shorter than a one-dimensional window and longer than one.  The proofs lift
  the bounds of both properties.
- *Batches*: two roads or readers; a folder that fills a batch, one with an unreadable
  file, one empty.  `PatchSize` 2 with files of 1 byte makes batches end inside and at
  folders.  The proofs lift the bounds of `EachOnce` and `WholeFolders`.
- *Delta*: a base row longer than the target's (copies from its middle), a base with fewer rows,
  planes of one block, three planes to keep the arrays apart, and two sizes among them, so that a
  plane read with the wrong one is not given back.  Two values, which are names and may be exchanged (`Names`), make
  repeats, collisions (through the arbitrary hash) and every mixture of copy and insert.
  The proofs lift the bounds of both properties.
- *Codec*: `RunMax` 1 makes runs span several length bytes, `WordBits` 4 with numbers of
  1-3 bits makes numbers cross words, and two blocks exercise the first coefficient's difference
  in both signs.  The proofs lift the bounds of both properties.
- *Container*: the cache is flushed between two fields of a record and at the end; a flush takes both
  of the C library's writes; the shapes include empty arrays, coded and plain ones, and every single bit of the flag.
  The proofs lift the bounds of both safety properties.
- *Restore*: three deltas give chains, cycles, and chains hanging on cycles or on an
  unreadable copy; `x` never names `z`, which only fixes how the deltas are called.  The proofs lift the bounds of the safety properties.

Nothing counts upwards without an end except `batches`, and that is bounded by the files.

## 4. Fairness

Only weak fairness is assumed, and only of threads: one that can go on is run by the
scheduler.  Locking a mutex is not a step of its own; holders let go of it after a few
statements without waiting for anything, so a thread that keeps asking gets it.  The
exception is the eviction loop, where `owner` holds the buffer over many steps and
disables the others; `AllStored` of `DetectOne` shows that it ends where any two images fit.
Nothing is assumed of spurious wakeups.

- *Handoff*: each producer's append and its end, each consumer's pop.  Fetching is upstream's
  business and gets no fairness; a producer may end at any time, as upstream may have nothing left.
- *Pipeline*: each thread of the batch, reading included, as the batch's files are there.
- *Detection*: each detector, and each image in the later stages.
- *Batches*: the walker, the name_threads, the roads and the readers, each kind as a
  whole.  `Ends` is about one of each, for which that is fairness per thread.
- *Container*: each writer.
- *Restore*: each of the four threads.

## 5. Findings

Each is a run that TLC ends with a counterexample.

1. **Two deltas of each other** (`CyclicBases`, `2df.c:396`).  Two detectors with like
   images each insert into one table and find the other in the next; neither can be restored.
2. **An end that is not heard** (`PipelineUnheard`, `index.c:305`).  `index_thread` unlocks
   the next list's mutex instead of its own; the `dedup_thread` that has tested `ending` and has
   not yet waited misses the end, and `compress_road_thread` never returns from its join.

Five more behaviours were met while modelling.  They have no run of their own, as they are
what a hypothesis of a theorem or a bound of a run excludes:

- **A single end signal** (`idedup.c:184`).  `name_thread` signals `rCond`
  once; of two waiting `read_thread`s one sleeps on.  `main.c:293` offers more readers for
  fixed chunking.  It is the other side of `EndingWakes`: its hypothesis is what `nameList` lacks.
- **Eviction of the only node** (`buffer.c:17`).  With one detector and a
  buffer of one and a half images, which the comment at `idedup.h:66-69` allows, the
  second image empties the list and the code writes through NULL: the other side of `TwoFitNoCrash`.
- **Eviction without end** (`buffer.c:36`).  Two detectors and room for
  three images, also allowed by the comment: all nodes are in use and the loop moves
  them round with the mutex held.
- **Raw copy of an evicted image** (`2df.c:467`, used at 550).  The pin is
  given up before the bytes are written.
- **Planes of colour of two sizes** (`idelta.c:766`).  The third plane's size is not in the
  file, and the decoder takes the second's; if they differ the target is not given back.  It is
  what `ColourAssumption` excludes.

## 6. Proofs

Checked with TLAPS for every value of the constants that satisfies the named assumptions.

### HandoffProofs

Assumes `ThreadsAssumption` (finite, non-empty, disjoint sets of threads),
`SizesAssumption` (a node fits into the list) and `SignalsAssumption` (at least one
signal).  The inductive invariant `IInv` is `TypeOK`, `Placement`, `SpaceAccounted`,
`NoStrandedConsumer`, `NoStrandedProducer` and `Bookkeeping`.  Neither of the sleep
properties is inductive alone: that a woken consumer is still there needs that no
consumer has left while a producer is active, which is what `Bookkeeping` says (`ending`
counts the ended producers; a consumer leaves only with the list empty and all ended);
that a pop makes room needs the accounting.

| Theorem | Says |
|---|---|
| `Invariance` | `Spec => []IInv` |
| `TypeCorrect`, `NodesPlaced`, `SpaceExact`, `ConsumersAwake`, `ProducersAwake` | its parts that the run checks |
| `EndingWakes` | with `EndSignals` at least the number of consumers, nobody sleeps once all producers have ended |
| `Refinement` | `Spec => Promise!Spec`: the list implements `Delivery` |

### PipelineProofs

Assumes `ImagesAssumption` (finitely many images), `StagesAssumption` (finite, non-empty sets
of threads), `RoomAssumption` (room for a node in every list) and `BatchesAssumption`.
`Order` is inductive: types, who may hold an image, `ending` of a list counts the ended
threads before it, and `ShutInOrder`.  From the count a thread's test of `ending` follows to mean that
all before it have returned, which is where the different tests of the stages come in.
`NoneOversleeps` is inductive over `Order`: an append wakes one thread or finds one awake, the
last end of a stage signals as often as there are threads behind it, and `EndUnheard` is the
exception it names.  For `Delivery`, `Somewhere` and `Apart` say that each image read is in one
place: in hand, in a list, copied, or a record in a cache or the file.

| Theorem | Says |
|---|---|
| `Ordered`, `StagesShutInOrder` | a thread returns after all the threads before it, with its list empty |
| `NobodyOversleeps` | signals suffice at every list and end but `index_thread`'s |
| `BatchKeepsPromise` | `Spec => ImplementsDelivery`: each file stored once, joins only after all |

### DetectionProofs

Assumes the named assumptions of `Detection`: finite sets of images and detectors, each
image fits the buffer alone, at least one table.  `IInv` adds to the checked properties: `Hands` (an image is
with at most one detector), `Lock` (who inserts or reloads holds the buffer), `Known`
(what is in a table or chosen as base has been in the buffer) and `Listed` (the list has
no repetition and only resident nodes).  The argument is that pins are counted exactly
(`PinsBalanced`), an eviction takes only nodes with no pin, hence `PinnedResident`;
`Listed` is what lets `SpaceAccounted` survive an eviction or a touch; `Hands` is what
lets a pin be charged to one stage.

`OneByOne` is a second invariant, for one detector.  There is one order `s` of images such
that every table holds `s`, but for the image that is being looked up, which the tables it has
been to have at their end (`SameTables`); an image of `s` shares with its base at
least as much as with any image before it, and its base is before it (`Settled`); the image
that is looked up has the best base that the tables so far can tell of (`SoFar`).  A
table knows only one feature, so what is best is known when the last table has been seen, and
until then `SoFar` counts by tables.  `Settled` is what makes chains of bases end: the n-th image
of `s` is restored after n rounds.

| Theorem | Says |
|---|---|
| `DetectionTypeCorrect` | types; `link` and `free` never underflow |
| `BufferAccounted` | free space plus listed bytes is the capacity |
| `PixelsPresent` | pixels are there for every stage that reads them |
| `PinsCounted` | `link` is the number of users |
| `PixelsCharged` | nothing is resident that the buffer does not know of |
| `TwoFitNoCrash` | if any two images fit together, the list is never emptied |
| `BestBaseFound` | `Spec => []BestChosen`: one detector pairs each image with the most similar one before it |
| `OneDetectorRestorable` | with one detector everything stored can be restored, for any batch and features; with two `CyclicBases` refutes it |

`Features` is the subject of the module's second part.  Its digest is proved from `WidthsAssumption` (a byte is no
longer than the degree, and degree and byte fit the word), `BlocksAssumption` and
`CasesAssumption`.  Polynomials are sets of exponents, so adding is symmetric difference.
`Mod` takes bit after bit off, from the first one down; `From` is the same with a first bit to begin
at, and the lemmas say what that gives: beginning higher changes nothing (`FromAbove`), the
remainder of a sum is the sum of the remainders (`FromPlus`), what is below the degree is
kept (`FromBelow`), a multiple of the polynomial goes away (`FromMultiple`), hence a shift can
be reduced before it or after (`FromShifted`).  From these, `ZerosShift`: the table that
`calc_tables` makes byte by byte holds the remainder of a byte shifted to the window's far
end; and `AppendReduces`: the one look-up of `rabin_append` is a whole reduction, because a remainder
has no bit from the degree on and a byte more gives at most `ByteBits` of them.  `WindowSlides` and
`BitsSlide` say what replacing the oldest byte does to the window in the order of its bytes, and to
its polynomial.  `DigestInv` is the invariant: the digest is the remainder of the window as it is
stored, beginning at `wpos`.  It holds in the empty window, and `rabin_reset` is one more
slide.

The super features need more: that the walk meets every window, each when it is complete and
with nothing else in the rolling value.  `RollsOn` says, for each method, what the value is after n units of a
band: the Rabin window ends with the last of them, so the digest is theirs once there are as
many as fit and the 1 of `rabin_reset` is out (`WindowRolls`); bit e of the register is a bit of the
block `e \div PerSlot` places back (`RegisterRolls`), where the slots fill the word exactly, which
is what `Exact` asks; gear's is of the last block alone.  So where features are due the value is the one of the
window that ends there (`ValueOfWindow`).  `WindowsByPlace` is about the image and not about time:
the stretches of units before the places where features are due are the windows, cut out of the
image by row and column or out of its bytes; this is where the order of the walk, the first place, the distance from
one to the next and the last one have to agree, once for each method and dimension.  `WalkInv` joins both: the kept
values are the greatest over the places passed so far (`GreatestOver`, `SeenValues`).  When all bands are through these
are all (`SeenInTheEnd`); the greatest of given numbers is one number (`GreatestIs`), and a sum that
is cut to the word at every addition is the sum cut once (`SumsAgree`).  `TablesAssumption` is used for the
tables of coefficients being words.

| Theorem | Says |
|---|---|
| `DigestOfWindow` | `FeaturesSpec => []DigestIsHash`, for any polynomial, widths, window and image |
| `SuperFeaturesAreOfImage` | `FeaturesSpec => []SuperFeaturesOfWindows`: super features are those of exactly the image's windows, for any image, method, dimension, block size and tables, with the exceptions of section 3 |

The comment in `idedup.h` asks for room for one image per detector; `TwoFitNoCrash` shows that
one detector needs room for two.

### BatchesProofs

Assumes `FolderAssumption` (finitely many folders with files of their own, positive sizes,
one reader with variable chunking).  `Walk` is inductive: types, who has ended and that it leaves
nothing (`Ended`), each of the five places of a file - in a folder ahead, at a name_thread, in a
name list, in a batch, skipped - holds it once (`Once`), and it is at exactly one of them
(`Apart`, `Somewhere`).  `Cut` is inductive over it and about contiguity: a name list
has the files of a folder in a row, and only the last of a row can carry the mark (`InRow`);
no two name_threads list one folder (`OneNamer`); and a folder that was read in part is at the head
of its road's list while the batch is still being read (`Parted`).  The batch can then end
only at a mark, that is behind a folder, or with the list.  `InRow` is stated for neighbours
only, which is what taking the head of the list leaves intact.

| Theorem | Says |
|---|---|
| `Walked` | `Spec => []Walk` |
| `FilesReadOnce` | `Spec => []EachOnce`, for any number of roads and readers, in chaos too |
| `FoldersKeptWhole` | `Spec => []WholeFolders`, for any number of roads, chaos excepted |

### DeltaProofs

Assumes `SizesAssumption`: planes and their sizes are positive, and every block has a hash; and
`ColourAssumption`: all planes of the target but the first are of one size.  Only the lemma
`SameRows` uses it: the decoder's rows are as long as the encoder's.
Nothing is assumed of the hash itself or of `key`, so the unset `j` and collisions are covered.
An encoder thread leaves three arrays in which no instruction has a number, so the
invariant `Inv` gives each its place: a script `s` of marks - row, column, copies and inserted
blocks so far - before and behind each instruction, such that the insertions and the copied
run between two marks are the target's blocks there, no instruction leaves its row, and it has a copy
exactly when its insertions do not fill the row (`Instruction`).  `EncoderInv`: each
thread's arrays have a script that ends where the thread is.  `MergeInv`: the
stream is the planes' arrays put behind each other.  `ReaderInv`: the reader stands at a mark,
has the blocks up to it, and the stream is what is left from there.  The last clause of
`Instruction` is the one the reader depends on, as it decides by the row's length whether
to take a copy.

| Theorem | Says |
|---|---|
| `TypesHold` | types of encoder, stream and reader |
| `ReadBackFaithful` | `Spec => []Faithful`: the target comes back, block by block, and the stream is used up |
| `OnlyNewInserted` | `Spec => []InsertedAreNew`: the leftmost of a row's equal blocks is listed, so thinning the index costs no match |

The coder of the inserted blocks, `Codec`, is proved in the same module, from `CodecAssumption`.
Powers of two are a function, `Pow`, whose recursion gives what the proofs use of them: the provers
do not look into an exponent that is a constant.  The passes follow one another, and the invariant
has a part for each.  The pairs have a script of stops, one before each pair, which says
in which block and at which coefficient of it the pair begins; what a pair covers are the
differences between its stop and the next, and at the end of a block no zeros are pending.  `rleDecode`
stands at a stop, with the block filled up to it.  The words have a script of places, one before each number: the word and
the free bits of it; between two places the words' bits are the number's, those written
earlier are left alone, and those behind are still 0.  The reader's place is that of the number it
comes to, `cur` being the rest of the word, shifted up.  That a number's bits determine it for its
length, and that the length is never one for which there is no power, are lemmas about `Pow`.

| Theorem | Says |
|---|---|
| `OnlyWrittenRead` | `CodecSpec => []ReadsWritten`: the decoder opens a word only for bits that are in it |
| `CodingLossless` | `CodecSpec => []Lossless`: numbers and blocks come back, in order and all of them |

### ContainerProofs

Assumes `RecordsAssumption`, `CrewsAssumption` and `LengthsAssumption`: finite sets of records
and writers, names and blocks of at least a byte.  `Inv` adds to `OwnBytesInOrder` what keeps
the writers apart: a record is taken by one of them only (`Apart`), a cache and a
flush hold bytes of their writer's records (`OwnOnly`), the file those of records taken
(`Within`), and a writer inside a record is at a field of the last one it took
(`AtRecord`).  Without `Apart` and `OwnOnly` a write of one writer could change the share
another has in the file.  The lemmas are about sequences: what `FlattenSeq` gives for one more
part, and that taking a writer's share (`Of`) goes through concatenation.

For `ReadsBack`, one writer's file is the beginning of the records it took, so a record that is
there as a whole stands behind its predecessors (`RecordStands`); its fields follow one
another at the sums of their lengths (`Laid`); only the last byte of the name is a 0
byte, hence the cursor finds the lengths; and every bit of the flag is recovered
from the sum by the mask of its array.

| Theorem | Says |
|---|---|
| `InvHolds` | `Spec => []Inv` |
| `BytesKept` | `Spec => []OwnBytesInOrder`, for any number of writers |
| `RecordsReadBack` | `Spec => []ReadsBack`, for records of any lengths, coded or not |

### RestoreProofs

Assumes `FilesAssumption` (finitely many files, raw copies and deltas disjoint).  `Control` is
inductive: types, `Ended` (an end that was told is set, and what an ended thread leaves),
`Heard` (without a spurious wakeup a consumer was woken for something) and `NoMissedSignal`.
`Placed` adds where each delta is, from its file to `written`, and `Back` that whatever waits to
be written is in the table of images that came back.

| Theorem | Says |
|---|---|
| `Controlled`, `SignalsHeard` | a consumer that waits has an empty list and an end still to be told |
| `PhasesKeptApart` | the first two threads are done when the rebuilder walks the list without a mutex |
| `DeltasKept` | no delta is lost, written twice or in two places |
| `FolderRestored` | without spurious wakeups nothing is left behind |
| `RestoringKeepsPromise` | `Spec => ImplementsRebuild` |

`QueueLemmas` holds what several use: the elements and the distinctness of a sequence after
append, tail and removal, the bytes of a set that gains or loses a node, least and
greatest numbers, functions defined by recursion, and sequences joined one by one.

### Only model-checked

- Liveness (`AllJoined`, `AllStored`, `JoinedUnlessOverslept`, `AllInFile`, `Ends`,
  `NoneStarved`), which is out of this prover's reach.

Every safety invariant and every refinement that a run checks is a theorem as well.

Data that is coded and decoded is proved about nevertheless, where the recursion is a
function over numbers: induction over its argument, for one formula at a time, is the lemma `InductionTo` of
`QueueLemmas` applied to a set of numbers, which needs no operator as a parameter.

## 7. What is abstracted

- Contents: an image is a name with a size and features, a block a value, a hash a key, a
  byte of the container its place.
- Compile-time choices are those of the code: `SUB_THREAD_NUM`, `INDEX_THREAD_NUM` and
  `LBS` are 1; `HEADER_DELTA`, `COMPRESS_DELTA_INS`, `THREAD_OPTI`, `FSE`, `END_WITH_FFXX`,
  `ZIGZAG` are defined.
- Failed `malloc`, full disks and the like end the program or are not handled; not modelled.
- In `Delta` the unset `j` may also make the code read outside its array; that the
  read faults is left out, only the values it may yield are modelled.
- In `Delta` the target's planes of colour are of one size (`ColourAssumption`, see section 2).
- In `Codec` coefficients are small enough to have a length (8-bit images);
  `CodecAssumption` says so.
- In `Features` a shift by the word's width or more is taken modulo the width, as the
  processors of the build do; images smaller than a two-dimensional window are left out (`CasesAssumption`).
- In `Container` a flush is two writes, whole blocks and the rest, which is how the C library
  the build links passes `fwrite` and `fflush` on; what `fwrite` returns is not looked at by the code.

## 8. What is not modelled

- **libjpeg-turbo, xdelta, FSE**: third-party code.  They are most of the repository's
  lines, so the models stand for a small share of all lines; of imDedup's own files they
  cover the threads, lists, tables, buffer, index, delta, coding, container and restorer.  FSE's sources
  are not in the repository.  What the code hands to them and takes back is in the models as choices.
- **JPEG decoding and writing** (`jpeg.c`): the thread, its lists and raw copies are in
  `Pipeline`; what libjpeg makes of a file is a choice (`fate`).
- **Hashes of index keys** (`adler32`, `rabin` over a block): any key for any block in `Delta`.
- **`.idp` files in restoring**: the program writes them and never reads one; its restorer reads a file
  of one record per delta, with the layout `Container` checks.
- **Like-named files** of two folders in a batch overwrite each other's copies (`2df.c:548`):
  the models tell images apart by identity.
- **`tra_detect_thread`**: nothing calls it.
- **`idedup_decompress` for several folders**: `main.c` calls it for one folder after another, nothing is shared.
- **Command line, statistics, build files**.

## 9. Plan

Done, in this order: `Handoff` with `Delivery` and its proofs (every thread depends on
it); `Detection` and its proofs (the shared state with the most hands on it); `Restore`
with `Rebuild`; `Delta`; `Codec`; `Batches`; `Pipeline`, which joins the lists and has
`index_thread`'s early unlock; `Container`; `Features`; `RestoreProofs`, `PipelineProofs`,
`BatchesProofs`, the second half of `DetectionProofs`, `DeltaProofs`, `ContainerProofs`; the
coder in `DeltaProofs`, the digest and the super features in `DetectionProofs`.

Next:

A composition of `Batches` with `Pipeline` for several roads, which share only `nameList` in chaos.
