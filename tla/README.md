# A verification project for wInd3x-16 (iPod nano 3G with 16 GB NAND)

The repository is a fork of wInd3x: a host program, in Go, that takes over an
iPod in DFU mode, feeds it unsigned boot images and flashes firmware, extended
with what it takes to run an iPod nano 3G on a larger NAND chip. That second half
is ARM assembly spliced into Apple's own images: the chip has 8 KiB pages in two
planes where the firmware expects 4 KiB blocks. This directory holds TLA+ models
of the parts of both halves whose mistakes destroy data, the TLC runs that check
them, and TLAPS proofs.

## 1. Inventory

| part | source | state | operations | what must hold |
|---|---|---|---|---|
| partition table and its check | `pkg/cfw/partition_n3g.go` | the MBR of the device | `ParseMBR`, `CheckN3GLayout` | an accepted table reserves the firmware volume; a safe one is accepted |
| `cfw 16gb` | `cmd/wInd3x/cmd_cfw.go`, `app.go` | where the command is, a USB handle, flags; on the device: mode, table, data, volume | DFU -> WTF -> Disk mode, repartition, write, verify, reset | never write over a filesystem, never erase data without need, "Done." means done, every run ends |
| EFI block I/O | `pkg/nand16gb/asm/efi_nand.S` | the request in progress, a bounce page | `ReadBlocks`, `WriteBlocks` | a 4 KiB device over 8 KiB pages |
| RetailOS block bridge | `asm/osos_blockbridge.S` | the request, a scratch page, an accumulated status | read and write executors | the same, with failures that are reported |
| disk mode FTL bridge | `asm/diskmode_ftlbridge.S` | the request, a scratch page | `tramp_ftl_rd`, `tramp_ftl_wr` | the same, with failures confined to the request's pages |
| NAND driver fixes | `asm/nand_planeerase.S`, `nand_bbtscan.S`, `nand_erasedpage.S` | row buffers, chunk verdicts | erase, bad-block scan, ECC verdict | both planes erased; no bad block missed; no real data called blank |
| DFU client | `pkg/dfu` | block number, device status | `Clean`, `SendImage` | the device holds the image or an error is returned |
| USB mass storage client | `pkg/usbms` | tag counter | `RawCommand` and the vendor commands on it | an answer belongs to its command |
| payload cache | `pkg/cache` | files | `Get` and the producers it calls | a file is only ever its whole payload |
| resumable decryption | `pkg/exploit/decrypt` | recovery file, output | `Decrypt` | a restart continues where it stopped |
| device commands | `cmd/wInd3x/cmd_restore.go`, `cmd_cfw.go`, `cmd_run.go`, `cmd_haxdu.go`, `app.go` | the device's mode, a handle, the version override | `restore`, `cfw run`, `cfw superdiags`, `run`, `haxdfu` | an unsigned image goes only where it boots; success means done; `restore` gets a device back |
| MSE bundles, EFI volumes | `pkg/mse`, `pkg/efi` | parsed trees | `Parse`, `Serialize`, edits | what is written parses to what was meant |
| visitors, defangers | `pkg/cfw` | the tree that is patched | `applyPatches`, `SecoreFixup`, `patchN3GEFISlice` | the security core stays where the boot ROM looks; a module is patched once |
| 16 GB patches | `pkg/nand16gb/*.go` | the splicer's next free byte | five `Apply` functions | no patch over another, none outside its gap, none in the wrong image |
| image headers, device table | `pkg/image`, `pkg/devices` | none | `Read`, `MakeUnsigned`, descriptions | as their callers |
| exploits, assembler, syscfg | `pkg/exploit`, `pkg/uasm`, `pkg/syscfg` | none of their own | byte patches, encodings | depends on Apple's binaries |
| web front end | `web/` | promises, IndexedDB | the same packages under WebUSB | as the packages |

How they interact: a command asks the cache for images; the cache downloads,
decrypts (through the exploited device, block by block) and patches them; the
command sends them with the DFU client and, once the device is in disk mode,
talks to it with the mass storage client. The patches put the three block bridges
between Apple's file systems and Apple's flash translation layer (FTL) in the EFI,
in RetailOS and in disk mode. All of them meet in one thing: the firmware volume
at LBA 63, which disk mode writes, the EFI and RetailOS read, and the owner's
music must not reach.

What is hard: the device reboots under the program four times and may not come
back; every USB command may fail, or take effect and lose its answer; the program
may be killed between any two of them; flash writes may be lost half way through
a page; the trampolines share one scratch page between all requests.

## 2. The plan

Order: what can destroy data first.

1. `N3GLayout`, `LayoutEdits` - the table check, on all tables. *Done, with a theorem.*
2. `FlashSession` - the command that depends on it. *Done, with theorems.*
3. `BlockStore`, `EfiBlockIo`, `OsosBridge`, `FtlBridge` - one abstract device,
   three implementations. *Done; refinement proved for the EFI.*
4. `Decrypt`, `PayloadCache` - crash and restart. *Done, with theorems.*
5. `ImageTransfer`, `DfuTransfer` - lost replies and retries. *Done, with theorems.*
6. `UsbMs` - the bulk-only transport, its tags and residues, stale answers.
   *Done, with theorems.*
7. `NandBlocks`, `NandPages` - the two-plane erase, the bad-block scan, the
   erased-page verdict. *Done, with theorems.*
8. `MseBundle`, `EfiVolume`, `EfiPatching`, `NandPatches` - what is taken apart,
   edited and put together. *Done, with theorems.*
9. `DeviceCommands` - `restore` and the other commands. *Done, with theorems.*
10. `SharedFlash` - the three bridges over one flash. *Done; refinements proved.*

Left: an inductive invariant for `DoneBelievesItsOwn`, and the chip identification and
ECC trampolines of `efi_nand.S`.

## 3. The modules

### `N3GLayout` and `LayoutEdits`

`N3GLayout` holds operators only: a table is a function from slots to entries,
`CheckN3GLayout` is the Go function with its loop read as quantifiers (the loop
keeps the *last* slot that starts at the volume: `FirmwareSlot`), and block
numbers wrap at `WordSize` as `uint32` does. `Reserved` is what the doc comment
of the check promises. `LayoutEdits` is a partitioning tool that reaches every
table over a set of entries, so its invariants compare the two on all of them.

### `FlashSession`

The program is a location `pc`, one per USB command of `cfw 16gb`; the flags,
the retry counter, the deferred verification error and the result are variables of
their own. The device is its mode, the image it was told to boot, its table, what
its data partition holds, its firmware volume by chunk, and its block size. `live`
says whether the program's handle still refers to the device as it enumerates:
any reboot or reset clears it, and only `newDFU`, `newAny` and `waitSwitch` set it.
That is what lets the model ask whether something can happen *between* the check
and the write.

A command on a live handle works, or costs the environment a fault and fails
before or after it took effect; on a dead handle it always fails. A chunk may be
acknowledged and lost (what disk mode's bridge does, see `FtlBridge`). A call may
also never return (`Hangs`, `stuck`): then the program waits until the device leaves
the bus or somebody kills it. A Disk mode command that fails, hangs or is killed
leaves the bulk pipes in use (`used`) until the device is on the bus anew, and in
such pipes the next one may fail, hang or take another command's answer for its own
(`Misled`) without a fault of its own; `UsbMs` is where that comes from. Two things of
`UsbMs` are left out here: a command that waits in the pipes and is performed in a later
run, and a table read from an answer to an earlier run. For the second to be an older
table, somebody must have written it in between without the operating system's driver
resetting the pipes. The owner may reset the device at any time, kill the program, and
between runs re-create the partition table or sync. `verifyN3GFirmwareVolume` reads the header and the
directory, both in the first chunk, and an older firmware's directory satisfies
it: `DirectoryValid`.

### `DeviceCommands`

The other commands that bring images to a device: `restore`, `cfw run`,
`cfw superdiags`, `run`, `haxdfu`, one after another in any order on the same
device and the same cache. A command is the sequence `todo` of steps it has to
do, filled in by the code's own branches and worked off from the head; a step is
one call, which may fail before or after it took effect. What a device enumerates
as comes from the device table: a late nano 7G looks like a nano 7G in DFU and in
Disk mode and has a product ID of its own in WTF only. A device boots unsigned
images only from a DFU that runs the payload or from a WTF that was patched; it
refuses others, and `NothingRefused` says that no command sends it one. What an
image is made for, and the release a version override selects, are kept with the
partition, the bootloader and the firmware on the device. Calls may hang and Disk mode
commands leave pipes in use as in `FlashSession`. A command that takes another's answer
for its own counts as failed here: `UsbMs` shows that a run which did so does not say it
is done (`DoneBelievesItsOwn`). After a full restore nothing tells the device to reboot
(`IPodFinalize(false)`): `Finalized`.

### `StorageDomain`, `BlockStore` and the three bridges

`BlockStore` is the promise: requests over 4 KiB blocks, served in any number of
transfers, that touch the blocks they name and no others and answer "ok" only
when all is done. Two constants take parts of it back: `MayHarm` (a write that is
going wrong may change the other half of the pages it touches) and `MaySwallow`
(a request that went wrong may be answered "ok"). Blocks carry the address they
were written for, so a block in the wrong half, page or buffer slot shows.

| module | trampoline | implements |
|---|---|---|
| `EfiBlockIo` | `tramp_efi_blockio_4k` | `BlockStore`, nothing taken back, with failures and power cuts |
| `OsosBridge` | `tramp_osos_read/write` | `BlockStore` with `MayHarm`: failures are always reported |
| `FtlBridge` | `tramp_ftl_rd/wr` | `BlockStore` with `MayHarm` and `MaySwallow`, which excuse only requests of which an inner call failed |

`SharedFlash` composes them: one FTL, three programs that boot one another and
share its pages and nothing else. A bridge is checked over whatever pages the
others left, damaged halves included, and a reboot clears every scratch.

In each of them one call of Apple's FTL is one step, registers are variables
under their source names where they have one, and the FTL below maps a page
atomically (the comment at `efi_nand.S:399-402`): after a failed or interrupted
page write the page holds its old or its new contents.

### `Decrypt`

One run of `Decrypt` after another, on the same recovery file. A block of
plaintext is its number and a file is the sequence of its blocks and the bytes of
a torn one, so a block that is left out, repeated or misplaced shows. Opening,
slicing, each attempt on the device, the write to the file and the write to the
buffer are steps, between any two of which the program may be killed or the power
may go; a power cut takes any number of bytes from the end of the file, which is
never synced. The device may fail as often as it likes.

### `ImageTransfer` and `DfuTransfer`

`ImageTransfer` is the promise of `dfu.SendImage`: the device manifests the whole
image or nothing, and success means that it did. `DfuTransfer` is the code, one
step per control request, against the state machine of the DFU standard, which is
external: the device appends what it is sent until it is reset, is busy for as
long as it likes, stalls what its state does not allow, fails and disappears. A
request that fails may have been lost on the way there or on the way back. The
checksum that protocol version 1 appends is one of the chunks.

### `UsbMs`

`RawCommand` with one step per bulk transfer - command block, data, the zero-length
packet, status - under the operations of `cfw 16gb` and `restore`. Tags start over
in every run, nothing resets the pipes, and a run that was killed or failed leaves
in them what it did not fetch: the next run may read the answer to a command of the
run before. Messages therefore carry the run and the tag they belong to. The code
compares the tag, the status and the residue of the status block, and its
operations tolerate a failed `information`, a failed read of the table (which leads to
a repartition) and a failed `verify` (`Tolerated`); all of that is in the model.
`LeavesTable` is a table that is safe: the repartition and the read-back are skipped.
With `--no-repartition` a program ends where it would repartition, which is no
different here from being killed there. A stale status block of a longer command has a residue that is larger
than the buffer, and slicing the buffer by it panics. The OUT pipe holds `OutDepth`
messages. `UpdateAssumption` says of the programs what is true of the code's: each of
them updates the firmware at some point.

### `NandBlocks` and `NandPages`

The firmware's driver knows superblocks of 256 pages; the chip has blocks of 128 in
two planes. In `NandBlocks` the bad-block scan reads the marker pages of both halves
one by one, an erase fills the sequencer's row buffer and runs it once for each
plane, and the FTL, which is external, owns hyperblocks: it erases, writes and
recycles what the scan found good. A read of a marker may fail, the sequencer may
time out, the power may go between any two steps. `NandPages` is one page: it is
read into chunk buffers, `erased_chunk_fix` looks at the first words of each, and
the collector's `gc_erased_check`, which reads the first 2 KiB only, decides
whether to stamp the page unreadable. A chunk is what those first words tell. The
ECC core is external: a damaged data chunk reports bit errors, an erased one reads
as ones or as the core's decode of ones, which the source calls poison.

### `MseBundle`

A bundle as `Parse` may have returned it, edits of its files, `Serialize`, `Parse`
again: `RoundTrip` compares names, contents and lengths. The two things a bundle does
not say of itself, which generation it is and which files have a prefix header, are
guessed by the code as they are here: the generation from the SoC code that most
images carry, the prefix header from the first words of a file. `Unambiguous` excludes
the bundles in which the Nano 3G's code is as frequent as another's: the code walks a
map, and either may win. An empty header in front of a used one makes `Serialize`
panic, and so does the model; neither occurs in an Apple bundle. `Serialize` is its
loop: a file is given its place behind the one before, then all is written. `Hax`
exchanges two names before it looks at `rsrc`, so its error leaves them exchanged; a
missing file or a short `rsrc` is a panic. `BundleAssumption` says that bundles are as
`Parse` returns them.

### `EfiVolume` and `EfiPatching`

A volume is a tree of any depth: files, sections in them, volumes in those. It is
written here as the list of its nodes in the order in which `VisitVolume` walks them,
each with the number of the node that holds it (`InWalkOrder`): an edit of a section is
an `EXCEPT` at its place, and no definition is a RECURSIVE operator. `EfiVolume` computes
how many bytes `Serialize` makes of each node, where each file comes to lie and where the
reader stops; `Length(v)[i, j]` is what node `i` holds as far as node `j`, which is
`concatSections` for a section and the loop of `Volume.Serialize` for a volume.
Compression is `Packed`, a constant operator on lengths. `EfiPatching` takes an image from
the read through visitors, `SecoreFixup` and `patchN3GEFISlice` to the window it is copied
over. The walk is a state machine: `here` is the node it is at, `turn` the visitor whose
turn it is there, `patch` the one of its patches that comes next. So what a visitor knows
(`inFile`, `applied`) is a state that outlives a node, as in the source, where a nested
volume's last file remains the current one for the sections behind that volume
(`cfw.go:101`): a PE32 section there is patched as if it lay in the nested file.
`MCParts` has such a volume, `PatchedOnce` makes the exception (`NothingBehindNested`), and
no image of Apple's is known to have one. `SecoreStays` is about addresses: whatever the patches added
and the vendor's packer did differently, the padding file in front of the security core
makes up for it, the core is where it was read, the result can be read again, and it
covers its window exactly. A misread is a failed run: the code returns an error or
panics, and writes nothing. The reader of a nested volume over-reads by
4 bytes, as the source does.

### `NandPatches`

The five layers of patches at their real addresses. An image is its address space: where
it differs from the one the patches were written for ("drift") and what was written over
it. A layer is the list of what its `Apply` function does - check a word, place a
trampoline, hook a branch, write a table - and a step does the head of the list. The
assembled lengths are inputs: trampolines that fit, that just fit, that are a word too
long. `PatchAssumption` says only that there is one length for each source, none
shorter than two instructions and that of `ftlbridge` not shorter than its pool. Disk
mode's chip descriptor goes where a literal of the image says (`BakeDescriptor`): in
Apple's image that is a place of its own; a literal that is not Apple's may say anything
(`DeviceTables` sends it over either of two trampolines, to where only its two zero bytes
overlap one, elsewhere, to the end of the range and out of it), and the code checks the range
only, which contains every gap. An image drifts in one word at most, one that is checked,
one that is not, or one in a gap. `PatchesIntact` says that what is delivered holds every
trampoline whole and none twice, and makes one exception, for that descriptor (`astray`,
`TableMoved`): an image whose literal is not Apple's is delivered wherever it sent the
descriptor, over a trampoline too. `StockIsAccepted` says that the checks refuse no stock
image. A word that no check looks at may have drifted in an image that is accepted: the
source does not verify every hook.

### `PayloadCache`

`Get` of a defanged payload, with all it calls: the decrypted file or else the
catalogue, the image, its decryption and patching. A file is absent, good,
"broken" (its next reader rejects it) or "garbled" (nobody notices). A file that
that is being written when the program is killed or the disk is full is left broken
or garbled, since `WriteFile` writes in place. The catalogue is saved before it is
parsed, so a body that is none is left broken by a download alone; one that cannot be
read is downloaded anew. `damaged` remembers such accidents for the properties only. Payloads in `Whole` are decrypted with a recovery file,
as WTF, recovery, bootloader, RetailOS and diagnostics are by five copies of the same
function; `Firmware` is decrypted in parts that are cached one by one.

## 4. The runs

| run | question | bounds |
|---|---|---|
| `layout_doc` | *finding*: does the check do what its comment says? | 3 slots, 40 entries that start before, at, inside, at the end of and past a 2-block region |
| `flash_session` | what may any sequence of runs, faults and syncs do to table, data and volume? when does a run end, and does a clean one succeed? | 7 tables, block sizes that work, do not divide, and 0; 2 chunks; 3 recovery attempts; 3 faults |
| `commands` | what do the other commands send, and report? does `restore` get a device back? | a nano 3G and a late nano 7G, 16 invocations, 2 attempts, 3 faults |
| `usb_ms` | whose answers does a run believe, and what does success mean? | 4 programs, 3 runs, 2 chunks, an OUT pipe of 2 messages, 2 faults |
| `efi_blockio` | is the EFI's bridge a 4 KiB device? | 3 pages, every request of 0 to 4 blocks, 1 failure, any number of power cuts |
| `shared_flash` | is each bridge, over what the others left? what do failures cost, and do they show? | the same requests from the first page on, 2 failures with 2 codes, 2 reboots |
| `osos_doc` | *finding*: does the other half of a partial page survive in RetailOS? | requests in the first three blocks, 1 failure |
| `decrypt_resume` | what do interrupted decryptions leave, cost and return? | 3 blocks of 2 bytes, 2 attempts, 3 faults |
| `decrypt_doc` | *finding*: can decryption continue after any restart? | 3 blocks, the last one padded, 1 fault |
| `dfu_transfer` | does the image arrive whole or not at all? | 3 chunks, 3 polls, 3 faults |
| `payload_cache` | how far does a damaged file reach, what is done twice? | 2 whole payloads, 1 in 2 parts, 2 accidents |
| `parts` | six questions about parts that work alone, below | see `MCParts` |

`parts` runs `LayoutEdits`, `NandBlocks`, `NandPages`, `MseBundle`, `EfiPatching`
and `NandPatches`. They share no state, so a behaviour is one of one of them, chosen
at the start; the run asks whether the table check is right on every table
(`VerdictIsRight`), whether what the FTL writes next is erased in both planes
(`FreshIsErased`) and no data lies on a defective half (`NoDataOnDefective`), whether
the verdict on a page is sound (`VerdictIsSound`) and no erased page is stamped
(`ErasedIsNotStamped`), whether bundles survive (`RoundTrip`), whether the security
core stays (`SecoreStays`) and every module is patched once (`PatchedOnce`), and
whether patches land where they should (`PatchesIntact`, `StockIsAccepted`).

Why the bounds are enough. The check compares each slot with two numbers, so entries
around those two numbers and three slots (two at the volume and one other) show every
combination; `layout_doc` and `parts` use the same tables. The session's decisions
depend on whether a table passes, and the seven tables are the shapes the check
distinguishes; two chunks tell the one that holds the directory from the others; a fault
before, during and after the same write needs three. A request is at most a head, a run
of whole pages and a tail, which four blocks on three pages give in every alignment.
Three blocks or chunks are a first, a middle and a last one; three faults interrupt an
attempt, its repetition and the one after. Two whole payloads show that an accident with
one does not reach the other, two parts that one is kept while the other is lost. A code
and a second code are what it takes to see whether the first one is kept. Two reboots
take the flash from any of the three programs through the EFI to another. An interrupted
run, one that meets what it left and one on what that leaves are three runs of `usb_ms`;
a late nano 7G is the one device whose table entries disagree between modes and has a
bootloader to write, a nano 3G has none. In `parts`, two superblocks of four pages on
two banks have two hyperblocks with two halves each and a marker page that is not the
first; four chunks are the source's own number, the first of which is all that the
collector looks at; file lengths straddle a page; the EFI volumes put the core behind,
before and without padding, and the paddings step through every residue of the block
size; modules lie in a file, in a packed section and in a file of a nested volume, with
another module behind that volume or not; the patches' addresses are not scaled at all.

The fault bounds are `MaxFaults`, `MaxMishaps` and `MaxMarks`, those on repetition
`MaxRuns` and `MaxBoots`; nothing else is capped. (`Decrypt` counts the device's work
in `work`, a history variable that `WorkIsKept` bounds by the rest.)

The safety runs of bridges and parts have no fairness. A deadlock would be reported:
all runs check for it.

### Findings

* `layout_doc`: a table with a data partition at LBA 63 next to the firmware's is
  accepted (`partition_n3g.go:73`), against the check's doc comment.
* `decrypt_doc`: a restart on a recovery file that is complete decrypts a block past
  the image or panics (`decrypt.go:119`), against `decrypt.go:71-72`. Such a file is
  what a run killed after its last block leaves, and what every successful run
  leaves: `Decrypt` opens the path in the working directory, `Store.Remove`
  (`cache.go:299`) looks under the store's root.
* `osos_doc`: after a failed read of a partial page the write-back still happens
  (`osos_blockbridge.S:163`), against the comment on `tramp_osos_write`.

Two observations without a run. A failed read of LBA 0 is answered by a
repartition (`cmd_cfw.go:192`), which `README.md:40` of the repository does not
say; `FirmwareOnlyKeepsData` excuses it, since a command has failed. And
`tramp_efi_read_go` and `ecc_scrub` are assembled into the EFI's blob and never hooked.

### Fairness

`FlashSession!FairSpec` assumes weak fairness of the program as a whole and of a
device that was told to boot. That a USB call returns is *not* part of it. Bulk
transfers have no timeout (`usbms.go:69-90`), and the only timeout of control transfers,
50 ms, is set by an exploit for the handle it works with (`exploit.go:113`): the handles
that `waitSwitch` returns have none, nor has one on which `Trigger` found the payload
running already. So a call that does not return is an action of the environment,
`Hangs`, after which no action of the program is enabled until the device is reset or
the program killed. Fairness is about what remains: a call that does not hang returns
with an answer or an error, `waitSwitch` has a context with a deadline, retries are
counted. `Terminates` says accordingly that an invocation ends *or* waits in a call that
hangs, and that once accidents have stopped it ends, if it uses no pipes that an earlier
failure left in use: a full restore always, since the device it takes through DFU comes
back with clean pipes, `--firmware-only` if it found them clean. That a `--firmware-only`
run after a killed one may wait for ever is in the model, and the second half of
`Terminates` leaves it out for that reason. The second assumption says that a device that
was given an image leaves the bus: as that image, or, for a fault, not at all. No
fairness is assumed of the owner.

`DeviceCommands!FairSpec` assumes weak fairness of `Work`, the steps of a command,
and of `Enumerate`, a device that comes back as what it was told to boot: the same
two assumptions, with `Hangs` kept apart in the same way; `RestoreRecovers` begins with
clean pipes. `UsbMs!FairSpec` assumes it of the host, which goes on as long as
its transfers end, and of the device, which takes what is sent and answers what it
took. The code sets no timeout on bulk transfers, so a run whose transfer is never
answered stays there: `CleanRunSucceeds` claims nothing of a run that does not begin
on clean pipes.

`Decrypt!FairSpec` and `PayloadCache!FairSpec` assume weak fairness of the
program: every exchange with the device ends with an answer or an error, and
downloads and file operations end. `DfuTransfer!FairSpec` assumes besides that a
busy device finishes what it is doing: the loop at `dfu.go:203` has no bound, and
without this a device that is busy for ever would keep the program. Nothing is
assumed of users, power and accidents: `InterruptedIsResumed` and `RetryDelivers`
begin where the budget for accidents is used up, so they say what happens once
accidents stop.

## 5. The proofs

`FlashSessionProofs` proves, for every set of tables, block sizes, chunk count,
number of attempts and fault budget (under `WordAssumption` and
`SessionAssumption`):

* `Invariance`: `IInv` is inductive. What carries the weight is `CheckedInv`: at every
  location past the check the *device* holds a table that passes it. It is
  inductive only because nothing but the program changes the table while the
  program is not idle, and because every way to a writing location goes through a
  read of the device on a live handle. `VerifiedInv` does the same for the deferred
  verification error, `TriesInv` for the retry counter.
* From it: `TypeCorrect`, `WritesChecked`, `NoRepartitionRespected`, `DoneIsVerified`.
* `FirmwareOnlyKeeps`, with `KeepsInv` beside it: while no command has failed, the
  handle of a `--firmware-only` run is the one it opened and nothing reboots, so the
  verdict that leads to its repartition is the check's and not a failed read's.
* `SyncSparesVolume`, which assumes that entries are entries of an MBR, that the
  region does not wrap, and that the chunks fit in it.

`PartsProofs` holds the proofs of the parts that work alone: `LayoutEdits`, `Decrypt`,
`NandBlocks`, `NandPages`, `MseBundle`, `NandPatches` and `EfiPatching`.

*The layout check.* `VerdictCorrect`, for any slots, entries and word size
(`EditsAssumption`): with a single slot at the volume, the check accepts just the
tables that reserve the region, but for partitions below it and empty ones.
`CheckSound` and `CheckComplete` are its two directions, for any one table.

*Decryption.* `RecoveryCorrect`: `TypeOK`, `OnlyPlaintext`, `WorkIsKept` and
`OkMeansWhole` for every block size, image and number of attempts and faults.
`Position` is what makes them inductive: it says by how much the recovery file is
ahead of the buffer at every location.

*The NAND driver.* `FreshBlocksAreErased` and `DefectsStayUnused` for
any number of banks, superblocks, marks and mishaps. The first rests on `EraseInv`: the
rows in the sequencer's buffer are those of one plane of the hyperblock that is being
erased, what it has passed is erased, and nobody owns that hyperblock. The second rests
on `ScanInv`: the marker pages a scan has read so far were clean, so a good verdict is
right, and only hyperblocks found good on every bank have an owner.

`VerdictSound` for any number of chunks and `ErasedStaysUnstamped` within the clamp
(`Groups <= MaxGroups`): past it the erased chunks are not rewritten. `PageInv` says
that before the check the buffer is what the page reads as, and after it an erased
page's first chunk is ones.

*Bundles.* `BundlesSurvive`: `RoundTrip` for any number of files of
any lengths, names and contents. `MseInv` says that the offsets the loop has given out
are page-aligned, increasing and far enough apart for what lies there, hence that the
blob is `Layout`; that the reader's guesses see the same files; and that an edit keeps a
bundle one that `Parse` may have returned.

*Patches.* `PatchesLieApart` and `StockImagesPass`: `PatchesIntact`
and `StockIsAccepted` for every assembly of the sources, whatever its lengths, and every
image, however it differs from the stock one. Two facts about the lists come first. In
each layer no piece is written twice, none is written before it is checked, and none lies
in a gap (`DiskLayer`, `AupdLayer`, `OsosLayer`); and the layers of one image lie in
zones of their own, so the whole plan has the same property (`PlansClean`). The chip
descriptor is the one piece whose place the image decides; it is on the list where
Apple's literal puts it, and in `astray` otherwise (`BakesAre`, `BakeStep`). `PatchInv`
then says how far an application has got: what it has written and placed is what the
plan says up to there, the splicer's cursor is where the lengths so far put it, and the
checks passed so far bound the lengths (`Passed`). At the end they bound all of them:
`scsibridge` by the check that `ftlbridge` makes, after the copy, and `ftlbridge` by the
zeros `planeerase` looks for, although `ftlbridge`'s own ceiling lies above them and its
scratch pointer is zero. So trampolines lie apart (`BlobsFit`). While `earlier` is not
empty, an application has not reached the check that will refuse it: `planeerase`'s zeros
in disk mode, the first word of Block IO in a module (`Catcher`, `Trap`). For
`StockIsAccepted` the same facts are read the other way: if the gaps suffice, nothing an
item looks at has been touched (`NothingInTheWay`).

*EFI volumes* (`PartsProofs`). `SecoreStaysPut` and `EachPatchedOnce` hold for any
volumes, visitors with any patches, drifts and offsets, and for any `Packed` that gives
natural numbers, which is all that is assumed of the compressors. The invariant is
`EfiInv`:

* `SameShape`: the volume has the nodes that were read, of the same kinds in the same
  places; until the padding is adjusted only modules have changed, and the volume's own
  node, which holds the length its block map promised, never does. Hence the body is never
  shorter than its window, and `WriteBack`'s check, that it is not longer, makes them equal.
* `VisitorsKnow`: `inFile` of each visitor is about the last file the walk has come to.
* `PatchesTaken`: a module was patched by just those visitors of that file that have passed
  it, in their order, and nothing else was patched. `AppliedOnce`: `applied` of a visitor
  says whether there is such a module, and there is no second one. Neither is inductive
  without the other: that a module is new to the visitor that patches it comes from
  `applied`, and that `applied` is true at the end says nothing without the first.

That lengths are numbers at all needs an argument, since `Length` is a recursive function
and what TLA+ makes of such a definition is a `CHOOSE`. `LengthAt` gives it: what
`Length(v)` says of a place it says by places of a smaller `Measure`, so the definition has
a solution (`FixedPoint`), and its values are numbers of bytes by induction along that
measure (`PlaceInduct`). The two induction lemmas are proved from the library's
`NatLessThanWellFounded` and `WFMin`, which take no operator as a parameter.

`FixupReaches` is about `SecoreFixup` alone. It adds to the padding what the core has
moved by and checks the outcome; the theorem says when the outcome is right: if the padding
is long enough, just when the place that is asked for is a multiple of eight (and, for a
core that comes first, when it is where it always was). So the error "Failed to adjust
padding" means that the vendor's packer put the core where this one never does. The
argument is that files are filled up to eight bytes (`FilesAligned`) and that other padding
moves all that lies behind it, as far as the core, by the difference, and nothing else
(`PaddingMoves`).

`EfiBlockIoProofs` proves, for every number of pages, buffer size, set of versions
and requests that stay on the device (`StorageAssumption`):

* `WalkCorrect`: `TypeOK /\ Walk`. `Walk` relates the loop's three counters to the
  request, says that every block behind the loop has been served, and that a bounce
  page about to be stored is the current page with one block spliced in. It is
  what makes each store harmless to the half not supplied.
* `EfiImplementsStore`: every step is a step of `BlockStore` or a stutter.

`DfuTransferProofs` proves `ReceivedCorrect` and, from it,
`SendImageImplementsTransfer`, for any number of chunks and polls. `Received` ties the
device's buffer to the host's count of chunks while the device downloads; that a
retry cannot append to the chunks of an earlier attempt rests on the state that
`Clean` reads after the reset.

`PayloadCacheProofs` proves `WrongPayloadHasCause` and `PopulatedCacheIsEnough` for
any payloads, parts and number of accidents. Its invariant adds to the property
the provenance of the cached parts, that the parts the loop has passed are there
(no file ever disappears), and that a payload in the making has not been returned
before. `WorkIsDoneOnce` adds `WorkInv`: a recovery file that is not complete has cost
no finished decryption, and a part that is not there only those an accident undid.

`UsbMsProofs` proves, for any programs that update the firmware, any depth of the pipe,
and any number of runs and faults:

* `PipesInOrder`: `UsbMsInv`. Everything in the pipes carries the run and the tag of its
  command. `InOrder` says that they are in order in the OUT pipe, that an answer is older
  than every command still waiting, and that a device that waits for data has nothing to
  say.
  So when the host reads the answer to the command it has just sent, all before it
  has been dealt with. `Matching` says that what bears that stamp is that command, hence
  that the residue of its answer is not larger than its buffer.
* `CleanRunsAreTheirOwn`: a run that begins on empty pipes believes no stale answer and
  does not panic, whatever of it fails and is tolerated.
* `SuccessMeansStored`, by `Progress`: while a run has believed its own answers only, the
  image on the device is what the host thinks it has sent, and nothing that is on the way
  changes it but the command just sent.

`DeviceCommandsProofs` proves `NothingIsRefused` and `SuccessMeansDone` for any commands
in any order, any devices and releases. In
`CommandsInv`, `Shape` says that a command's remaining steps are in the order of its menu;
`Restored` and `Sent` say what the steps that are gone have achieved; `Trusted` says that
a device held past the trigger boots unsigned images, for only the patched WTF comes up in
that mode meanwhile. The attempt found a definition with overlapping cases (`Image`, whose value
would then have been TLC's choice), which now are disjoint.

`SharedFlashProofs` proves, for any pages, requests, codes, faults and reboots, that
each bridge keeps `BlockStore`'s promise over what the others left:
`EfiSeesAPerfectDevice`, `RetailReportsFailures`, `DiskModeConfinesDamage`, and
`DiskModeMixesNoData`. Every step of a bridge is a step of its abstract device or a
stutter. `SharedInv` is the bridge's own invariant in the program that runs: `Walk` of
`EfiBlockIoProofs` for the EFI, `RetailWalk` and `DiskWalk` for the others. These say
what the scratch holds when a partial page is about to be stored (the current page with
the block spliced in while nothing has failed, and in disk mode nothing from another page
in any case) and that until something fails every block passed has been served.

`TypeOK` and the invariants named `...Inv`, `Walk`, `Received` and `Position` are
proved and no run checks them.

Only model-checked:

* Liveness (`Terminates`, `CleanRunFlashes`, `RetryDelivers`, `InterruptedIsResumed`,
  `CleanRunSucceeds`, `RestoreRecovers`), which is out of the prover's reach together with
  ENABLED.
* `DoneBelievesItsOwn`: a run that says it is done has believed no other command's answer,
  even on pipes in use. The argument is that one which did lags behind its answers by one,
  and its last command then gets a status it does not accept; an invariant for it would
  have to bound the lag for every program.

## 6. Not modelled, and why

Bytes: `ParseMBR`'s offsets, the SCSI encodings of the vendor commands, the fields of
an IMG1 header, checksums and compression, the registers the trampolines save, the
instructions the patches write. Apple's side: the boot ROM, the FTL, the ECC core,
disk mode's handling of the vendor commands; they appear as the environment, from the
way the repository uses them. The exploits are byte sequences whose effect lies in the
boot ROM, the assembler is a table of encodings, the syscfg parser reads one structure:
none has states to explore. The fixed-offset tables by which the other models' WTF is
patched are data. Of `efi_nand.S` the chip identification and the ECC configuration are
left out: straight-line register writes to a controller that is not described. Disk
mode's SCSI bridge has one live trampoline, one multiplication.

The web front end runs the same packages in a browser. What is its own are promises of
WebUSB and IndexedDB turned into blocking calls without timeouts, guards in the page
that keep two of them from running at once, and a store whose `Remove` is not
implemented; which promises settle, and when, is the browser's and not in the
repository.

`get_scratch` and `get_ftl_scratch` are taken to succeed. A failed allocation would be
kept as an alias of address 0, the one hazard in PROJECT.json no property covers.
The program is always run in the same directory, where `Decrypt` keeps its recovery
files. The session assumes one program at a time and that nobody repartitions the
device while the program runs (disk mode exposes one mass storage interface, which the
program claims). `UsbMs` and `DeviceCommands` model the same commands at different
depths and are not composed: a step of the one is a run of the other.
PROJECT.json lists every part with its status.
