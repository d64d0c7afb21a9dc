# Penglai secure Linux: TLA+ models, model checking and proofs

The repository is the host side of the Penglai TEE for a secure Linux system:
a kernel driver that copies a system image into reserved memory and asks the
secure monitor to start it, a user library and a host tool above the driver, a
tool that signs images, a remote verifier for attestation reports, and the
cryptographic library `gm` on top of MIRACL that signer and verifier share. This
directory holds TLA+ models of these programs, the TLC configurations that
check them and the theorems that TLAPS proves. `PROJECT.json` maps every
definition to the lines it models and lists runs, findings and hazards.

## 1. Inventory

| part | state it keeps | operations | what must be right |
|---|---|---|---|
| driver, load and run (`penglai-enclave-ioctl.c` 13-69, 91-127; `penglai-enclave.c` 4-30) | none between calls but the TEE memory; per call the copied struct, the css buffer, the result | `PENGLAI_IOC_LOAD_AND_RUN_LINUX` | what reaches the monitor is what the caller handed over; nobody is killed but by what the code leaves open (races, addresses); success only for a started TEE; every call ends |
| driver, attestation (`penglai-enclave-ioctl.c` 71-89) | a report buffer per call | `PENGLAI_IOC_ATTEST_LINUX` | a caller takes for a report only what the monitor issued for its nonce |
| driver, module life cycle (`penglai-enclave-driver.c`) | the registered misc device | `enclave_ioctl_init`, `enclave_ioctl_exit` | the module stays while its device is open |
| secure monitor (submodule, not in the repository) | closed, open, booting, up; the image that runs | LOAD, RUN, ATTEST SBI calls | contract M1-M3 in `SecureMonitor.tla`, assumed |
| host library (`lib/src/penglai-enclave.c`, `lib/src/elf.c`) | device fd, parameter structs; fd, mapping, size of a file | init, load_and_run, attest, finalize; init, valid, destroy | results are read as the driver means them; each mapping is released once |
| host tool (`host/host.c`, `host/util.c`) | options, mapped files, report file | run, attest | the command lines of the usage text and no others; what was acquired is released |
| remote verifier (`remote/remote.c`) | report read from the file | one verification | "passed" only for an issued report |
| sign tool (`sign_tool/*.c`) | options, measurement, key, certificate file | sign (gendata, catsig and dump print that they are not supported); scan of a key; copy_file | a written certificate verifies and certifies the files; a key is read as printed; copies are whole |
| SM2 (`gm/src/SM2_sv.c`) | curve and base point, once set up | key generation, public key, sign, verify | verify accepts what sign makes and nothing else |
| SM3 (`gm/src/SM3.c`) | buffered bytes, chaining value, length | init, process, done | the digest does not depend on how input is cut, and is that of the standard |
| SM4 (`gm/src/SM4.c`, `SM4_Enc.c`) | round keys; the modes keep nothing | key schedule, encrypt, decrypt; CBC, OCB | decryption inverts; a changed message is not accepted |
| random numbers (`gm/src/Random.c`, `miracl/mrrand.c`) | the state of the generator | seed, fill a buffer | - |
| MIRACL (`gm/src/miracl`, third-party) | an instance: modulus and its constants, the curve, scratch numbers, a sticky error number | arithmetic of big numbers, of residues in Montgomery form, of points | every operation is that of the integers, the field, the group, whatever its operands share |
| image scripts, kernel configuration, firmware | files on disk | build steps | - |

How they interact. The sign tool measures image, device tree and load
addresses, signs the measurement with SM2 and writes a certificate (css). The host
tool maps the same files and gives them to the driver in one struct. The driver
copies the payloads to the memory of the TEE and calls the monitor, which
measures that memory, compares it with the css and starts the system. Later a
host asks for an attestation report with a nonce, writes it to
`digital_report.txt`, and the verifier reads that file and checks its signature
with SM2. SM2 hashes with SM3 and calculates with the points, residues and big
numbers of MIRACL.

What is hard to test here. The ioctl takes no lock, so several calls copy to
the same memory while the monitor opens and closes it; the parameter struct
stays writable by its owner during a call and its load addresses are used
unchecked; every step can fail and many results
are dropped (SBI errors, `kmalloc`, `fclose`, file loading, key parsing); hosts
and the verifier share one file without a lock; files change while they are
measured. In the library the rare carries, wrong trial quotients, equal or
opposite points, operands that are the same object and leftovers in scratch
numbers come up in one of 2^32 calls or never in a test. The list with lines is
in `PROJECT.json`, `hazards`.

## 2. Modules

### Driver, monitor, attestation, signing

`SecureMonitor` - the three SBI calls as the driver uses them. Its code is not
in the repository, so every definition is external. The contract: LOAD opens
the memory while no TEE runs (M1); RUN starts only what the css certifies in open
memory and closes it (M2); a refused call changes nothing (M3).

`PenglaiDriver` (EXTENDS `SecureMonitor`) - `penglai_load_and_run_linux` with the
ioctl entry and return, for any number of threads. One action per step another
thread can see:

| action | code |
|---|---|
| `IoctlEnter`, `IoctlReject` | `PLenclave_load_and_run`, checks and `copy_from_user` of the ioctl |
| `UserRewrites` | the struct is in user memory and belongs to the caller |
| `LoadLinux` | `kmalloc`, `load_linux`, the check of its result |
| `CopyChunk`, `CopyFaults`, `ClearChunk`, `CopyTraps` | `copy_from_user` to the load address: progress; an unreadable source, and the clearing of what is left, chunk by chunk; a target that is closed or not mapped |
| `HostFails` | a host whose own memory was written over goes down, at once or later |
| `CopyCss`, `CssRejected`, `CssTraps` | the size check, the copy of the css, a buffer that `kmalloc` did not deliver |
| `RunLinux` | regions into `tee_sbi_param`, `run_linux` |
| `CopyOut` | `kfree`, `copy_to_user` of the struct, the result |
| `BootStep` | the started system comes up (external) |

Payloads are sequences of chunks; a chunk is named by its source and its place in
it, so that a wrong offset, a missing chunk or a foreign one is visible. A css
*is* the image it certifies. Memory has three kinds of chunks, those of the TEE
(`Frame`), those of the kernel and its programs (`Host`) and those where nothing is mapped,
and the load addresses of a struct may be any of them, because nothing checks them
(ioctl.c:16-17, 27, 35): a store goes through (`Storable`) or traps. What a store to
`Host` destroys is not followed; it may end the host at any later time (`HostFails`).
Sizes of zero do not pass the library (`IoctlReject`); a caller that goes
around the library is not modelled, nor is an address that wraps around at 2^64.

`TeeService` - the abstract service of that path: a caller asks, the TEE starts
at most once and runs what that caller certified, only that caller hears success,
anyone may hear failure, and all may be gone at once.

`Attestation` (EXTENDS `SecureMonitor`) - hosts that run `attest`, the driver
handler, `write_data_to_file` and the verifier. A report is cut into the three
pieces that make it up in the struct (what it says of the TEE, the nonce,
the signature with the key); the file is a function from pieces to their
contents, so a file made of two reports is a state of the model. `OpenReport`
and `CloseReport` are the two moments the file changes (`fopen` with "wb", and
`fclose`, since the 680 bytes fit into the buffer of stdio). `AttestService` is the
abstract service: the monitor issues reports, a verdict of "passed" is about one
of them.

`SignTool` - the sign command from mapping the files to "Succeed.". One action
per call of `main` and `load_secure_linux`, and one per word that is hashed:
`HashImageAddress`, `HashImage`, `HashDtbAddress`, `HashDtb` feed the address, the words of the image, the
address, the words of the device tree, as `hash_sec_linux` does, with nothing between them that
would tell where one ends, so two splits of the same words share a measurement.
A measurement is the sequence that was fed: the hash itself is taken to be
injective, a signature is a free constructor. `Replace` (a new file of the same
name) and `Overwrite` (a write in place, also a cut or an extension) are whoever builds the files
meanwhile. The files are mapped privately, and pages that were not written to
follow the file, so an overwrite changes `memory` between two words; behind a cut end
are zeros. `Dies` is an early end (a key that is no key, a page behind the end of a
file cut short, a failed mapping, a user's signal). Junk memory of `elf_args` after a failing
`fstat` of an open file is left to `HostFiles`.

### Tools around their files

`CmdlineParse` - the option parsers of `host.c` and `sign_tool.c`, one algorithm
with two programs' tables, which are in the module as they are in the code (`Options`,
`Flag`), like the enumerations the callers index their arrays with (`file_path_t`): a
command, options in any order, repeated, without a path, unknown or invalid for the command,
the check that paths differ, and the rows that are written. `sign_tool` writes ten rows into
`path[8]` (sign_tool.c:22, 268); `path` in the model reaches two rows further, where
`Behind` stands for what was there. What these two rows damage is not followed. The next
word of a command line may be anything, so every command line is a behaviour.

`HostFiles` - `main` of the host from its locals to `clear_return`: the three
`elf_args`, the device, the ioctl it waits in, the end of the process; and the
module of the driver that is loaded and unloaded below it. Every early return of
`elf_args_init` is a disjunct, on memory of `malloc` that may hold anything: a `MAP_FAILED`,
or a pointer left by someone else, that `elf_valid` lets pass goes on to the driver,
and `munmap` of an address where nothing is mapped does nothing (that something of another
owner were mapped at a junk address is not modelled).

`CopyFile` - `copy_file` by several programs to one destination: `O_EXCL`, short
reads and writes, EINTR, errors. Bytes are named by their place in the source.

`KeyText` - the scan of the text OpenSSL prints for a key, with the digit that is
left over between separators, line ends inside the key, the mark byte of a
public key and what follows the key. How OpenSSL prints is external.

`MCTools` EXTENDS the four and puts them on small instances side by side: a
behaviour chooses its `part` and the other variables rest, so that one run covers
all of them. The properties it checks are those of the four modules.

### The library gm

`SM3Stream` - context, buffer, padding and length of SM3 around any compression
function; `SM3Digest`, the abstract specification, says that a digest is a
function of the bytes absorbed. `SM3Compress` - expansion and rounds on 32-bit
words (`Words`: bytes, rotations, xor by halves, since TLC's integers have 32 bits
with the sign).

`SM4Cipher` - key schedule, encryption and decryption round by round, over any
words, round functions and constants; `SM4Words` - the tables and the round
functions of the code. `SM4Modes` - CBC and OCB over any permutation of blocks, a
sender and a receiver with a channel between them that may change one byte of what is sent
or lose its end. The table of offsets has just the rows the code computes: a block
that asked for another row would be an error of the evaluation. Left out are messages
for which it has no rows at all (section 5), and channels that make such a
message out of a longer one.

`Sm2Signature` - `SM2_sv.c` with every error return, in the order of its tests:
key generation, keys loaded from a file (any number, since the parser does not
look at it), signing with any nonce the generator may draw, verification of
anything. The curve is the ideal group of `CurveGroup` with a base point that
`SM2_Init` has found to be of order N, and the inverse modulo n is any number that
`xgcd` may leave. That a public key could not be made is ignored by the signer, and
the model does the same.

`MCGm` EXTENDS them and puts them on small instances side by side, like `MCTools`,
and the cipher and the compression function also on the data of `SM4_SelfCheck` and
`SM3_SelfTest`.

### MIRACL

Three layers, each with an abstract specification, the algorithms as operators
and a machine whose actions are the calls of a program:

| layer | algorithms | machine | abstract specification |
|---|---|---|---|
| big numbers | `MiraclBig` (mrcore.c), `MiraclArith` (mrarth0-2.c), `MiraclPowers` (mrarth1, mrarth3, mrbits.c), `MiraclEuclid` (mrxgcd.c, mrjack.c) | `MiraclCalc` | `IntegerCalc` |
| residues | `MiraclMonty` (mrmonty.c), `MiraclRoots` (mrlucas.c, mrsroot.c) | `MontyCalc` | `FieldCalc` |
| points | `MiraclCurve` (mrcurve.c, the windows of mrcore.c) | `CurveCalls` | `CurveGroup` |

A number is an array of words, a length and a sign, and the memory maps *names*
to numbers: a C function is an operator on the memory and the names of its
operands, so that operands that are the same number are the same name and the
shared scratch numbers `w0` to `w15` are visible. `ERNUM` and the overflow check are
fields of the memory. Loops that carry a word are functions of their step (`Carried`, `Chain`). A
residue is kept in Montgomery form over words; a point is its marker with the
coordinates that the marker gives a meaning, its coordinates being residues in that form
(one word deep: `MiraclCurve` stands on the field that `MontyCalc` has checked).

The machines only *pose* a call: an action chooses the operation and its
operands, and the properties say what the library makes of that call,
`[][\A m \in {...} : ...]_vars`, by running the algorithm on the memory. Nothing
is lost: the numbers a call starts from are any (`Init` enumerates them, in every
representation the library may hold), junk of both kinds is in the scratch numbers,
and a call that follows another one starts from numbers the properties have
shown to be again of the kind `Init` enumerates (`KeptForm` in `BasicsExact` and `Implements`, `Reduced`, `Sound`).
The same style is used for `SM4Modes`.

Most files of `gm` exist twice, in `remote/gm` and `sign_tool/gm`, byte for byte the
same. The map gives the algorithms to the copy of the sign tool and the calls
and machine actions to the copy of the verifier.

Operators such as `ResultPreset`, `LastChunkShort` or `NegateZero`, each before the
definition it changes, are plausible mistakes; put in place of that definition
they break the property `PROJECT.json` lists with them.

## 3. Runs

| run | instance | what it shows |
|---|---|---|
| `driver_pair` | two threads, fairness, two structs: a good one over three of four chunks, and one whose bin lies inside the bin of the first while its dtb goes over memory of the host and ends where nothing is mapped | `RegionsFilled`: what a call copied is there at RUN unless another call wrote over it. `DeadOnlyByRaceOrAddress`: a thread is killed in the handler only for want of a buffer, because another call started the TEE, or through an address outside the memory of the TEE, its own or another's. `UndisturbedRunStarts`: a certified payload nobody wrote over is not refused. `ImplementsService`. `EveryCallEnds` |
| `attest_torn` | two hosts, two nonces, two custom fields, at most three reports, a disk that may fill | `WritesOwnReport`; `CalmVerificationPasses`: what earlier writers left and what the verifier's stack held make no difference to an undisturbed verification; `ImplementsAttestService`: torn files are never passed |
| `sign_runs` | words of two values, images of one or two words, device trees of one, every layout, a disk that may fill | `OutputVerifies`: a complete certificate verifies. `CertifiesWhatWasOpened`: it certifies both addresses and, of each file, the contents it was opened with, unless just that file was written over before its hash was through |
| `host_tools` | four parts, below | `AcceptsTheUsage`, `PathsAsTyped`: exactly the command lines of the usage text are taken and every path is where its reader looks, within the array or behind it. `SubmittedOwnFiles`, `ReleasedAtReturn`. `Prefix`, `CopiedMeansWhole`: at any moment the copy is a beginning of the source. `KeyAsPrinted` |
| `gm` | six parts, below | `ImplementsDigest`; `Inverts`; `SelfCheckPasses`, `SelfTestPasses`; `CBCReturns` with the errors of the way contained in two blocks, `OffsetIsStandard`, `AcceptsOnlyTheTag`; `SignedVerifies`, `AcceptsOnlySignatures` |
| `big_numbers` | three words of three bits | `BasicsExact`, `Implements` `IntegerCalc`: every operation, with every overlap of operands, gives the integers their operation does, or fails only because the result does not fit or exist, and leaves the kept form: no sign on zero, no leading zero words, nothing above the length. `BasicsExact` is the part about copies, sums, differences, comparisons, conversions, products, quotients and divisibility, `Implements` the rest |
| `residues` | words of four bits, moduli of one and two words | `Implements` `FieldCalc` with empty and with full scratch numbers; `Reduced`: residues are below the modulus, what single corrections take for granted |
| `curve_points` | ten small curves, some with points of order two, in affine and projective coordinates | `Implements` `CurveGroup` for single points, pairs, multiples through the table of odd multiples, and joint multiples; `Sound`: coordinates in range, a Z that can be divided by, points of the curve, no error |
| `driver_reply` | one thread; refusals with an error and the value 0 | violation: `SuccessMeansStarted`, a refused RUN is success for the host |
| `driver_small_css` | one thread | violation: the check with the message "css file is too small" looks at the dtb |
| `attest_full_disk` | one host | violation: "success to write digital report" without the report in the file |
| `sign_unloaded` | as `sign_runs` | violation: a file that cannot be loaded does not stop the signer |

`host_tools` has four parts: the command lines of the host and of the signer, two
hosts with the module of the driver, over junk memory and with mappings that may
fail, three programs that copy seven bytes through a
buffer of three, and keys of three bytes of base-3 digits. `gm` has six: the
cipher on two-bit words under 16 keys and all 256 blocks, the same on the data of
`SM4_SelfCheck`, streams of up to 13 bytes in blocks of six in five kinds of pieces,
`SM3_SelfTest`, the modes on blocks of four bytes of two bits, and the signature
on a curve of order 11. Parts do not share state, so their union reaches just what
four or six runs would.

Bounds. Two threads are enough for every pairwise race of the driver: a call is
disturbed by *some* other call. One chunk of the host and one that is not mapped
are enough for an address to be wrong in both ways, in one dtb. Four chunks let the regions of two payloads
overlap in part, with a bin of two chunks so that a copy can be interrupted
half-way. `CssSize` is 1 in the run where every dtb passes the size check and 2 where
`AllStructs` must hit both sides of it; the unit is a chunk. `FewReports`
(three) bounds the history variable `issued`: a torn file needs two reports and the
third is a whole one beside it. The signer's memory starts afresh in every run,
so two values of a word are enough to tell contents apart, and `FewOutputs` starts it again
only over no output or one without a measurement, since `Begin` does not look
at the output; two words of an image are the least that an overwrite can come
between. `FewLines` lets words of a command line come in one order, at most one of them
a second time, because the parser only asks whether two paths are equal, and lets
the options of the signer come in the order of its table (those of the host come in
any order; the proofs have no such bound). Seven bytes through a buffer of
three need two full reads and a short one. Blocks of the hash are small but keep
the proportions that matter (a length field, a mark that just fits or does
not). The order 11 is below the modulus 17, so that coordinates and
digests exceed it as they may in SM2. Words of MIRACL are three or four bits wide:
carries, borrows, wrong guesses of quotients and Lehmer steps over several words
then come up all the time instead of once in 2^32; the algorithms know the
width only by `W` and `nib`. Symmetry is used for safety only (threads; hosts,
nonces and custom fields).

What a machine does not ask (each a condition on the action that poses the call,
with its comment): a quotient by `mad` that does not fit; the first result of
`nres_lucas` in the number the sequence starts from; roots and quotients of
several residues for a modulus that is no prime; the root with low bit 1 of zero;
joint multiples with a point at infinity; OCB messages for which the table of
offsets has no rows, sent or arriving; big operands of `xgcd` with a sign. Section 5 says what
the code does there. No code of the repository asks for any of these.

Deadlock is not checked where the system may stop: all threads killed, a
host with nothing left to ask, a parser or a copy at its end, a program after
its call.

Fairness. `driver_pair` assumes weak fairness of `KernelStep(t)` for each thread:
the scheduler keeps running a thread that is inside the kernel. Nothing is
assumed of user space, of the boot of the TEE or of the answers of the monitor. The
handler waits for nothing another thread does.

## 4. Proofs

A component's theorems are in a module of their own (`PenglaiDriver_proofs`,
`Attestation_proofs`, `SignTool_proofs`, `Tools_proofs`, `Gm_proofs` for hash, signature,
cipher and modes, `Miracl_proofs` and, for the division, `MiraclDivide_proofs`);
`NumberLemmas` has what they need of numbers: induction, quotients and rests, congruence. All theorems hold for every value of the
constants under the ASSUMEs of the modules, which TLC evaluates on every instance:

| assumption | what it says |
|---|---|
| `DriverAssumption` | the memory of the TEE and that of the host are apart; structs have the shape of `Param`, with any load addresses; `Nothing` is not an image |
| `RepliesAssumption` | refused replies carry an error |
| `AttestationAssumption` | `Nothing` is neither a report nor a piece of one |
| `SignToolAssumption` | addresses and zero are words; `Nothing` is no word and no measurement, `Junk` no key |
| `NullAssumption` | NULL is not the address of a struct |
| `SizeAssumption` | sizes are natural, the buffer of a copy is not empty |
| `WordsAssumption` | a path is not NULL and not an option |
| `DigitsAssumption`, `KeyAssumption` | digits are different characters and no separators; sizes of a key and of a line are natural |
| `LayoutAssumption`, `PiecesAssumption` | a block of the hash has room for its length field and is made of words; pieces are bytes |
| `RoundsAssumption`, `XorAssumption`, `RoundAssumption`, `ConstantAssumption` | four rounds or more; xor of words cancels; round functions and constants give words |
| `ModesAssumption`, `ModesXorAssumption`, `PermutationAssumption` | blocks have an even number of bytes and half a block a power of two of bits (64); xor of bytes is xor of their bits; the cipher permutes blocks, decryption being its inverse |
| `SizesAssumption`, `ByteAssumption`, `ProgramsAssumption` | a word of MIRACL has a bit and a number a word, `TooBig` is not above what a word holds, bytes divide a word; the program's numbers fit and are none of the scratch numbers |
| `NumbersAssumption`, `GroupAssumption`, `HashAssumption` | every number below N has an inverse modulo N (N is prime); the points are closed under an associative sum; digests are natural |

Driver. Three of its theorems need `RefusalsNegative`: a refused SBI call carries
a negative value. That is just what the driver takes for granted when it drops
`ret.error`; section 5 says what happens without it.

| theorem | inductive argument |
|---|---|
| `TypeCorrect` | `Typed`: types, and the next chunk lies in the part being copied |
| `RegionsFilledCorrect` | inductive with `Typed`; every write is the thread's own next chunk or is recorded in `disturbed` of the others |
| `DeadOnlyByRaceOrAddressCorrect` * | `RaceInv`: a call that has its LOAD may write to the memory of the TEE until another call's RUN, which sets `raced`; a store anywhere else traps by its own address or sets `strayed` |
| `UndisturbedRunStartsCorrect` * | `StartInv`: filled regions, `CssKept` and `RaceInv` give memory equal to the certified payload |
| `ImplementsServiceCorrect` * | `OutcomeInv` (the result on its way out agrees with what happened) and `ServiceInv`, then one step of `TeeService` or a stutter for each action |

(* under `RefusalsNegative`.) `DeadOnlyByRaceOrAddress` needs it too: a LOAD refused with
value 0 would send the copy to closed memory.

Attestation. `TypeCorrect`; `WritesOwnReportCorrect`, by itself inductive with
`Asked` (a request carries a nonce); `ImplementsAttestServiceCorrect` from
`GenuineInv`: pieces in the file and in the verifier's struct are pieces of
issued reports in their own places. The verifier needs only that the signature
was made for the bytes it holds, since then the report the signature
belongs to is the one it read. `CalmVerificationPassesCorrect` is the other direction,
from `CalmInv`: while nobody writes, what the verifier has read agrees with a
whole file, and it does not stop before it has all of it.

Signer. `OutputVerifiesCorrect` from `CheckedInv` (what is being written has
verified); `CertifiesWhatWasOpenedCorrect` from `MeasureInv`: after n words the hash was fed the
beginning of the sequence that the two addresses and the two mappings make, in every word of
a file that nobody wrote over since it was mapped; `TypeCorrect` from `MeasureInv` and
`Records` (what signs is a key, what is signed a measurement or junk).

Host files. `ReleasedAtReturnCorrect` from `HostInv`, whatever fresh memory holds and
whether or not mappings succeed: what is open or mapped hangs on a struct until
`clear_return`, and the device is open only inside a command.
`SubmittedOwnFilesCorrect` from `MapInv`, without a hypothesis either: the pointer of every
file main has passed is its own mapping, or one at which nothing is mapped.

Copy. `CopyTypeCorrect`, `PrefixHolds`, `CopiedIsWhole` from `CopyInv`, for any number
of programs and any sizes of file and buffer: places of reads and writes agree, and
`O_EXCL` leaves one owner.

Command lines. `AcceptsTheUsageCorrect`, `PathsAsTypedCorrect` from `LineInv`, for the
tables of both programs, any paths and lines of any length: the words read so far are a command and m
different options, each with its path, and the table holds just these (`ReadTo(m)`). That the enumerators stand in the order of
the tables, ten of them over eight rows, is part of the proof.

Key text. `KeyAsPrintedCorrect` from `KeyInv`: when k bytes of what was printed are
read, the scan stands in the gap before the next one, after its first digit, or
after both, whatever line ends and separators come between; and since the text behind the key
is not read, it may be anything that OpenSSL prints there.

SM3. `ImplementsDigestCorrect` from `StreamInv`: in an open context the chaining value is
that of all full blocks put in so far, the buffer holds the rest, the length counts
both (modulo its width). The padding then fills the last block or the last two
just as the padded message does, so each step is one of `SM3Digest`.

Cipher. `DecryptInverts` and `UnwindingHolds` for any round function, number of
rounds and word size: the array of decryption mirrors that of encryption, round by
round, because the round keys are in reversed order and xor cancels.

Modes. `CBCReturnsCorrect` and `AcceptsOnlyTheTagCorrect` from `ModesInv` (what the two
ends have put into their calls, and one change at most between them), for every
length of message and data and every permutation of blocks. CBC: byte p of block j is
byte L * j + p, and a ciphertext block is used by its own decryption and by the
next xor and nowhere else. OCB: `TableSuffices` - the table has every row a block of
message or data asks for, so every offset is a block; under the same offsets the two
directions undo each other, also on the rest, so that what is accepted is what
encryption makes of the text that came out. Acceptance is judged against the code's own
encryption; that this starts where the standard says is `OffsetIsStandardCorrect`, bit by
bit: a number is its bits (`SameBits`), so the code's xor of a byte with its own low bits
clears them (`XorClears`) and its pieces of two neighbouring bytes are the bits at a place
of the stretched block (`ByteJoin`, `StretchedIs`); bit q of the offset is bit q + bottom of
the stretch, in the same byte or the next one (`JoinedBit`).

SM2. `SignedVerifiesCorrect` and `AcceptsOnlySignaturesCorrect` from `SignatureInv` (the
signature was made with the key that belongs to the public key), for every group of
prime order, hash, key in range and nonce. Multiples of a point add, so the point
the verifier computes is the multiple of the base point by s + t * d, which is the
nonce of exactly the signatures that satisfy the equation of the signer.

MIRACL. `BasicsExactCorrect` holds for every width of a word, every number of words and every
overlap of the operands, junk in the scratch numbers included. The value of a number
is that of its words one by one (`LowIs`, `LowMore`, `LowTop`). A carry read off a
sum of words is right even when the sum equals the word (`CarryIs`, likewise `BorrowIs`), so words and
carries together are the sum (`LowSum`). The result may be one of the operands because
`mr_padd` and `mr_psub` first copy an operand into it, and a copy is whole only if the words above
lengths are clear: that is why the kept form (`Good`: clear upper words, no leading zero
word, no sign on zero) is part of every lemma, and `SumIntoIs` and `DiffIntoIs` prove
it again of the result. Lengths decide as values do (`LengthTells`), which gives the
comparison (`CompareIs`) and the exact border of an overflow: it is raised just when
the value does not fit. `SignIs` is the table of `mr_select`.

Products and quotients by one word (`mr_pmul`, `mr_sdiv`, `subdiv`'s halving) are the words and
carries of one loop, added up against the powers of the base (`LowCarried`, `DividedIs`);
`remain` may take the lowest word alone because the others count multiples of n
(`LowRestIs`). A row of `multiply` adds one word's product above the words that are done
(`RowIs`), and the rows together are the product (`SchoolIs`). The square has three
steps: the products above the diagonal, half of what is missing (`CrossedIs`);
their double by `mr_padd`, which must find a word of room above them (`DoubledIs`); and the squared words,
where the carry out of the second word is read off a comparison again and the last one must
be 0 because nothing is left above it (`AddSquareIs`, `SquareBelow`, `SquaredIs`). `multiply` refuses two numbers by their
lengths, so it may refuse a product that fits, but none below the base to the power
nib - 1 (`ProductSized`): that is the `Coarse` of `IntegerCalc`.

Quotients by numbers of several words (`divide`). A scaled divisor has its top bit set.
A quotient word is guessed from the top words of what is left and of the divisor and
refined with the next word; the refined guess is never too small and at most one too
large (`DigitBounds`). Taken off, a guess that is too large leaves a borrow above the top word and one
that is right leaves none, so the comparison of that word with the borrow tells them
apart and adding the divisor back makes up for it (`OneDigitIs`). What is left stays below the
divisor times the base from word to word, so the words together are the quotient (`QuotientWordsIs`), the rest
divided by the scale is the remainder, and the lengths that are cut come out in the kept
form (`LongDivisionIs`). A divisor of one word takes the path of `mr_sdiv`, a quotient of one small
digit that of at most eight subtractions (`LessOnce`). `divisible` asks whether the remainder is zero.

Induction. The library's induction rules take an operator, which the provers cannot
instantiate. `SetInduction` says the same of a set of numbers, from the least
element of a set that is not empty, and `RowOfSteps` says that a row of values,
each made from the one before, exists for every length; with it the recursive
functions of the hash, the modes and the multiples of a point can be reasoned about.

Only model-checked: `EveryCallEnds` (liveness and fairness are beyond the provers);
`SelfCheckPasses` and `SelfTestPasses`, which are about the fixed tables and test data of the code; the compression
function of SM3, that has no specification but its standard; and of MIRACL `mad` (a
product longer than a number, divided at once), shifts, powers, gcds, residues and points (`Implements`), whose runs step through
the calls of all small operands instead. Some of them could not be stated for every size:
`IntegerCalc` defines logarithms, roots, gcds and characters by a search up to a fixed bound.

## 5. What is found

Shown by a run:

1. `penglai-enclave-ioctl.c:43`: the size check for the css looks at `dtb_size`.
2. `host/util.c:60`: a report that `fclose` could not write counts as written.
3. `sign_tool.c:41`: an invalid file leaves `ret` at 0 and the signer goes on.
4. `penglai-enclave.c:28` returns the value of a failed SBI call and drops its error. A
   monitor that answers with error -2 and leaves the value at 0 makes the host hear success for a
   TEE that was not started (`driver_reply`). `driver_pair` and three theorems
   assume negative values.

Met while modelling, and not part of a run:

- `penglai-enclave-ioctl.c:16-17, 27, 35`: the load addresses of the caller's struct
  are not checked. A copy goes over memory of the host, or traps in the kernel where nothing
  is mapped (`DeadOnlyByRaceOrAddress` names both).
- `sign_tool.c:344` drops the result of writing the certificate, and "Succeed." is
  printed for none.
- `elf.c:28` leaves `MAP_FAILED` in the struct, and a failing `fstat` whatever was in fresh
  memory; `elf_valid` asks for a pointer that is not NULL, so the driver gets an address
  that is not mapped (`SubmittedOwnFiles` names the case; the copy of the driver then fails with
  `-EFAULT`).
- `sign_tool.c:268` writes one path per option of the table, ten, into an array of
  eight rows (`sign_tool.c:22`), and `:312` reads the tenth again. `PathsAsTyped` shows that the paths
  come out right nevertheless; what lies behind the array is overwritten.
- `attest.c:19-50` hashes addresses and contents without their lengths. The measurement stays
  the same when the last word of the image is taken for the address of the device tree and
  that address for the tree's first word.
- `SM4_Enc.c:20` defines `ocb_ntz_round(a)` as a conditional without parentheses, so
  that the table of offsets has no rows for messages and data shorter than a
  block (`:205`), and its row 0 is used (`:212-217`). A nonce of 16 bytes gives index -1.
- `Random.c:35-38`: the seed that a caller sets is replaced when `SM2_Init` calls
  `mirsys`, which seeds the generator itself (`mrcore.c:1275-1281`), and setting it
  after `SM2_Init` wipes the curve, so that the next operation finds no modulus.
- SM2 never looks at `ERNUM` and takes any key file for a key. The private key n-1
  has no signature; its check is left to the verification at the end of the tool.
- `SM2_Verify` takes signatures made with the nonce 0, which `SM2_gen_random` never
  draws.
- `SM3_process` counts bytes in an `int` (`SM3.c:263`).
- MIRACL: `tconvert` (`mrcore.c:736`) leaves words of the number it replaces; `isqrt` of
  the largest word comes out as 0 from some guesses (`:1905-1919`); `xgcd` of
  a negative number gives a cofactor up to twice the other number; the root 0 asked for
  with low bit 1 leaves a coordinate equal to the modulus (`mrcurve.c:169`);
  `ecurve_mult2` takes a point at infinity for a finite one (`:1447`); `epoint_set`
  overwrites the coordinates of a point it refuses and leaves its marker, so that a finite
  point is one off the curve, or has a Y equal to the modulus (`Spoilt` of `CurveCalls`, the
  exception in `Sound`; a point at infinity stays one); `nres_div3` and `nres_div5` add the
  modulus until a number overflows when 3 or 5 divides the modulus, and `ERNUM` ends
  the loop; `nres_lucas` writes its first result before it reads its operand when r
  is 1; `power`, `nres_modmult` and `nres_negate` change their result before they look
  at `ERNUM`. Nothing in the repository depends on any of them.

## 6. What is not modelled

The monitor itself (not in the repository); the boot scripts, kernel configuration and
firmware (not part of the running system). Of MIRACL: arithmetic of GF(2^m) and of
extension fields beyond `nres_complex` and `nres_lazy`, rational and floating numbers, text input and
output, primes, memory allocation and the assembler variants, none of which
the repository calls, and the generator (`mrrand.c`, `Random.c`), of which SM2 needs
only which numbers may come out. `SM2_SelfCheck` (its data needs 256-bit numbers). Wording of
messages, `printHex` and logging are left out everywhere. In `Attestation` and
`SignTool` cryptography is ideal: hash and signature are constructors, and
`SM2_Verify` is taken at its word; in `Sm2Signature` the hash is a constant. The nonce of a
report is never compared by the verifier, so no property speaks of the freshness
of a report.

## 7. Plan

1. Proof that `redc` leaves a residue: one subtraction is enough, and the two carries of a
   row are one word.
2. A composition of signer, host and driver: from a quiet signing run to a start
   of the TEE with the same files.
