------------------------------ MODULE SignTool ------------------------------
(***************************************************************************)
(* "penglai_sign sign" (sign_tool/sign_tool.c, attest.c): measure the       *)
(* image and the device tree, read the developer's key, sign the           *)
(* measurement, verify the signature and write the certificate             *)
(* (enclave_css_t) to the output file.                                     *)
(*                                                                         *)
(* The files are shared with whoever builds them, who may replace them or  *)
(* write over them at any time.  A measurement is the sequence of words    *)
(* the hash was fed, and a signature is what it was made of.               *)
(***************************************************************************)
EXTENDS Naturals, Sequences

CONSTANTS
    Word,        \* what eight bytes of a file may hold, or a load address
    Address,     \* the load addresses a command line may give
    Zero,        \* the word of zeros
    ImageSize, DtbSize,  \* words of the longest image and device tree
    Key,         \* the developer's keys
    Nothing,     \* no file, no word
    Junk,        \* what the stack and malloc held
    DiskMayFill  \* whether the file system can run out of space

VARIABLES
    disk,        \* the image and the dtb file
    css,         \* the output file, part by part
    pc,          \* where main is
    layout,      \* strtol(path[IMAGE_LDADDR]), strtol(path[DTB_LDADDR])
    memory,      \* what is at bin_ptr and dtb_ptr, Nothing past the end of the file
    linked,      \* whether what is mapped is still the file of that name
    fed,         \* hash_ctx
    private,     \* private_key
    cert,        \* enclave_css
    loaded,      \* history: both files were mapped and measured
    calm         \* history: what was mapped was not written to until it was measured

vars == <<disk, css, pc, layout, memory, linked, fed, private, cert, loaded, calm>>

ASSUME SignToolAssumption ==
    /\ DiskMayFill \in BOOLEAN
    /\ ImageSize \in Nat /\ DtbSize \in Nat
    /\ Address \subseteq Word /\ Zero \in Word
    /\ Nothing \notin Word /\ Nothing \notin Seq(Word)
    /\ Junk \notin Key

File == {"image", "dtb"}
Part == {"hash", "signature", "key"}

\* An empty file is as good as none.
Content(f) == UNION {[1 .. n -> Word] : n \in 1 .. IF f = "image" THEN ImageSize ELSE DtbSize}

Measurement(h) == h = Junk \/ h \in Seq(Word)
Typed(part, v) == CASE part = "hash" -> Measurement(v)
                    [] part = "signature" -> v = Junk \/ (Measurement(v.of) /\ v.by \in Key)
                    [] part = "key" -> v \in Key \cup {Junk}

JunkCert == [p \in Part |-> Junk]
NoCert == [p \in Part |-> Nothing]

TypeOK ==
    /\ \A f \in File : disk[f] \in Content(f) \cup {Nothing}
    /\ \A p \in Part : css[p] = Nothing \/ Typed(p, css[p])
    /\ pc \in {"idle", "image", "dtb", "image address", "hash image", "dtb address", "hash dtb",
               "key", "sign", "verify", "write", "close", "done"}
    /\ layout \in [File -> Address]
    /\ \A f \in File : memory[f] \in Seq(Word \cup {Nothing})
    /\ linked \in [File -> BOOLEAN]
    /\ fed \in Seq(Word)
    /\ private \in Key \cup {Junk}
    /\ \A p \in Part : Typed(p, cert[p])
    /\ loaded \in BOOLEAN /\ calm \in [File -> BOOLEAN]

Init ==
    /\ disk \in {[image |-> i, dtb |-> d] : i \in Content("image") \cup {Nothing}, d \in Content("dtb") \cup {Nothing}}
    /\ css = NoCert
    /\ pc = "idle"
    /\ layout \in [File -> Address]
    /\ memory = [f \in File |-> <<>>]
    /\ linked = [f \in File |-> FALSE]
    /\ fed = <<>>
    /\ private = Junk
    /\ cert = JunkCert
    /\ loaded = FALSE
    /\ calm = [f \in File |-> TRUE]

-----------------------------------------------------------------------------
(* Whoever builds the files, and the command line *)

\* A new file of the same name, or none: the mapping keeps the old one.
Replace(f) ==
    /\ \E v \in Content(f) \cup {Nothing} : disk' = [disk EXCEPT ![f] = v]
    /\ linked' = [linked EXCEPT ![f] = FALSE]
    /\ UNCHANGED <<css, pc, layout, memory, fed, private, cert, loaded, calm>>

\* From the mapping of a file to the end of its measurement.
Reading == [image |-> {"dtb", "image address", "hash image"},
            dtb |-> {"image address", "hash image", "dtb address", "hash dtb"}]

\* The file is written in place, also cut or extended: a private mapping that is
\* only read shows what the file holds now, as far as it was mapped.
Overwrite(f) ==
    /\ disk[f] # Nothing
    /\ \E v \in Content(f) :
          /\ disk' = [disk EXCEPT ![f] = v]
          /\ IF linked[f] /\ pc \in Reading[f]
             THEN /\ memory' = [memory EXCEPT ![f] = [i \in DOMAIN memory[f] |->
                                                     IF i \in DOMAIN v THEN v[i] ELSE Nothing]]
                  /\ calm' = [calm EXCEPT ![f] = FALSE]
             ELSE UNCHANGED <<memory, calm>>
    /\ UNCHANGED <<css, pc, layout, linked, fed, private, cert, loaded>>

\* A new process: nothing in its memory is set.
Begin ==
    /\ pc = "idle"
    /\ pc' = "image"
    /\ layout' \in [File -> Address]
    /\ memory' = [f \in File |-> <<>>]
    /\ linked' = [f \in File |-> FALSE]
    /\ fed' = <<>>
    /\ private' = Junk
    /\ cert' = JunkCert
    /\ loaded' = FALSE
    /\ calm' = [f \in File |-> TRUE]
    /\ UNCHANGED <<disk, css>>

-----------------------------------------------------------------------------
(* load_secure_linux *)

\* A file that is missing or empty sends it to "out" with ret still 0, which
\* main takes for success.
AfterBadFile == "key"

\* elf_args_init opens a file, asks its size and maps that much.  Where the
\* mapping fails, the first look at it ends the process (Dies).
Map(f, next) ==
    /\ IF disk[f] = Nothing
       THEN pc' = AfterBadFile /\ UNCHANGED <<memory, linked>>
       ELSE /\ pc' = next
            /\ memory' = [memory EXCEPT ![f] = disk[f]]
            /\ linked' = [linked EXCEPT ![f] = TRUE]
    /\ UNCHANGED <<disk, css, layout, fed, private, cert, loaded, calm>>

LoadImage == pc = "image" /\ Map("image", "dtb")
LoadDtb == pc = "dtb" /\ Map("dtb", "image address")

-----------------------------------------------------------------------------
(* hash_sec_linux.  The words of a file are hashed one after the other, in     *)
(* pieces of hash_granularity bytes, while the file may be written to.        *)

\* Behind the end of a file that was cut its last page shows zeros; a page
\* further on ends the process (Dies).
\* Mutants: those zeros are taken for nothing; the file is looked at by its name
\* again.
SeenNothing(f, i) == memory[f][i]
NamedNow(f, i) == IF disk[f] # Nothing /\ i \in DOMAIN disk[f] THEN disk[f][i] ELSE Zero
Seen(f, i) == IF memory[f][i] = Nothing THEN Zero ELSE memory[f][i]

Feed(word, next) == /\ fed' = Append(fed, word) /\ pc' = next
                    /\ UNCHANGED <<disk, css, layout, memory, linked, private, cert, loaded, calm>>

HashImageAddress == pc = "image address" /\ Feed(layout["image"], "hash image")
HashDtbAddress == pc = "dtb address" /\ Feed(layout["dtb"], "hash dtb")

HashImage ==
    /\ pc = "hash image"
    /\ LET i == Len(fed)
       IN  Feed(Seen("image", i), IF i = Len(memory["image"]) THEN "dtb address" ELSE "hash image")

\* With the last word goes SM3_done.
HashDtb ==
    /\ pc = "hash dtb"
    /\ LET i == Len(fed) - Len(memory["image"]) - 1
       IN  /\ fed' = Append(fed, Seen("dtb", i))
           /\ IF i = Len(memory["dtb"])
              THEN pc' = "key" /\ loaded' = TRUE /\ cert' = [cert EXCEPT !["hash"] = fed']
              ELSE UNCHANGED <<pc, loaded, cert>>
    /\ UNCHANGED <<disk, css, layout, memory, linked, private, calm>>

-----------------------------------------------------------------------------
(* The rest of main.  The results of parse_priv_key_file, SM2_make_pubkey,  *)
(* SM2_Sign and write_data_to_file are dropped; only verify_sec_linux counts. *)

ParseKey ==
    /\ pc = "key"
    /\ pc' = "sign"
    /\ \E k \in Key :
          /\ private' = k
          /\ \E p \in {k, Junk} : cert' = [cert EXCEPT !["key"] = p]
    /\ UNCHANGED <<disk, css, layout, memory, linked, fed, loaded, calm>>

Sign ==
    /\ pc = "sign"
    /\ pc' = "verify"
    /\ \E s \in {[of |-> cert["hash"], by |-> private], Junk} :
          cert' = [cert EXCEPT !["signature"] = s]
    /\ UNCHANGED <<disk, css, layout, memory, linked, fed, private, loaded, calm>>

\* verify_sec_linux: the signature is of the hash and by the key in the struct.
Verifies(c) == c["signature"] = [of |-> c["hash"], by |-> c["key"]]

VerdictAny(c) == TRUE
Verdict(c) == Verifies(c)

Verify ==
    /\ pc = "verify"
    /\ pc' = IF Verdict(cert) THEN "write" ELSE "idle"
    /\ UNCHANGED <<disk, css, layout, memory, linked, fed, private, cert, loaded, calm>>

\* fopen may fail, or cut the file to nothing.
OpenOutput ==
    /\ pc = "write"
    /\ \/ css' = NoCert /\ pc' = "close"
       \/ pc' = "done" /\ UNCHANGED css
    /\ UNCHANGED <<disk, layout, memory, linked, fed, private, cert, loaded, calm>>

\* What fclose gets to the disk of the struct stdio has buffered.
Taken == IF DiskMayFill THEN {{}, {"hash"}, {"hash", "signature"}, Part} ELSE {Part}

CloseOutput ==
    /\ pc = "close"
    /\ pc' = "done"
    /\ \E w \in Taken : css' = [p \in Part |-> IF p \in w THEN cert[p] ELSE Nothing]
    /\ UNCHANGED <<disk, layout, memory, linked, fed, private, cert, loaded, calm>>

\* "Succeed." is printed and main returns 0.
Finish ==
    /\ pc = "done"
    /\ pc' = "idle"
    /\ UNCHANGED <<disk, css, layout, memory, linked, fed, private, cert, loaded, calm>>

\* The process ends early: a key file that is missing or no key makes OpenSSL
\* work on a null pointer, a mapped file may be cut short, a user may stop it.
Dies ==
    /\ pc # "idle"
    /\ pc' = "idle"
    /\ UNCHANGED <<disk, css, layout, memory, linked, fed, private, cert, loaded, calm>>

-----------------------------------------------------------------------------
Next ==
    \/ \E f \in File : Replace(f) \/ Overwrite(f)
    \/ Begin \/ LoadImage \/ LoadDtb
    \/ HashImageAddress \/ HashImage \/ HashDtbAddress \/ HashDtb
    \/ ParseKey \/ Sign \/ Verify \/ OpenOutput \/ CloseOutput \/ Finish \/ Dies

Spec == Init /\ [][Next]_vars

-----------------------------------------------------------------------------
(* Properties *)

Whole == \A p \in Part : css[p] # Nothing

\* A complete certificate verifies, whatever step of the run that wrote it
\* failed unnoticed (no public key, no signature), and whatever run failed
\* after it.
OutputVerifies == Whole => Verifies(css)

\* A run that gets its certificate to the disk has certified both load addresses
\* of its command line and, of each file, the contents it was opened with, word
\* for word, unless just that file was written in place before its measurement was
\* through; new files of the same names do no harm.
CertifiesWhatWasOpened ==
    pc = "done" /\ loaded /\ Whole /\ css = cert =>
      LET h == css["hash"]
          n == Len(memory["image"])
      IN  /\ Len(h) = n + Len(memory["dtb"]) + 2
          /\ h[1] = layout["image"] /\ h[n + 2] = layout["dtb"]
          /\ calm["image"] => \A i \in 1 .. n : h[i + 1] = memory["image"][i]
          /\ calm["dtb"] => \A i \in 1 .. Len(memory["dtb"]) : h[i + n + 2] = memory["dtb"][i]

\* "ERROR: load secure linux failed!" (sign_tool.c:316): a run that could not
\* load the files certifies nothing.
NothingCertifiedUnloaded == pc = "done" => loaded

\* A bound of the runs: the program is started again over no output, or over one
\* of a hash that was never computed.
FewOutputs == pc \in {"idle", "close", "done"} \/ css["hash"] \in {Nothing, Junk}
=============================================================================
