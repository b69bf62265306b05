-------------------------------- MODULE Dc42 --------------------------------
(***************************************************************************)
(* The containers a volume is kept in: DiskCopy 4.2 images (dc42.rs) and   *)
(* bare sector images, told apart when one is opened (from_image_bytes in  *)
(* volume.rs).  A file begins with what a DiskCopy reader takes for its    *)
(* header, and a bare image with it keeps its boot blocks there: bytes any *)
(* caller may set.  Behind it come 16-bit words, in a container data and   *)
(* then tags.                                                              *)
(***************************************************************************)
EXTENDS Integers, Sequences

CONSTANTS Half,        \* half the values of a checksum: 2^31 in the source
          Words,       \* the values of a 16-bit word
          Bodies,      \* the words behind the header of a container
          RawBodies,   \* those of a bare image, or of one that holds no MFS volume
          Sizes,       \* what a header may declare
          Names,       \* image names: [len, pad]: length, and bytes behind the name
          MaxNameLen,  \* MAX_NAME_LEN, 63 in the source
          Skip         \* TAG_CHECKSUM_SKIP in words, 6 in the source

ASSUME Dc42Assumption ==
  /\ Half \in Nat \ {0} /\ Skip \in Nat /\ MaxNameLen \in Nat
  /\ Sizes \subseteq Nat /\ Names \subseteq [len : Nat, pad : Nat]
  /\ Words \subseteq 0 .. (Half - 1) /\ Bodies \cup RawBodies \subseteq Seq(Words)

VARIABLES file,      \* the file: head, body, sig (the word where an MDB has its
                     \* signature), whole (it is a whole number of sectors)
          img,       \* the container it was opened as, and what that holds
          found,     \* the file that was opened
          step,      \* where it is: closed, refused, open, saved, damaged, reopened
          want,      \* the container the last open was told to take it for
          res        \* what the last open returned

vars == <<file, img, found, step, want, res>>

Formats == {"dc42", "raw"}

-----------------------------------------------------------------------------
\* Mutant: shifted, not rotated.
ShiftRight(x) == x \div 2

RotateRight(x) == x \div 2 + (x % 2) * Half

\* One word of checksum().
Folded(sum, word) == RotateRight((sum + word) % (2 * Half))

\* The sum after each of the words.
Sums(words) ==
  LET sum[i \in 0 .. Len(words)] == IF i = 0 THEN 0 ELSE Folded(sum[i - 1], words[i]) IN sum

Checksum(words) == Sums(words)[Len(words)]

TagChecksum(tags) == IF Len(tags) <= Skip THEN 0 ELSE Checksum(SubSeq(tags, Skip + 1, Len(tags)))

DataOf(h, body) == SubSeq(body, 1, h.dataSize)
TagsOf(h, body) == SubSeq(body, h.dataSize + 1, h.dataSize + h.tagSize)

\* Mutant: the declared sizes may fall short of the file.
SlackHeaderOk(f) ==
  f.head.magic /\ f.head.name.len <= MaxNameLen /\ f.head.dataSize + f.head.tagSize <= Len(f.body)

\* validate_header, which detect() is.
HeaderOk(f) ==
  f.head.magic /\ f.head.name.len <= MaxNameLen /\ f.head.dataSize + f.head.tagSize = Len(f.body)

SumsOk(f) ==
  /\ f.head.dataSum = Checksum(DataOf(f.head, f.body))
  /\ f.head.tagSum = TagChecksum(TagsOf(f.head, f.body))

ZeroHead == [magic |-> FALSE, name |-> [len |-> 0, pad |-> 0], dataSize |-> 0, tagSize |-> 0,
             dataSum |-> 0, tagSum |-> 0, format |-> 0]

\* Mutant: the signature of a bare image is looked for first.
RawFirstDetected(f) ==
  IF f.whole /\ f.sig = "MFS" THEN "raw" ELSE IF HeaderOk(f) THEN "dc42" ELSE "unknown"

\* from_image_bytes: the container a file is taken for.
Detected(f) ==
  IF HeaderOk(f) THEN "dc42" ELSE IF f.whole /\ f.sig = "MFS" THEN "raw" ELSE "unknown"

\* What opening the file in a container returns.
Verdict(f, c) ==
  CASE c = "unknown" -> IF f.sig = "HFS" THEN "UnsupportedHfs" ELSE "UnknownImageFormat"
    [] c = "dc42"    -> IF HeaderOk(f) /\ SumsOk(f) THEN "Ok" ELSE "Dc42"
    [] c = "raw"     -> CASE f.sig = "MFS" -> "Ok" [] f.sig = "HFS" -> "UnsupportedHfs"
                          [] OTHER -> "BadSignature"

OpenedAs(f, c) ==
  IF c = "raw"
  THEN [container |-> c, boot |-> f.head, data |-> f.body, tags |-> <<>>, name |-> 0, format |-> 0]
  ELSE [container |-> c, boot |-> ZeroHead, data |-> DataOf(f.head, f.body),
        tags |-> TagsOf(f.head, f.body), name |-> f.head.name.len, format |-> f.head.format]

\* Mutant: the tag checksum takes in the first sector's tags.
WholeTagHead(i) ==
  [magic |-> TRUE, name |-> [len |-> i.name, pad |-> 0],
   dataSize |-> Len(i.data), tagSize |-> Len(i.tags),
   dataSum |-> Checksum(i.data), tagSum |-> Checksum(i.tags), format |-> i.format]

\* to_bytes: what stood behind the name is not kept.
HeaderFor(i) ==
  [magic |-> TRUE, name |-> [len |-> i.name, pad |-> 0],
   dataSize |-> Len(i.data), tagSize |-> Len(i.tags),
   dataSum |-> Checksum(i.data), tagSum |-> TagChecksum(i.tags), format |-> i.format]

\* save_to, in the container the image was opened in.
Written(i) ==
  [file EXCEPT !.head = IF i.container = "raw" THEN i.boot ELSE HeaderFor(i),
               !.body = i.data \o i.tags]

-----------------------------------------------------------------------------
\* Headers with sizes that add up or not, and with right or wrong checksums of what
\* they cut the words into (for sizes that do not add up nothing compares them).
Heads(body) ==
  LET Header(m, n, d, t, data, tags) ==
        [magic |-> m, name |-> n, dataSize |-> d, tagSize |-> t, format |-> 1,
         dataSum |-> data, tagSum |-> tags]
      OrWrong(sum) == {sum, (sum + 1) % (2 * Half)}
  IN  {Header(m, n, d, t, 0, 0) : m \in BOOLEAN, n \in Names, d, t \in Sizes}
      \cup UNION {{Header(m, n, d, Len(body) - d, x, y) :
                    m \in BOOLEAN, n \in Names,
                    x \in OrWrong(Checksum(SubSeq(body, 1, d))),
                    y \in OrWrong(TagChecksum(SubSeq(body, d + 1, Len(body))))} :
                  d \in 0 .. Len(body)}

BootHeads(body) == {ZeroHead} \cup {h \in Heads(body) : h.dataSize + h.tagSize = Len(body)}

\* Any container, and bare images of MFS and of HFS with anything for boot blocks.
Init ==
  /\ \/ \E b \in Bodies : \E h \in Heads(b) :
          file = [head |-> h, body |-> b, whole |-> TRUE, sig |-> "none"]
     \/ \E b \in RawBodies, w \in BOOLEAN, s \in {"MFS", "HFS"} : \E h \in BootHeads(b) :
          file = [head |-> h, body |-> b, whole |-> w, sig |-> s]
  /\ found = file
  /\ img = [OpenedAs(file, "raw") EXCEPT !.container = "none"]
  /\ step = "closed" /\ want = "any" /\ res = "none"

\* open and open_with_format.  A container is taken to hold a sound volume.
Open ==
  /\ step \in {"closed", "saved", "damaged"}
  /\ want' \in {"any"} \cup Formats
  /\ LET c == IF want' = "any" THEN Detected(file) ELSE want'
     IN  /\ res' = Verdict(file, c)
         /\ img' = IF res' = "Ok" THEN OpenedAs(file, c) ELSE img
  /\ step' = CASE step = "closed"  -> IF res' = "Ok" THEN "open" ELSE "refused"
               [] step = "saved"   -> "reopened"
               [] step = "damaged" -> "reopened damaged"
  /\ UNCHANGED <<file, found>>

\* A word of the disk changes: the volume inside is written to.
EditData ==
  /\ step = "open"
  /\ \E i \in DOMAIN img.data, w \in Words : img' = [img EXCEPT !.data[i] = w]
  /\ UNCHANGED <<file, found, step, want, res>>

\* The boot blocks of a bare image may be made anything, a header included; those
\* of a container are words of its data.
SetBootBlocks ==
  /\ step = "open" /\ img.container = "raw"
  /\ \E h \in BootHeads(img.data) : img' = [img EXCEPT !.boot = h]
  /\ UNCHANGED <<file, found, step, want, res>>

Save ==
  /\ step = "open"
  /\ file' = Written(img)
  /\ step' = "saved"
  /\ UNCHANGED <<img, found, want, res>>

\* One word behind the header is not what was saved.
Damage ==
  /\ step = "saved" /\ img.container = "dc42"
  /\ \E i \in DOMAIN file.body, w \in Words :
       /\ w # file.body[i]
       /\ i <= file.head.dataSize \/ i > file.head.dataSize + Skip
       /\ file' = [file EXCEPT !.body[i] = w]
  /\ step' = "damaged"
  /\ UNCHANGED <<img, found, want, res>>

Next == Open \/ EditData \/ SetBootBlocks \/ Save \/ Damage

Spec == Init /\ [][Next]_vars

-----------------------------------------------------------------------------
\* What is opened accounts for every word of the file: nothing is left out of both
\* data and tags, or the volume would be saved shorter than it was (validate_header).
NothingLeftOut == step = "open" => Len(img.data) + Len(img.tags) = Len(found.body)

MustBeTold == img.container = "raw" /\ (HeaderOk(file) \/ ~file.whole)

\* An image that was opened, edited and saved opens again as what was saved, told
\* what it is or not.  A bare image only, and only one that is no whole number of
\* sectors or whose boot blocks, as a caller set them, read as a header that fits
\* the file, must be told (from_image_bytes, open_with_format, set_boot_blocks).
SaveReopens ==
  [][step = "saved" /\ step' = "reopened" =>
       (want' = img.container \/ (want' = "any" /\ ~MustBeTold) =>
          res' = "Ok" /\ img' = img)]_vars

\* One changed word anywhere in the data or in the checksummed tags is always
\* noticed: adding a word and rotating loses nothing of the sum.
DamageDetected == step = "reopened damaged" /\ want # "raw" => res = "Dc42"

\* "Opening an image and saving it again without changing anything reproduces the
\* original bytes exactly" (the crate's documentation), in either container.
UntouchedBytesKept == step = "saved" /\ img = OpenedAs(found, img.container) => file = found
=============================================================================
