----------------------------- MODULE QtExtract -----------------------------
(***************************************************************************)
(* extract.py (src/nix/pkgs/qt-installer-framework-extractor): finds and   *)
(* reads the resources in an installer.  The file is read backwards: the   *)
(* cookie in the last megabyte ends the content, the header before it says *)
(* how long the content is, and with it where the executable ends; every   *)
(* other position is relative to that.                                     *)
(*                                                                         *)
(* A file is a sequence of words of 8 bytes, which is the size of all its  *)
(* numbers and of the cookie; a name or a datum is a word.  Packed is what *)
(* the installer framework (external) writes.                              *)
(***************************************************************************)
EXTENDS Integers, Sequences, SequencesExt

CONSTANTS
  Window,      \* words in the last megabyte
  Unwritable,  \* names no file can be opened under: paths to a directory that is not there
  Installers   \* [exe, collections, metas, trailer]: what is packed

(* A resource has a name and data.  Several may have the same name, as the *)
(* contents of the packages of one installer usually do.                   *)
ASSUME InstallersAssumption ==
  /\ Window \in Nat
  /\ \A i \in Installers :
       /\ i.exe \in Seq(Int) /\ i.metas \in Nat /\ i.trailer \in Seq(Int)
       /\ i.collections \in Seq(Seq([name : Int, data : Seq(Int)]))

VARIABLES
  io,          \* the words of the file
  packed,      \* the installer it was made of
  status,      \* start, extracting, done, or error: an exception
  upcoming,    \* number of the resource that is extracted next
  files        \* in the destination: name -> data

MAGIC == -1            \* the cookie of a binary, the data's ends in another byte
Marker == -2           \* of an installer

-----------------------------------------------------------------------------
(* What the framework writes (external).                                   *)

(* How many words of the sequences come before the k-th.                   *)
Before(seqs, k) == SumFunctionOnSet([j \in DOMAIN seqs |-> Len(seqs[j])], 1..(k - 1))

(* All resources of the installer, and their data, one after the other.    *)
Resources(i) == FlattenSeq(i.collections)
Pieces(i) == [k \in DOMAIN Resources(i) |-> Resources(i)[k].data]
DataOf(i) == FlattenSeq(Pieces(i))

(* An array of names and ranges: their number, and for each the length of  *)
(* the name, the name, where the range starts, and its length.             *)
Entry(name, start, size) == <<1, name, start, size>>
Listing(entries) == <<Len(entries)>> \o FlattenSeq(entries)

(* The segment of a collection lists its resources, the index the segments.*)
SegmentOf(i, c) ==
  LET of == i.collections[c]
  IN  Listing([r \in DOMAIN of |->
        Entry(of[r].name, Before(Pieces(i), Before(i.collections, c) + r), Len(of[r].data))])
Segments(i) == [c \in DOMAIN i.collections |-> SegmentOf(i, c)]
IndexOf(i) ==
  Listing([c \in DOMAIN i.collections |->
             Entry(200 + c, Len(DataOf(i)) + Before(Segments(i), c), Len(Segments(i)[c]))])

(* Content: data, segments, their index, operations, and the descriptor.   *)
Body(i) == DataOf(i) \o FlattenSeq(Segments(i))
Operations == <<0, 0>>
Descriptor(i) ==
  <<Len(Body(i)), Len(IndexOf(i))>>
    \o FlattenSeq([m \in 1..i.metas |-> <<0, Len(DataOf(i))>>])
    \o <<Len(Body(i)) + Len(IndexOf(i)), Len(Operations)>>
Content(i) ==
  LET parts == Body(i) \o IndexOf(i) \o Operations \o Descriptor(i)
  IN  parts \o <<i.metas, Len(parts) + 4, Marker, MAGIC>>

Packed(i) == i.exe \o Content(i) \o i.trailer

-----------------------------------------------------------------------------
(* What the program reads.  Positions count from 0, as in the file.        *)

At(pos) == io[pos + 1]
Exists(pos, n) == pos >= 0 /\ pos + n <= Len(io)

(* find(): the first cookie in the last megabyte.                          *)
Cookies == {p \in (Len(io) - Window)..(Len(io) - 1) : p >= 0 /\ At(p) = MAGIC}

(* Mistake: the last one.  (The framework writes one, but a resource may   *)
(* hold a file that has one.)                                              *)
LastCookie == CHOOSE p \in Cookies : \A q \in Cookies : q <= p
FirstCookie == CHOOSE p \in Cookies : \A q \in Cookies : p <= q

end_of_binary_content == FirstCookie + 1
binary_descriptor_offset == end_of_binary_content - 4
meta_resources_count == At(binary_descriptor_offset)
binary_content_size == At(binary_descriptor_offset + 1)
end_of_executable == end_of_binary_content - binary_content_size
size_of_segment_descriptor == (meta_resources_count + 2) * 2
segments_descriptor == binary_descriptor_offset - size_of_segment_descriptor

(* A range in the file: where it starts, and how long it is.               *)
SegmentRange(pos) == [start |-> end_of_executable + At(pos), size |-> At(pos + 1)]

(* An array at pos of a file: so many times a name and a range.            *)
Entries(pos) ==
  [k \in 1..At(pos) |-> [name |-> At(pos + 4 * k - 2), range |-> SegmentRange(pos + 4 * k - 1)]]

Collections == Entries(SegmentRange(segments_descriptor).start)
ResourcesOf(collection) == Entries(collection.range.start)

Contents(range) == [k \in 1..range.size |-> At(range.start + k - 1)]
Unpacked(collection) ==
  LET found == ResourcesOf(collection)
  IN  [k \in DOMAIN found |-> [name |-> found[k].name, data |-> Contents(found[k].range)]]
Found == FlattenSeq([c \in DOMAIN Collections |-> Unpacked(Collections[c])])

(* The marker and the cookie are validated; reading outside of the file is *)
(* an error; without a cookie the header is read from before the window.   *)
Readable ==
  /\ Len(io) >= Window
  /\ Cookies # {}
  /\ Exists(binary_descriptor_offset, 4)
  /\ At(binary_descriptor_offset + 2) = Marker
  /\ Exists(segments_descriptor, size_of_segment_descriptor)

InstallerInit ==
  /\ packed \in Installers
  /\ io = Packed(packed)
  /\ status = "start" /\ upcoming = 1 /\ files = [name \in {} |-> <<>>]

ReadHeader ==
  /\ status = "start"
  /\ status' = IF Readable THEN "extracting" ELSE "error"
  /\ UNCHANGED <<io, packed, upcoming, files>>

(* With -x: open(name, "wb") empties a file that is there already.         *)
Extract ==
  /\ status = "extracting" /\ upcoming \in DOMAIN Found
  /\ LET resource == Found[upcoming] IN
     \/ /\ resource.name \in Unwritable
        /\ status' = "error" /\ UNCHANGED <<upcoming, files>>
     \/ /\ resource.name \notin Unwritable
        /\ files' = [name \in DOMAIN files \cup {resource.name} |->
                       IF name = resource.name THEN resource.data ELSE files[name]]
        /\ upcoming' = upcoming + 1 /\ UNCHANGED status
  /\ UNCHANGED <<io, packed>>

Exit ==
  /\ status = "extracting" /\ upcoming \notin DOMAIN Found
  /\ status' = "done"
  /\ UNCHANGED <<io, packed, upcoming, files>>

InstallerNext == ReadHeader \/ Extract \/ Exit
installerVars == <<io, packed, status, upcoming, files>>
InstallerSpec == InstallerInit /\ [][InstallerNext]_installerVars

-----------------------------------------------------------------------------
(* The cookie is in the last megabyte, and nothing before it in there looks*)
(* like one.                                                               *)
CookieIsFirst ==
  /\ Len(io) >= Window /\ Len(packed.trailer) < Window
  /\ \A p \in Cookies : p >= Len(io) - Len(packed.trailer) - 1

(* Whatever comes before and after the content and however many meta       *)
(* resources it has, the resources are extracted in order, each whole and  *)
(* under its name, and nothing else is; only one of the same name that came*)
(* later has taken its place.  Only a name that cannot be opened stops it. *)
ExtractedWhole ==
  CookieIsFirst /\ status # "start" =>
    LET all == Resources(packed)
        extracted == 1..(upcoming - 1)
    IN  /\ status = "error" => upcoming \in DOMAIN all /\ all[upcoming].name \in Unwritable
        /\ status = "done" => extracted = DOMAIN all
        /\ DOMAIN files = {all[k].name : k \in extracted}
        /\ \A k \in extracted :
             \/ files[all[k].name] = all[k].data
             \/ \E later \in extracted : later > k /\ all[later].name = all[k].name
=============================================================================
