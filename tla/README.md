# A verification of simd-json

simd-json (crate `simd-json`, a Rust port of simdjson) parses a JSON text in two
passes over an index that a vectorised scan builds, and trusts what the first
passes found to leave out the checks in the later ones: vectors allocated with
`set_len`, reads with `get_unchecked`, strings unescaped over their own input.
Nothing in it runs concurrently and nothing is persisted. What is hard to get
right is state that crosses a boundary: a carry from one block of bytes to the
next, a count one pass writes and another walks by, a cursor several calls move
on each other's behalf, a machine word that wraps.

The modules here model these passes, the configurations check them with TLC,
and TLAPS proves most of what TLC checks: stage 1 indexes what a lexer does, the
UTF-8 check accepts what is well-formed, `validate` accepts exactly JSON and
counts right, the walk that builds a DOM stays on the text and answers with its
tree, strings are unescaped to what they spell and over themselves only, a number
is the one written, what is written of a string reads back, and lines are indented
by their depth. For texts of any length, blocks and machine words of any width.

## 1. Inventory

| component | source | state | operations |
|---|---|---|---|
| Stage 1 | `src/src/stage1.rs` | three carries, the bits of the last block, `structural_indexes`, `error_mask` | `find_structural_bits` and the passes over one block |
| UTF-8 check | `src/src/utf8check.rs`, `check_utf8` of stage1.rs | bytes and continuations of the last lane, `has_error` | `avxcheck_utf8_bytes` per lane; the shortcut for ASCII |
| Stage 2 | `src/src/stage2.rs` | `i`, `depth`, `last_start`, `cnt`, `stack`, `counts`, a state | `validate` |
| Deserializer | `src/src/lib.rs` | `structural_indexes`, `counts`, the cursor `idx`, `strings` | `from_slice`, `next_`, `skip`, `c`, `count_elements`, `parse_str_` |
| String parsing | `parse_str_`, stringparse.rs, charutils.rs | positions in source and buffer, the padding, the input itself | scan, unescape, write back |
| Number parsing | numberparse.rs, charutils.rs | the word `i`, byte counts, exponents | `parse_number_int`, `parse_large_integer`, `parse_float` |
| DOMs | value/borrowed.rs, value/owned.rs | the call stack of the walk | `to_value`, `parse_array`, `parse_map` |
| Serde deserializer | serde.rs, serde/de.rs | the call stack, the type asked for | `deserialize_*`, `next_element_seed`, `next_key_seed`, `next_value_seed` |
| Generator | value/generator.rs, value/*/serialize.rs | slice and index of a string, `dent`, the call stack, the writer | `write_string`, `write_object`, `write_json`, `new_line`, `indent`, `dedent` |
| Serde to `Value` | serde/value/owned/se.rs | the maps and vectors under way, `next_key` | `serialize_*`, `serialize_key`, `serialize_value`, `MapKeySerializer` |
| Serde from `Value` | serde/value/owned/de.rs, serde/value/borrowed/de.rs | the iterators under way, the value that waits for its key | `deserialize_any`, `visit_array`, `visit_object`, `MapKeyDeserializer` |
| The rest | error.rs, macros.rs, cmp.rs, from.rs, portability.rs | none | one-line conversions |

How they interact: `from_slice` runs stage 1 and the UTF-8 check over the same
blocks, hands the index to `validate`, and keeps index and counts. A second pass
(a DOM or serde) then moves the cursor; at a quote it calls `parse_str_`, at a
digit the number parser. `validate` is the only one to look at commas, colons
and closing brackets: the walks count. The way back is shorter: a `Value` is
written by one of four generators, to memory or to a writer of the caller's.
With serde a Rust value can become a `Value` and a `Value` a Rust value without
a text in between.

What makes each correct, and where it can go wrong:

- *Stage 1*: the index is that of a byte-by-byte lexer. Hard: runs of
  backslashes, strings and atoms that cross a block; bits flattened one round
  late; lengths around a multiple of the block.
- *UTF-8*: the verdict is that of the table of legal sequences. Hard: a
  sequence cut by a lane, a block, or a stretch of ASCII that leaves the record
  of an earlier lane in place; the end of the text.
- *Stage 2*: it accepts exactly the JSON texts, no unchecked access goes wrong,
  and every count it returns is written and right. Hard: frames saved and
  restored by hand; one automaton split over macros and a loop.
- *Walks*: the cursor stays on the text and each value is read from its place,
  whatever nests in what and whatever fails on the way.
- *Strings*: the text that was spelt, or an error; nothing but the string is
  overwritten. Hard: register-wide loads and stores near every end, surrogates.
- *Numbers*: the value written, or an error. Hard: a word that wraps and is
  corrected later, bounds that differ between signs.
- *Generator*: what is written is JSON and reads back; a failing writer has a
  beginning of it. Hard: escapes in vector blocks; errors that leave through all
  the calls; indentation in 16 bits.
- *To and from `Value`*: a Rust value becomes the `Value` it stands for and is
  read back as it was, or refused. Hard: the key and value calls of a map, which
  a hand-written `Serialize` may make in any order; elements a visitor leaves
  unread; a `u64` in an `i64`.

`PROJECT.json` lists the hazards line by line with the properties for them.

## 2. Modules

    Json ─┬─ Stage2 ── Cursor ─┬─ Dom ··· ToValue   Stage1       Utf8Check
          │                    └─ SerdeDe           StringParse  NumberParse
          │                          └─ SerdeReads
          └─ WriteJson ─── WriteString
    OwnedSerializer ── ValueDeserializer ── ValueSerde

(lines: EXTENDS; dots: refinement). Each has an MC module with its instances.
The proofs are beside them, and nothing in the models depends on them:

    NaturalLemmas ─┬─ Stage1Proofs (Stage1)
                   ├─ Utf8Proofs (Utf8Check)
                   ├─ GeneratorProofs (WriteJson)
                   ├─ StringProofs (StringParse)
                   ├─ NumberProofs (NumberParse)
                   └─ Grammar ── Stage2Proofs (Stage2, Dom, ToValue, SerdeDe)

**Json** is the reference for everything after stage 1: the grammar as the set
of its texts, the elements of a container by counting, the tree of a text. A
document is the sequence of its structural characters; a string, number or atom
is one character whose class says what its own parser makes of it (`str` or
`badstr`, ...); an integer can also be `large` (for its narrow type) or `neg`,
and `name` is the string that is the name of a struct's field. `cutatom` is an atom so near the end of the input that the
eight-byte load of its check reads what is not the input's: its answer is a
free choice.

**Stage2** is `validate`. One action per `update_char!` site; `pc` names the
state or the macro that reads next. `counts` and `stack` begin as `Uninit`, the
content of memory `set_len` uncovers. The atom checks (`is_valid_true_atom` and
its like) are `AtomAnswers`.

**Cursor** adds the Deserializer that `from_slice` returns. An unchecked read
outside its vector, or of a count never written, can find anything
(`CharsAt`, `CountsAt`), so a walk gone astray stays a behaviour of the model.

**Dom** composes Stage2 and the walk of `BorrowDeserializer` (the owned one is
the same statement for statement): `calls` is the Rust call stack, one record
per `parse_array` or `parse_map`. **ToValue** is what `to_value` promises, one
answer that is the tree or an error; `KeepsPromise` says Dom implements it.

**SerdeDe** composes Stage2 and the accesses of serde. The visitors are not in
the repository; `ElementType` and `Complete` are what derived ones do: ask for
as many elements as their type has, and for a struct (of one field) its members
in any order. `v as i8` keeps the low bits (`Narrowed`). **SerdeReads** holds the
reference, which value is of which type (`Fits`), and where the code does not look
(`Misread`); both are recursive operators over types, so they are kept out of the
module the proofs are about.

**Stage1**: one action per block, for the loop and for the copy of its body that
takes the last block; a bit vector is the set of its one bits. Carry-less
multiplication by all ones is a prefix xor, `trailingzeroes` and `hamming` in
`flatten_bits` take the elements in order. `IndexLimit` is the code's 2^32:
indexes and the length they are compared with are taken modulo it, and texts may
be longer. **Utf8Check**: one action per block,
two lanes each, the vector operations byte by byte.

**StringParse**: `parse_str_`, one action per round of its two loops and per way
a round ends; the input is a variable, because the result is written into it.
The table look-ups of hex digits are values, with one value for all the words
whose high bits tell of a bad digit. **NumberParse**: one action per digit or
part, in words of `WordBits`; a float is the decimal it is computed from.
**WriteString**: one action per round; every `write_all` may fail after any of
its bytes.

**WriteJson** composes it with `write_json` and `write_object`: `calls` is the
call stack, `at` the statement that comes next, `sink` what was written, as
characters with their bytes. One variable chooses the generator: to memory or to
a writer, compact or indented. `dent * spaces_per_indent` wraps at `Width`, or
panics, as the two kinds of build do. The owned and the borrowed
`serialize.rs` are the same text. `Written` says what the reader makes of the
text of a scalar.

**OwnedSerializer** is `to_owned_value`: a Rust value is given by the calls its
`Serialize` makes, `compounds` holds the `SerializeVec`s and `SerializeMap`s under
way with their `next_key`. **ValueDeserializer** is `from_value` for the owned
and the borrowed `Value`, driven by the visitor of the type wanted; `visits` are
the iterators under way. `flavour` is where the two differ: a borrowed `Value`
from a text has borrowed strings, one converted from an owned `Value`
(`From<OwnedValue>`) owned ones, and only an owned `Value` is looked at for
elements left. **ValueSerde** puts one behind the other. The order of a map is
that of insertion, as of a halfbrown map of up to 32 entries; no property
compares the order of maps of more.

## 3. Runs

All terminate, most within a minute and `stage2` within two or three; those that
pass have at least a few thousand states and at most about a million. `Returned` steps
stand for a call that has returned, so deadlock is checked everywhere.

| run | question | bounds and why they are enough |
|---|---|---|
| `stage2` | Does `validate` accept JSON and nothing else, count right, and never leave its vectors? | every sequence of 3 characters of all classes, and every text of up to 8 with any one character replaced, removed or inserted: nests three deep, every state meets every class |
| `dom` | Does the counting walk stay on the text and build its tree, always? | texts of up to 9 characters with any one leaf bad or the last character missing |
| `serde` | Do the accesses skip exactly what they must, for each nesting of shapes, and read values of the type only? | texts of up to 11 characters, numbers and nulls in every place; of up to 9 with one number of another kind and any members named as the field; 34 types that put each shape into each other |
| `serde_tuple_struct` | The same for tuple structs inside a container: *violated* | finding 1 |
| `stage1` | Does the scan index what a lexer indexes? | blocks of 4 bytes; all texts of 5 over one byte of each kind, runs of backslashes and quotes to 9 (three blocks), every byte once through the nibble tables; texts that end before, at and beyond an index limit of 12 |
| `utf8` | Is the verdict right after each block? | lanes of 3, less than the longest sequence; all edge bytes of the table in threes, one of each kind in fours at every offset, blocks of ASCII between |
| `strings` | Is a string unescaped right, where does the code load and store, and what does it write over? | registers of 4 bytes; three pieces from every class of escape, good and bad, surrogates unpaired in each way, with tails of 0 to 2 bytes and two kinds of memory behind |
| `string_surrogate` | Is a surrogate ever encoded by itself? *violated* | finding 2 |
| `numbers` | Is the value the one written, and are refusals justified? | words of 17 bits; integers around each power of two and ten the code meets, with every shape of fraction, exponent and end |
| `number_float_overflow` | Is a float ever refused as an overflow? *violated* | finding 3 |
| `generator` | Does what is written read back, is a part of it a beginning, is the indentation the depth? | blocks of 4 and 2; all strings of 5 over four kinds of byte, of 11 over two, every byte alone, in a block and behind one; values of every shape with up to 9 characters of text, every scalar in every container; an indentation that overflows at depth 4 |
| `values` | Is the `Value` the one meant, what is read back, what is refused, what is left unread? | integers of 2 and 3 bits for 8 and 64; 37 types that nest the shapes of serde's data model, with some values of each, read as themselves and as 17 other types, in three flavours; five irregular orders of calls on a map |

Scaled widths: no property depends on 64, 32 or 16 but through ratios, which
the constants keep. Blocks are even (EVEN_BITS), a UTF-8 lane is shorter than
the longest sequence, the wide block is twice the narrow one. For numbers
`NumberWordAssumption` keeps what the code relies on, that signed words hold
every number of n digits and unsigned ones every number of n + 1 (18 and 19 for
64 bits): 4 and 5 for 17.

**Fairness.** Only Dom states a liveness property. `WF_domVars(DomStep)` says
that a thread that can take its next step does, which a sequential program
without blocking calls does; no choice of inputs is fair.

## 4. What is proved

Every theorem is of the specification a run checks, and holds for every value of
the constants that satisfies the named assumptions. Each rests on an inductive
invariant, because none of the properties is inductive by itself.

**Stage 1** (`Stage1Proofs`; from `TextsAssumption`, texts are sequences of
bytes; `WidthAssumption`, blocks have a positive even number of bytes; and
`IndexLimitAssumption`, a positive limit for 2^32). `TypeCorrect`,
`CarriesCorrect`, `IndexesCorrect` and `ScanRight` state `TypeOK`,
`CarriesMatch`, `IndexesMatch` and `ScanCorrect`. The invariant
`Shape /\ CarriesInv /\ FlatteningInv /\ DoneInv` says of each block boundary
what the carries and the bits still to be flattened mean in terms of the bytes
before it. The work is in the lemmas on one block: an addition that carries over
a run of ones tells the parity of the run (`CarryNext`, `Backslashes`, which is
where an odd width fails); the prefix xor is the parity of the quotes
(`Quotes`); the nibble tables select exactly the structural characters
(`Tables`); `flatten_bits` appends the elements of a set in order
(`IndexesUnion`).

**UTF-8 check** (`Utf8Proofs`; from `Utf8TextsAssumption` and `LaneAssumption`:
lanes of three bytes or more, since with two the carry of a carry would count a
leader of four bytes twice). `ErrorRight`
and `VerdictRight` state `ErrorSoFar` and `VerdictCorrect`. Between the vectors
of a lane and the table of legal sequences the proof has a byte-wise view: every
byte owes its successors some continuations (`Left`) and pairs only with some
(`Good`). `Rows` and `StartsRight` show that this is the table, `LaneRight` that
this is what a lane computes, `AsciiRight` what a stretch of ASCII may leave
stale: the record of an old lane, which is harmless exactly because nothing is
owed at its end (`RecordInv`).

**Stage 2** (`Stage2Proofs`; from `DocumentsAssumption`, stage 1 returns no empty
index and an atom touches the end of the input only as the last character, and
`UninitAssumption`, uninitialised memory is told apart from numbers).

- `TypeCorrect` (`TypeOK`): `depth` and `last_start` are in every state within
  the length of the vectors they are indexes of, however deep the text nests.
- `UncheckedAccesses` (`UncheckedAccessesGood`): what the unchecked accesses do
  with them. Every frame that is popped was pushed, every push fits, every count
  goes to an opening bracket.
- `CountsWritten` (`CountsInitialised`): when `validate` accepts, no opening
  bracket's count is uninitialised memory.
- `CountsMatch` (`CountsMatchElements`): and every count is the number of
  elements the text has there, counted without a stack.
- `AcceptsJson` (`AcceptsExactlyJson`): `validate` answers `Ok` exactly to what
  the grammar derives.

The first three need `IInv`: where the
automaton is tells whether a scope is open (`Shape`); each frame was pushed by a
character of its own, so `depth <= i`, and `depth < i` at `main_array_switch`,
which looks at a character before it pushes (`DepthBounded`); the frames below
`depth` are written, with an index to go back to, and only the outermost is
`Start` (`FramesWritten`); and
every opening bracket read so far has its count, or is the innermost open one,
or is the `last_start` of a frame (`OpenersAccounted`). `CountsWritten` is the
last at `depth = 0`.

The fourth needs to know what the frames mean. `Grammar` defines the *place* of a
character from the characters before it, with no stack: what is expected there
(`Want`), the bracket it is in (`Inside`), how many brackets are open (`Level`)
and which element of its container it belongs to (`Ordinal`). `PlaceInv` says
that at every moment `pc` is what is wanted, `last_start` the bracket, `depth`
the level, `cnt` the ordinal, that the frames are those of the brackets around
it, and that the counts of the closed ones are the ordinals at their ends.
`Closed` and `CountIs` show that these are what `CountsMatchElements` counts.

The fifth needs `Grammar`, on documents alone. `AllTextsSure`: in a text of the
grammar no character is out of place, by induction over the derivations, which
join shorter texts. `AllTextsRight`: where a reading by places never goes astray,
what lies between a place and the end of its value is a text, by induction over
the length. Together `WellPlacedIsJson`. `VerdictInv` adds that an error is
only given at a character out of place or a text that ends too early.

**DOM walk** (the second and third part of `Stage2Proofs`; in addition from
`GarbageCountAssumption`: what an unchecked read of a count finds is a number).
`CursorStays`, `LeavesOnly` and `StaysOnTrack` state `CursorInRange`,
`OnlyLeavesFail` and `WalkOnTrack`: each skip goes over the character it takes
for granted. Every step of `Dom` is one of `validate` or
leaves its variables alone (`DomRefinesValidate`), so what is proved of Stage2
holds of the composition. The invariant `WalkInv`, which says more than the three, ties the call stack to the text: the calls are
the brackets open at the cursor, each of its kind, and what a call has left and the
ordinal at the cursor make up the bracket's count. A walk that skips a character
too many or calls once too often would break it at the next place, not only at the
end.

`AnswersAsPromised` is the refinement: `to_value` keeps the safety half of
ToValue's specification, with the texts of the grammar, of whatever length, for
`Texts`. It answers once, with the tree of the document if that is a text with
sound strings and numbers, and with an error otherwise. What validate answers is
`AcceptsJson`; for the tree, `TreeInv` says that the elements a call has read are
the first ones of its container's tree, as many as the ordinal of its place says
(`Built`), that the value just read is the tree of the element before the cursor
(`HasRead`), and that no bad leaf was passed (`FineTo`). `FirstIs` is the link
between the text and the tree: the element with ordinal k is the k-th of those
`Tree` takes by counting commas, and `TreesDef` shows that its nested recursion, from
the end of the document to its start, has a solution at all.

**Serde deserializer** (the fourth part of `Stage2Proofs`; from the same
assumptions). `SerdeCursorStays` states `SerdeCursorInRange` for all documents and
types. Nothing like `WalkInv` holds here: an array longer than its tuple leads the
accesses away from the brackets, and from there on they open containers and count
elements in the middle of others. `SerdeInv` therefore only counts. The `Room` of
the cursor is the number of characters ahead that no bracket ahead encloses. A
character takes one off it (`RoomNext`); an opening bracket also adds what is
directly inside it (`RoomEnters`), and that is what its count promises
(`WithinSize`: two characters for an element of an array, four for a member of an
object, since the counts of an accepted document are right). The accesses under way
are due what their counts leave to be read (`Due`, `Rest`), and together never more
than the room (`Owed`), wherever the cursor is: what is read when a container is
opened is paid for by its own bracket. So a value that is asked for is always there,
and an error finds room for the skips of all the calls it leaves through, up to the
one too many (`SerdeFails`).

**Generator** (`GeneratorProofs`; from `WidthsAssumption`, the narrow block is the
smaller and neither is empty; `PartsAssumption`, the values and all in them are
made of bytes and a member has one value; `IndentAssumption`, the width is
positive). All three theorems are of `JsonSpec`, the generators as they are called.

- `StringsInOrder` (`WrittenInOrder`). The invariant `StringInv`: between two
  writes, what was written is the text of the characters that are `Past`, each
  escaped by itself, what is left is the rest of the string (`RestAfter`), and
  the `idx` first bytes of that need no escape (`Clean`). Each round of the two
  loops, and the third path, then writes the text of the next characters
  (`Advance`, `FoundStep`, `RestIsEncoded` with `LoopRight` for the loop of
  `write_string_complex`), and a write that fails writes a beginning of it
  (`Writes`). That strings are only started on bytes needs `CallsInv`: every
  call under way but the innermost has an item left, and an object's is a member.
- `StringsReadBack` (`ReadsBack`): the text of a string, read by the grammar of
  strings, is the string (`ReadsEncoded`, from the end of the text to its start; a
  character is read from its code by `ReadOne`).
- `IndentsRight` (`Indented`). The invariant `IndentInv`: the brackets open in
  what was written are the calls under way, `dent` is their number in its width,
  one less between an opening bracket and its first line and between the last line
  and the closing one, and every line was indented by the depth at it, in the
  width. That going up and down in the width is the same as going up and down
  before taking the remainder is `ModStep`.

**Strings** (`StringProofs`; from `StringTextsAssumption`, a text begins with a
quote and a quote that is not escaped closes it, which is what stage 1 lets pass,
and `ChunkAssumption`, a register holds a byte or more). `StaysInBuffers`,
`UnescapesRight` and `LeavesTheRest` state `BuffersInRange`, `UnescapedRight` and
`RestUntouched`. The invariant `StringInv` says that between two rounds the input
is still the text, a character begins at `src_i + 2` and nothing closed the string
before (`StillOpen`): so a quote is still ahead, which is why neither loop needs a
test for the end (`StillInside`). And the reference `Readings`, read from the
start of the text, comes by that place with the bytes kept so far. A round takes the
characters up to the first quote or backslash at once (`ReadsRun`, `ChunkRead`),
keeps (`CopiedIs`) or rewrites them (`WrittenIs`), or decodes one escape
(`UnicodeRight`, with `BitOrIs` and `HexSame` for its arithmetic); `WrittenBack` is
the copy over the input. `StaysInBuffers` says where the loads of an escape's
digits end, too: a quote is still ahead when the code is about to load four
(`LastLoadedIs`), which leaves three beyond the input. As in the property, texts
with an unpaired surrogate are left out of `UnescapesRight`; `StaysInBuffers` and
`LeavesTheRest` are of all texts, those and the refused ones included.

**Numbers** (`NumberProofs`; from `NumberWordAssumption`, `NumberTextsAssumption`
and `NumberStepsAssumption`: words are as wide as the digits they are trusted with
ask for, and a text starts with a digit or a sign, which is when the parser is
called).
`ReadsTheNumber` and `RefusesKnownCases` state `ValueRight` and
`RefusalsAreKnown`. The invariant `NumberInv` says for every loop where it stands
between the parts of the number (`IntegerEnd`, `FractionEnd`, `ExponentFrom`,
`NumberEnd`) and that the word is what the digits so far come to, modulo its width;
in `parse_large_integer` it is exact. The word wraps and is looked at later, and
the proof says why that is sound: a sum that overflows has too many digits
(`TooLarge`), and one with few enough fits (`DigitsFit`), so it is exact whenever
it is used. The lemmas are about appending a digit (`AppendedNext`,
`AppendedGrows`, `AppendedBound`, `AppendedMod`) and one multiplication
(`TenTimes`). Powers are a function here (`Raised`): the provers know nothing of `^`.

**Induction.** The library's induction theorems take an operator and cannot be
applied here, but `NaturalLemmas` proves that a set of numbers that is not empty
has a least member, and from it induction over a set (`Induction`,
`DownwardInduction`), which the provers can apply. A recursive function is by
definition a CHOOSE, so that it satisfies its own equation is also proved by
induction: once for the functions whose value at n is made from the one before
(`Recursion` of NaturalLemmas, for `ReadingsDef` of StringProofs, `RaisedIs` and
`AppendedIs` of NumberProofs, `EncodedDef` and `LoopDef` of GeneratorProofs), and
where it is used for the others (`PlacesDef` of Grammar, `StartsDef` of
Utf8Proofs, `TreesDef` of Stage2Proofs, `ReadingDef` of GeneratorProofs).

Only model-checked: `Termination` and the liveness half of `KeepsPromise`
(liveness under fairness, ENABLED); what SerdeDe reads (`ReadsWhatFits`,
`ReadsNothingElse`) and the conversions to and from `Value`, whose references
(`Fits`, `Covers` and their like) are recursive operators over types and values,
which the provers cannot reason about; and of the generators `RoundTrip` and `WrittenSoFar`, whose texts of values are recursive
operators, too.

## 5. Findings

1. `serde_tuple_struct`: `deserialize_tuple_struct` makes no skip after the
   visitor, as `deserialize_tuple` does (serde/de.rs:252). A tuple struct inside
   an array, map or tuple leaves its `]` unread and `[[1,2],3]` is refused.
2. `string_surrogate`: `"\udc00"`, a low surrogate alone, is encoded in three
   bytes, against the notes in charutils.rs:75 and 88; the `&str` is no UTF-8.
3. `number_float_overflow`: `18446744073709551616.5` is refused as an integer
   overflow before `parse_float`, whose comment says that this is what it is for.

Further observations, visible in the models. The first six also go against a
sentence of the repository, without a run of their own; the passing runs state
what the code does there and leave the promise out, which their properties'
comments say.

- The least `i64` is negated as `-(i as i64)` (numberparse.rs:331): in a build with
  overflow checks, as of the tests, `-9223372036854775808` is a panic. The
  repository's README.md:41 says "make sure that no random set of bytes will crash
  the parser", and the tests that write and read back draw from `any::<i64>()`
  (lib.rs:1266). `RefusalsAreKnown` lists the panic, `RoundTrip` leaves it out
  (`least` in `Written`).
- An integer too large for a type of 8 to 32 bits is not refused, as serde_json
  does, but read as its low bits (serde/de.rs:107), and an array longer than the
  tuple it is read into is not refused either: `skip` takes the next comma for the
  bracket. README.md:26 says "compatible with serde and serde-json". `Misread` in
  SerdeReads holds both, and `ReadsNothingElse` leaves them out.
- An enum can be read from no text and from no `Value`: `deserialize_enum` is
  forwarded to `deserialize_any`, and no visitor of an enum takes what that gives
  it (`Fits` has no values for it), although README.md:26 says "anything that
  implements the serde Deserialize trait". Map keys of an owned `Value` are the
  exception.
- An `Option` that is there and a newtype are refused by `from_value` for the same
  reason (serde/value/owned/de.rs:32, borrowed/de.rs:36), although their `Value` has
  kept all of them and README.md:26 says that it implements "serializers and
  deserializers". `Unserved` in ValueSerde names the three kinds of types, and
  `ReadsBackUnless` lists them. What their `Value` does not tell apart is another
  matter: `Some(())` comes back as `None`, and a newtype around an array is read as
  a list of its fields (`ReadBackWrong`).
- `to_owned_value` of a `u64` above `i64::MAX` is a negative number, which serde_json
  keeps (`Lost`; `Plain` has the negative number, so `ValueDenotes` does not
  complain). It is not read back as another `u64`, but refused (`ReadsBackItself`).
- Texts of 4 GiB and more: a comment in `parse_str_` (lib.rs:256) says they are
  refused, but the indexes wrap. Whether stage 1 then reports an internal error
  depends on the low bits of the length; no index leaves the text
  (`ScanCorrect`, `TypeOK` of Stage1).

The others are nobody's promise:

- After an error the skips of serde are still made: the cursor can end one past
  the last index (`SerdeCursorInRange` states it at that), where the error
  value reads it again.
- From a depth of 32768 on, the indentation of two spaces overflows its 16 bits.
- A float that is not finite is written as what ryu makes of it. One whose
  exponent, less the digits of its fraction, is below -308 is written in a form the
  number parser refuses (numberparse.rs:479): with 17 digits that is from about
  1e-292 down. `Written` takes both as given and `RoundTrip` leaves them out.
- In a map, a key without a value is lost. A value without a key is a panic, as the
  code says.
- A borrowed `Value` read as a tuple loses the elements behind it silently; an
  owned one refuses them (`NothingUnread` states the latter; of what a struct drops
  with members it does not know nothing is looked at). A borrowed `Value`
  with owned keys cannot be read as a borrowed `Value`, whose visitor asks for
  `&str` keys.
- `1e0` is the integer 1, but with 18 bytes or more such a number is refused
  (`RefusalsAreKnown`).
- The digits of a `\u` escape are loaded before anything looks whether there are
  four (charutils.rs:57-60, called at stringparse.rs:38 and 50). For a text that
  ends in `"\u"` they lie up to three bytes beyond the input slice, in what the
  model calls `beyond`. It takes that memory for readable and its content for
  arbitrary: no answer depends on it (`UnescapedRight`), and `BuffersInRange` states
  how far the loads go.
- A zero byte ends a number, because the copies are filled up with zeros; in a
  document it hides what follows it up to the next structural character.
- A high surrogate followed by an escape of 0xE000 or more passes the checks of
  `handle_unicode_codepoint` and is combined with it into some other character
  (such texts are in the `strings` run; `UnescapedRight` leaves out what they
  and finding 2's return; the two other properties are of them as well).
- A text that ends in the middle of a character and exactly at the end of a
  block passes the UTF-8 check (`VerdictCorrect` says so); no JSON text ends so.

## 6. Not modelled

Rounding of `f64` and the text of floats; the copy `from_slice` makes of an
input that ends near a page (stage 1 alone reads the copy, and the copy is equal);
the layout of a document beyond commas, brackets and indentation; the
out-of-bounds loads of `is_made_of_eight_digits_fast`, which cannot change a value
because a number ends inside its input.

`serde/value/borrowed/se.rs` is commented out. The `Deserializer`s of
`SeqDeserializer` and `MapDeserializer` and the enum access of
`BorrowedCowStrDeserializer` are never called. `json!` is expanded and parsed by
rustc; comparisons, accessors and the one-line `From`s keep no state. In SerdeDe,
`char`, bytes and 128-bit integers go to `deserialize_any` and are left out.

A struct in SerdeDe has one field, and drops members it does not know as dynamic
values; the `IgnoredAny` that serde uses for them takes the same texts.

## 7. Plan

Done: all the modules above; the proofs of stage 1, the UTF-8 check, `validate`,
the DOM walk and its answer, the cursor of serde, strings, numbers, and the
generators' strings and indentation. What is left is proofs, in this order:

1. OwnedSerializer: `next_key` is set only between a key and its value;
   ValueDeserializer: `answer` of an owned container with nothing left.
2. WriteJson: `WrittenSoFar` of a value in terms of the calls under way.
