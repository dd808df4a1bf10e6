# pslib in TLA+

pslib is a C library that writes PostScript documents. A program creates a
`PSDoc` with `PS_new`, opens it on a file or in memory, defines fonts, images,
templates and patterns, draws pages, and closes and deletes it. The library is
sequential: no thread, no signal, no callback that calls back into it. What makes
it hard to get right is the *protocol*. About a hundred functions may be called in
any order; each checks the order by a stack of scopes, writes part of the output,
and changes flags that other calls rely on. A test writes a handful of such
sequences; the model checker takes all of them.

## Inventory

| Part (source) | State it keeps | Operations | What is hard | What makes it correct |
|---|---|---|---|---|
| Document life cycle, scopes, pages (`src/pslib.c`, `src/ps_util.c`) | `scopes`, `page`, `page_open`, `doc_open`, five `...written` flags, `writeproc`, `fp`, `closefp` | open, close, delete, begin/end of page, template, pattern, font, glyph; paths | the header is written in parts by whichever call comes first; refused calls that have already changed something; a full stack nobody looks at | scopes nest; flags, stack and output agree; a document can always be ended; the output is structured |
| Graphics state and colours (`src/pslib.c`) | `agstate`, `agstates[]`, `font`, `pattern` | `PS_save`, `PS_restore`, `PS_setcolor`, `PS_setgray`, painting | colours are written late and only if believed to be different | the interpreter's colour is the one asked for |
| Resource registries (macros in `src/pslib.c`) | tables of fonts, images, patterns, shadings, spot colours, gstates | register, unregister, find, get | reuse of slots, pointers that outlive their object | a handle denotes its object; nothing leaks or is freed twice |
| Fonts, AFM metrics, encodings (`src/ps_afm.c`, `src/ps_fontenc.c`, `src/ps_inputenc.c`) | metrics, kerning and ligature lists, hash tables of encodings | read, `PS_add_kerning`, `PS_add_ligature`, widths | partial failure while loading | a glyph shown is the glyph measured |
| Text layout (`PS_show2`, `PS_show_boxed`) | text positions, word spacing | show, boxed text, hyphenation | index arithmetic at line ends | no character lost or shown twice |
| Hyphenation (`src/hyphen.c`) | pattern automaton | load, hyphenate | fallback states, offsets | positions are those of the definition |
| Images (`src/pslib.c`, `src/bmp.c`) | image records | open, place, close | decoding | see registries |
| Hash table (`src/hash_table.c`) | buckets, an iterator | insert, get, remove, iterate, rehash | rehash in the middle of an insert, heuristics that reorder a bucket | it is a map |
| List and bookmarks (`src/ps_list.c`, `PS_add_bookmark`) | doubly linked list with two sentinels; tree of bookmarks and a table by id | insert, delete, sort; add bookmark | links at both ends; growth of the table | it is a sequence; every id finds its bookmark |
| String buffer (`src/ps_strbuf.c`, `PS_get_buffer`) | buffer, size, length | print, write, clear, get | growth, terminator, pointer given away | what is read is what was written |
| Memory (`src/ps_memory.c`, `src/ps_memprof.c`) | table of blocks | malloc, realloc, free | a full table | every block is counted once |
| Parameters, values (`PS_set_parameter`, `PS_set_value`) | lists of names and values, `hdict`, `inputenc` | set, get | replacing an object that is in use | last value wins, nothing dangles |
| Annotations, errors, binary encodings | border attributes; none | pdfmarks; `ps_error`; ascii85 | tail groups | decoding gives back the data |

The parts meet in the `PSDoc`, which every call receives; the string buffer and
the caller's `FILE` are sinks of the output; the hash table and the list are used
by fonts and parameters; `errorhandler`, `writeproc` and the four memory functions
are callbacks of the caller.

## Modules

| Module | Models |
|---|---|
| `DSCStream` | Abstract specification: what the reader of a document relies on. A stream in the order prolog, script, trailer, in which everything opened is closed, innermost first. |
| `PSDocument` | The core: life cycle, scopes, header, pages, definitions, paths, save levels, the structure of what is written, and the calls that wind a document down. |
| `PSDocument_proofs` | Its inductive invariants and theorems, and that it implements `DSCStream`, with the invariant that ties the output to the scopes. |
| `MCPSDocument` | `PSDocument` for TLC, as it is. |
| `PSGraphics` | Composes with `PSDocument`: every call together with what it does to the colours, spot colours and patterns pslib remembers and to what the interpreter has. |
| `PSGraphics_proofs` | Its inductive invariant and theorems, and that it is a `PSDocument`. |
| `PSResources` | Composes with `PSDocument`: every call together with what it does to fonts, images and templates, their tables and their ids. |
| `PSResources_proofs` | Its inductive invariants and theorems, and that it is a `PSDocument`. |
| `Map` | Abstract specification of a hash table with an iteration in progress. |
| `HashTable` | `hash_table.c`: buckets, doubly linked chains, heuristics, rehashing, iteration. |
| `HashTable_proofs` | Its inductive invariants and theorems, and that it implements `Map`. |
| `Hyphen` | `hyphen.c`: a dictionary and its automaton. |
| `Hyphen_proofs` | Its inductive invariant and theorems. |
| `ShowBoxed` | `PS_show_boxed`: the breaking of a text into lines and boxes. |
| `ShowBoxed_proofs` | Its inductive invariant and theorems. |
| `FontMetrics` | The metrics of a font: reading of AFM lines and LIGKERN commands, Type 3 fonts with added kerning and ligatures, `calculatekern` and `ps_check_for_lig`. |
| `ShowText` | On top of `FontMetrics`: `PS_show2` and `PS_string_geometry` side by side, the text position and the interpreter's pen, `PS_continue_text2`, `PS_symbol`, `PS_glyph_show`. |
| `ShowText_proofs` | Its inductive invariant and theorems. |
| `Memory` | `ps_memprof.c` on top of `malloc`, `realloc` and `free`: operators on a heap. |
| `Store` | Composes with `Memory`: parameters, values, resources, dictionary, bookmarks and the string buffer on one heap. |
| `Ascii85` | `ps_ascii85_encode` and the filter of the interpreter that reads what it writes. |
| `Ascii85_proofs` | That the filter gives back the data. |
| `MCPSGraphics`, `MCPSResources`, `MCHashTable`, `MCHyphen`, `MCShowBoxed`, `MCShowText`, `MCStore`, `MCAscii85` | The modules of the same names for TLC: the values of their constants. |

Everywhere an operator with the name of a function of the library maps the record
the function is called with to the record it leaves behind, and an action is one
call by the program. Where the calling program must take care of something for the
library to work, the module has a constant with the names of these rules, and its
comments say what each of them means. Every rule was tried out: without it TLC violates
one of the properties.

### PSDocument

The state is `psdoc`, a record with the fields of `struct PSDoc_` that control
depends on, `opens` (how often it was opened, to bound the runs) and `pending`
(the caller's own count of `PS_save` less `PS_restore` on the canvas it is on).
Each function of the library is an operator with its name that maps the record it
gets to the record it leaves: the early returns are its conditions, the functions
it calls are applied in their order. An action (`BeginPage`, `Save`, ...) is one
call of the API by a program.

Two fields are not in the struct. `phase` and `nest` are the structure of the text
written so far: `%%BeginProlog` and the brackets of pages, procedures, dictionaries
and `gsave` push and pop `nest`; closing what is not innermost makes it `Garbled`.
Text that opens or closes nothing leaves it alone.

Writing goes through `writeproc`, and to `fp` if that is the library's own
`ps_writeproc_file`. A call through either null pointer sets `life` to `"crashed"`,
and the program stops there. Running out of memory is left out: every allocation
succeeds.

`ClientRules` says what the calling program takes care of by itself:

* `open_first`: output is produced only between opening and closing;
* `header_first`: no shading pattern is made before the prolog has begun (`PS_shading_pattern`
  is the only definition that does not begin it by itself);
* `page_between`: no page is begun inside a page, template, pattern or font;
* `balance`: every `PS_save` gets its `PS_restore` on the same canvas;
* `levels`: it counts the levels and leaves one to the calls that save and restore
  themselves (`PS_show2` for decorated text, `PS_place_image`).

Each property states which of them it needs; the run `any` has none of them, the run
`documented` has all.

### PSGraphics

`gfx.agstates` is `psdoc->agstates[0..agstate]` with colours and their `invalid`
flags, `gfx.font` is `psdoc->font`. On the other side are what the PostScript
interpreter has (`interp`, one level for each `gsave` of the canvas; a page begins
black, since it is enclosed in `save`/`restore`; a template, pattern or glyph
inherits what it is executed with) and what the caller asked for on this canvas
(`wanted`). `mark` records what the last call
painted with another colour than was asked for: the colour used and the colour wanted.

A colour has a space: a gray, rgb or cmyk colour of the device, a spot colour made from
one, or a pattern. `painttype` are the patterns `PS_begin_pattern` and
`PS_shading_pattern` have made, `defined` the names of those the interpreter knows at this
place of the output: what was made on a page is undone by its `restore`. A pattern of
PaintType 2 has no colour of its own and is painted over the one before it, which
`PS_setcolor` keeps as `prevcolorspace` in the same `PSColor` (`over`). `Written` is the
switch in `ps_setcolor`, with the ways in which it leaves the interpreter with another
colour than the one to be written.

`GraphicsRules` are four more rules of the caller: `colourspaces` (it names only those
there are), `setgray_recoloured` (after `PS_setgray` it expects no colour until it calls
`PS_setcolor`), `defined_here` (it uses a pattern once it is ended, and one made on a
page only there) and `over_device` (it sets a pattern of PaintType 2 only right after a
device colour). Without any of them TLC violates `PaintAsAsked`.

### PSResources

`res.fonts` and `res.images` are `psdoc->fonts` and `psdoc->images`: sequences of
slots, grown by `Slots` when they are full (`PS_REGISTER_RESOURCE`), the first free
slot used first. A font is a pointer, since `psdoc->font` is compared with the slots
as a pointer: `res.heap` says which font lives at an address, and `malloc` takes any
free one, so that an address comes back. An image or template is the number it was
made under.

The other fields are the two sides a program relies on. `held` is what the caller
believes its ids denote. `known` and `forms` are what the interpreter knows by name
where the output has got to: the data of a reusable image, until the `restore` of
the page it was defined on, and the form that `template%d` names, which is the id,
that is, a slot that may be used again. `placements` is which template places what,
and under which id; a template is executed by these names whenever it is placed.

`ResourceRules` are what the caller takes care of: `font_kept` (it does not delete
the current font), `templates_kept` (it does not close a template that another
places), `ended_first` (a template is placed once it has been ended),
`local` (a template places nothing that was made on a page) and `reusable` (nothing
opened while `imagereuse` was false is placed in a template). Each is needed:
without `font_kept` TLC violates `HandlesDenote`, without any of the others
`PlacedAsMeant`. An *image* may be closed right after the template that places it, as
`doc/pslib.sgml` says; a template may not.

Left out: names of images are `rand()` numbers and taken to differ; the memory of
the failure paths of `PS_findfont`; the names of encodings in the output; the
tables of patterns, shadings, spot colours and gstates, which no call gives back (what they
are used for is in `PSGraphics`).

### HashTable and Map

`ht` is the table: `pp_entries`, `p_nr`, `i_items`, and `he`, the entries by address
with `p_next` and `p_prev`. `transpose` and `move_to_front` relink a chain as the
source does, neighbour by neighbour; `search_in_bucket` is `Search` (what is found)
and `Touch` (what is moved). `ght_insert` computes the bucket before it rehashes.
`it` is the iterator of one loop over the table, which may insert, look up, remove
and rehash in its body. `ret` is what the last call returned, so that the refinement
is about results as well.

`TableRules`: `manual_rehash` (automatic rehashing stays off: nothing in pslib
turns it on), `safe_removal` (a loop removes only what it was given) and
`no_reordering` (a loop looks up nothing while a heuristic is set). Each is needed;
without them TLC finds an entry in the wrong bucket, the iterator on a freed entry,
and a key given twice.

`ImplementsMap` is the refinement: the chains are the map, and the keys the iterator
would still come by are the ones to be delivered. `Map` says what an iteration
promises: everything that was there and has not been removed, each key once, and
what is inserted meanwhile perhaps.

### Hyphen

A state of the automaton is a prefix of a pattern, so the states, their transitions
and `hnj_get_state` become sets of sequences. `Load` reads a line, `Hyphenate` is
the call of `PS_hyphenate` with the characters it passes over, `CopyLetter` and
`StartReading` make `prep_word`; then `Transition`, `FallBack` and `Restart` are the
three ways through the loop over its letters, and `Return` moves the digits.
`Fallback` is computed as in the source, where the search ends before the empty
suffix.

`Sound` holds for every dictionary: no digit is raised by a pattern that does not
occur there. `AsDefined` says that all are found. It holds for dictionaries that are
`Preprocessed` (a pattern includes those its end consists of, as the comment in
`hnj_hyphen_load` assumes) and `Dense` (no state has to give up the letter at
hand). Why the second is needed is the first of the disagreements below.

### ShowBoxed

`textcopy` with `curpos`, `lastdelim` and `lastbreak` as in the source; `StartLine`,
`NextWord` and `EndLine` are the beginning of the outer loop, a round of the inner one,
and the rest of the outer one. `Return` computes the result and `Continue` is a caller
who shows the rest in another box. A glyph is one unit wide and a line one unit
high; widths only ever get compared. Alignment is left out, apart from which blanks
are counted and whether they are stretched.

A word ends at a blank, a `-`, a newline, a `'\r'`, a soft hyphen (0xAD) or at the end of the
text (`Delimiters`). `Morechars` and `MorecharsLeft` are the two places that decide how much of
the delimiter belongs to the line: the first when the line is measured, the second when it
is shown. They agree on all but `'\r'` and the soft hyphen, which are shown and not measured.
For `'\r'` this makes no difference, since no input encoding has a glyph for it (`Glyphs`); by the soft
hyphen a line may get wider than the box. `LinesFit` goes by the width `PS_show_boxed` reckons
with (`Reckoned`), in which a soft hyphen at the end of the line is left out; see the disagreements.

`BoxedRules`: `wide` (the box is wider than the indent; otherwise a line
has no room even for its first word and collects nothing) and
`one_empty_line` (paragraphs are separated by one empty line, and the word before it
fits; otherwise a line gets a negative length).

### FontMetrics and ShowText

`font` is an `ADOBEFONTMETRIC`: its glyphs with their widths, the lists `kerns` and `ligs` of
each as functions of the successor (what is added later is found first, and a removal
removes all of a pair), and the names in the font encoding. `reading` is what is still to
be read: `handlechar` and `handlekern` take a line of the file, `rmkern` and `ligcommand` a
LIGKERN command of the encoding file or, if it has none, one of the built-in. A font
of Type 3 gets its glyphs one by one, and kerning and ligatures at any time.

`ShowText` shows a text and measures it at once: a step is one round of the loop of
`PS_show2` and one of `PS_string_geometry`, which do not read what the other writes. What
`PS_show2` counts (`show.overallwidth`) is what it moves `pos.tx`, the text position, by;
`show.held` is the width of the glyphs collected and not yet written, and `pen` is where the
interpreter is: it moves by what is written, that is, by the width of the glyph that
has been encoded, which for a glyph missing in the font encoding is `?`. A ligature's
look-ahead is the recursion of `ps_check_for_lig`, as a function. The rounding of what is
printed with two digits is left out, as are the y coordinates and the size of the font,
by which both loops multiply at the end.

What a property needs of the caller is its precondition. `Encoded`: the glyphs of the
input encoding that the font has are in its font encoding. `EndsVisible`: with extra space
between glyphs a text begins and ends with one. `OneWord`: a text that is measured with
extra space has no blank. And `UnkernedAssumption`: nothing is kerned with a blank behind
it, or the LIGKERN commands `* {} space` undo it. Each is needed: the disagreements
below say what happens without.

### Ascii85

`PutGroup` is a round of the loop, `PutTail` what follows it, and `read` is what the filter
has made of what was written so far. `Digits` divides the buffer by one power of 85
after the other, as both loops do; the tail leaves out the last of the digits, which
the filter fills up with the highest one (`Filled`, `Decode`). `Signed` is the conversion
of a `char`. Bytes have `Byte` values and digits `Base`, 256 and 85 in the source. The
breaking of lines is left out: the filter skips blank space. For less than four bytes the
loop's bound wraps around, and the model stops there (`"beyond"`).

### Memory and Store

The heap is a function from addresses to blocks. A block has `refs`, the blocks it
owns, and `data`. `malloc` takes the lowest free address, so that what was freed is
used again at once and a stale pointer points into another object. `PS_mp_malloc`,
`PS_mp_realloc` and `PS_mp_free` keep `memlist`, `summem` and `peakmem` along.

`Store` has all the calls that put something on this heap by name or id:
`PS_set_parameter` (a plain parameter, a resource of a category with or without names,
`hyphendict`), `PS_set_value`, `PS_add_bookmark` with its table, its tree and the
allocations that may fail in it, opening in memory, everything that writes,
`PS_get_buffer`, `PS_close` with `_output_bookmarks`, and `PS_delete`. `want` is what
the caller asked for, `out` is what it got: pdfmarks and the buffer.

A document may be opened again, in memory or elsewhere, after it was closed: `doc.writeproc`
says where it writes to now, and a buffer it wrote to before is kept.

`StoreRules`: `table_kept` (the table of bookmarks does not fail to grow once there is
one), `one_dictionary` (`hyphendict` is not changed once loaded), `no_exact_fit`
(nothing written ends one byte before the buffer does) and `one_buffer` (a document is opened in
memory once). Without any of them TLC violates `MemoryAccounted`: a lost table, a name freed
twice, a byte written behind the buffer, a lost buffer. The fifth, `closed_first`, is of another
kind: a document is opened again only after it was closed. Without it nothing stated here is violated,
but what `PS_close` then does depends on the scopes, which are the subject of `PSDocument`.

`OutlineReadBack` reads the pdfmarks as a viewer does, by their `/Count`, and compares
the outline with the parents the caller gave.

## Runs

| Run | Shows | Bounds |
|---|---|---|
| `any` | No rules at all: type and bounds of the stack, nesting, depth, `page_open`, what `PS_delete` closes | 20 scopes as in the source, 3 levels, 2 pages, opened twice, all kinds of output |
| `documented` | All rules: no crash, scope and text of the prolog agree, levels agree, every document can be brought to a trailer, the output implements `DSCStream` | 4 levels, so that a text may be decorated two levels deep; 2 pages |
| `colours` | Painting is done in the colour asked for, across levels and canvases | 1 colour, 1 pattern, 1 font, 2 levels, 1 page |
| `paints` | The same for all kinds of colours | 2 colours, 1 spot colour, 1 pattern, 1 font, 1 level, 2 pages |
| `handles` | Fonts have one owner, ids denote what they were given for, the current font is one the caller holds, templates are shown as meant | tables of 1 slot that grow by 1, 2 addresses, 3 things made, 2 levels, 2 pages |
| `table` | Chains are linked and counted, iterations end and give no key twice, the table implements `Map` | 3 keys, 2 values, 3 addresses; tables of 1 and 4 buckets |
| `hyphen` | The automaton is sound, complete for dictionaries that are preprocessed and dense, and ends | 8 lines of which a dictionary has up to 6, words of up to 6 letters |
| `boxed` | No character is lost or shown twice, lines fit, blanks are counted right, hyphens stand within words, all of the text is shown in the end | all texts of up to 5 characters of `a`, blank, `-`, newline, of up to 4 of these, `'\r'` and soft hyphen, of 6 of `a`, blank, newline, and longer ones with a word to hyphenate before every delimiter; 5 kinds of boxes |
| `store` | Every block has one owner and is counted once, also if the document is opened again; names are found with what was last set, outline and buffer read back as written | 6 calls, 3 of them naming something; 2 names, 2 strings; table step 1, buffer of 4 bytes that grows by 3 |
| `text` | The library knows where the pen is behind a text; what is measured is what is moved by; ligatures stand for the characters they replace, and none is missed | 8 glyphs, 5 font files and a Type 3 font; all texts of up to 2 characters of `f`, `i`, blank and the one that breaks ligatures, and longer ones; extra space of 0 and 4 tenths, right of 100 points the position is set anew |
| `ascii85` | The filter gives back the data that was encoded | bytes of 6 values, 5 digits; all groups, all tails behind 3 groups, 2 groups and a tail |
| `v_prolog` | A shading pattern made first stands before the prolog | 1 page |

Why the bounds are enough.

* Two pages: everything the library carries from one page to the next shows on the
  second. Two openings: the third adds to the stack what the second did, and the
  theorem `StackStaysShallow` covers them all. The depth of save levels only matters
  at zero and at the limit, so 3 or 4 stand for the 10 of the source. `MaxScopes` has
  its real value; with a shorter stack the theorems cover the refused
  `ps_enter_scope`. Two colours: a colour is only ever compared with another. With
  levels, black and a pattern are the two; what a pattern is painted over needs a
  second device colour and a spot colour, and shows without levels. One pattern is of either
  PaintType, and is the one before itself when it is set twice.
* Tables of one slot instead of five grow at the second and third object, and are
  full whenever nothing was given back. Two addresses let one be used again while
  another font lives. Three things made are a template, one that places it, and one
  that takes over its slot.
* Three keys in one bucket make a chain with a first, a middle and a last entry. In
  four buckets two of them still meet and the third lies apart, so that an iteration
  passes over empty buckets.
* Eight lines: all patterns of two letters over two make a dictionary dense, one of
  three goes beyond them, one replaces another, two are for the beginning of a
  word. Six letters hold every pattern at the first, a middle and the last place.
* All delimiters of a text lie next to each other in every order within four
  characters, `-`, blank and newline within five, and lines of 3, 4, 8 and 10 units end before, at
  and behind each. Three characters are enough for a line of 3 units that ends with a soft hyphen
  it was not measured with.
* Six values and five digits are in the same relation as 256 and 85: a digit is less than a
  byte, and five digits hold four bytes. The theorem `EncodingReversible` covers the others.
* A ligature of three characters is made by either look-ahead, and broken at each place;
  the fonts lack a glyph, a name in the encoding or every ligature, and kern beside
  blanks until the commands are read. `PS_continue_text2` cuts the position to whole
  points, which shows with widths in tenths; `MaxX` only ends the line.
* A store of six calls opens, fills twice across a growth of the table or the buffer,
  takes, closes and deletes. Names and strings are symmetric: they are only compared.
  `Address` and `MaxMem` are more than six calls can use.

Deadlock is not checked: a program may stop after `PS_delete`, and no action is left
after a crash.

Fairness. The library is sequential, and within a call it runs until it returns.
This is `WF_vars(Run)` in `Hyphen` and `WF_vars(Step)` in `ShowBoxed`. Two more are about
the program, as the library's own loops are written: a loop over a table calls
`ght_next` until it returns NULL (`WF_vars(Following)`), and who shows a text in boxes
goes on with the rest (`WF_vars(Continue)`). `IterationEnds`, `HyphenationEnds` and
`AllShown` rest on these. In the other modules which call comes next is the
program's choice, for which no fairness can be assumed; what one would want of
liveness there, that a document can always be ended, is the state property
`AlwaysClosable`, which runs the closing calls from every state.

## Disagreements

The run `v_prolog` is a disagreement of the code with the manual, which says that "pslib will
put everything before the first page into the prolog" (`doc/pslib.sgml:560`). All other
definitions begin the prolog before they write; `PS_shading_pattern` does not
(`pslib.c:5733`), so that its text comes out before the header when it is called first.
The rule `header_first` keeps this out of the other runs.

More were met while modelling. The models do what the code does; where a
property would not hold, a rule keeps the case out, or the property is stated so
that it does not cover it.

* The search for the fallback state of a state ends before the empty suffix
  (`hyphen.c:333`), so that a state without a longer suffix falls back to -1, the automaton
  begins again with the *next* letter (`hyphen.c:426`), and a pattern that begins with the
  letter at hand is missed. The comment at 477 says that patterns "may occur anywhere in the
  word". `AsDefined` has the condition `Dense` for that.
* `ps_ascii85_encode` shifts the last one to three bytes in with their sign
  (`ps_util.c:704`), while the groups before are cast to `unsigned char`: where `char` is
  signed, a second or third byte of 128 or more spoils the bytes before it. `DecodesBack` has
  the condition `LowTail` for that.
* The loop of `ps_ascii85_encode` subtracts four from an unsigned length (`ps_util.c:677`): with
  less than four bytes it encodes what lies behind them. The model stops there.
* `PS_end_page` forgets the font but not that the colours were written (`pslib.c:2083`): a
  colour set on one page counts as written on the next, which begins black. `PaintAsAsked` is
  about the colours asked for on the same canvas.
* `PS_begin_page` writes the header before it checks the scope (`pslib.c:2021`), so that a
  refused call ends the prolog. The rule `page_between` keeps it out.
* `PS_delete` goes on when `PS_close` refuses (`pslib.c:1399`): the file stays open and has
  no trailer.
* `PS_end_page` checks `agstate`, which `PS_end_template` and `PS_end_pattern` leave as it
  is (`pslib.c:2068`, `5599`): a level saved in a template keeps the next page from ending.
* `PS_setgray` writes at once and leaves a pending colour pending, which then replaces
  the gray (`pslib.c:3356`). The rule `setgray_recoloured` keeps it out.
* A pattern of PaintType 2 over a spot colour sets the colour space and not the pattern
  (`pslib.c:1192`), and over a pattern, itself included, neither (`pslib.c:1210`); a name of a pattern that is unknown because its
  page has ended is an error of the interpreter. `over_device` and `defined_here` keep
  them out.
* Inside a pattern of PaintType 2 colours are refused by the scope, which in a path is
  not that of the pattern (`pslib.c:1126`): there they are written.
* `PS_setcolor` reports a colour space it does not know and goes on without one
  (`pslib.c:3835`). The rule `colourspaces` keeps it out.
* `PS_getfont` without a font finds an empty slot and returns its id (`pslib.c:4410`).
* `PS_begin_font` makes its font current, and it stays so on the next page, where
  `PS_end_page` had enforced a new `PS_setfont` (`pslib.c:5908`).
* `PS_mp_realloc` does not update `peakmem`, and with a null pointer takes a free slot
  and frees its `caller` once more (`ps_memprof.c`).
* A bookmark with `open` not 0 gets a negative `/Count`, which a viewer shows closed
  (`pslib.c:1338`); the table of bookmarks is never freed, as the comment at 1386 says, and
  is lost when `realloc` fails (`pslib.c:6376`).
* `hyphendict` set to a second file frees the name of the first twice; set to the same file
  again, it loses the old dictionary (`pslib.c:1597`).
* `str_buffer_write` puts the terminator one byte behind the end of what was written,
  and its bound has room for one less (`ps_strbuf.c:107`).
* `PS_open_mem` without a procedure forgets the buffer of an opening before (`pslib.c:1303`), which
  is never freed then. The rule `one_buffer` keeps it out.
* `ght_insert` computes the bucket before an automatic rehash (`hash_table.c:352`).
* Two empty lines between paragraphs: the second has no characters, and one is taken off
  its length (`pslib.c:2664`, `2775`). The rule `one_empty_line` keeps it out.
* A line that `PS_show_boxed` breaks at a soft hyphen of the text shows it (`pslib.c:2665`) without
  having measured it (`pslib.c:2607`), though the comment before (`pslib.c:2600`) says that a "'-'
  or hyphen must be displayed and taken into account for stringwidth". In a box 5 wide,
  `ab c` in front of a soft hyphen measures 4 and fits, the word behind it does not, and 5 are shown.
  `LinesFit` excepts it; without the exception TLC finds such a line.
* `PS_show2` counts extra space behind every glyph but the last character's, and writes it
  before every glyph but the first character's (`pslib.c:2287`, `2295`). For a text that
  begins or ends with a blank, or with a character that is not shown, the text position is
  not where the pen is. `EndsVisible` keeps it out.
* `PS_string_geometry` counts neither extra space nor kerning at a blank (`pslib.c:4288`). The
  commands that remove such kerning are not carried out for encodings called
  `builtin`. `OneWord` and `UnkernedAssumption` keep it out.
* A length of 0 is all of the text for `PS_show2` and nothing for `PS_string_geometry`
  (`pslib.c:2230`, `4274`); the property compares them where they take the same.
* The look-ahead for a ligature goes on behind the length (`pslib.c:2264`), so that more
  characters are shown than `doc/PS_show2.sgml` allows. The character that breaks
  ligatures is passed over only behind a glyph that has any (`ps_util.c:382`).
* A glyph without a place in the font encoding is written as `?` and counted with its own
  width (`ps_util.c:568`). `Encoded` keeps it out.
* `PS_continue_text2` keeps the text position in variables of type `int` (`pslib.c:2389`).
* `checkligkern` looks among the glyphs for the operator of a ligature instead of its second
  glyph (`ps_afm.c:977`): the kerning of the pair is never removed.
* `PS_add_kerning` reports a pair that exists and adds it all the same (`pslib.c:6050`).
* The parameter that `doc/` calls `ligature` is `ligatures` in the code (`pslib.c:2209`).
* `PS_show_boxed` puts a hyphenated word together in 100 bytes without looking at its
  length (`pslib.c:2712`): lengths are those of the instance, and the model does not
  reach it.

## Proofs

`PSDocument_proofs` is about every `MaxScopes >= 2`, `MaxGState >= 1`, all bounds and every
set of rules; `PSGraphics_proofs` also about every set of colours, spot colours, patterns,
fonts and decorations; `PSResources_proofs` about every set of addresses, any number of objects and
tables that grow by any number of slots; `Hyphen_proofs` about every set of letters, every dictionary and every word;
`ShowText_proofs` about all fonts, encodings, texts, lengths and values within the named
assumptions; `ShowBoxed_proofs` about all texts, boxes, letters and breaks; `HashTable_proofs` about every
set of keys and of addresses, every hash function and tables of any size; `Ascii85_proofs` about all data, and all sizes of bytes and digits of
`SizesAssumption`.

| Theorem | States |
|---|---|
| `TypeCorrect` | `Spec => []TypeOK`. `scopecount` and `agstate` always index their arrays, whatever is called. |
| `ScopesNest` | `Spec => []ScopeNesting`. |
| `StackStaysShallow` | `Spec => []StackDepth`. The stack has two levels and four for every opening at most: the error of a full stack, at which no caller of `ps_enter_scope` looks, does not happen in a PSDoc opened once. |
| `OpenIsWritable` | With `open_first` and at most one opening, `Spec => []NoCrash`. |
| `PageOpenIsRight` | With `MaxScopes >= 3`, `Spec => []PageOpenAgrees`. |
| `DeleteIsClosing` | With `MaxScopes >= 3`, the action property `Spec => DeleteClosesWhenItCan`. |
| `PrologScopeIsRight` | With `MaxScopes >= 3`, `page_between` and at most one opening, `Spec => []PrologScopeAgrees`. |
| `DocumentCanBeClosed` | Under the same assumptions `Spec => []AlwaysClosable`. |
| `LevelsAreRight` | With `MaxScopes >= 6`, all rules and at most one opening, `Spec => []LevelsAgree`. |
| `OutputIsInOrder` | Under the same assumptions the refinement `Spec => ImplementsDSC`. |
| `DocumentWithGraphics` | `GSpec => Spec`: the theorems about `PSDocument` are theorems about `PSGraphics`. |
| `ColoursAgree` | With `MaxScopes >= 6`, all rules of `PSDocument` and of `PSGraphics` and at most one opening, `GSpec => []GInv`, the inductive invariant of colours. |
| `FlagsAreRight`, `PaintIsAsAsked` | Under the same assumptions `GSpec => []FlagsAgree` and `GSpec => []PaintAsAsked`. |
| `DocumentWithResources` | `RSpec => Spec`: the theorems about `PSDocument` are theorems about `PSResources`. |
| `FontsOwnedOnce` | `RSpec => []OwnedOnce`. |
| `HandlesAreRight` | With `font_kept`, `RSpec => []HandlesDenote`. |
| `DefinedFontIsCurrent` | With `MaxScopes >= 3`, `font_kept` and at most one opening, `RSpec => []FontBeingDefined`. |
| `PlacedIsAsMeant` | With `MaxScopes >= 4`, `page_between`, `templates_kept`, `ended_first`, `local`, `reusable` and at most one opening, `RSpec => []PlacedAsMeant`. |
| `AlwaysLinked` | With `manual_rehash`, `Spec => []Linked`. |
| `NeverTwice` | With all rules, the action property `Spec => NoKeyTwice`. |
| `TableImplementsMap` | With all rules, the refinement `Spec => ImplementsMap`. |
| `HyphenTypeCorrect`, `ReadsTheWord`, `NoWrongBreak` | `Spec => []HTypeOK`, `[]StateWasRead`, `[]Sound`. |
| `FindsAllBreaks` | `Spec => []AsDefined`. |
| `EncodingReversible` | `Spec => []DecodesBack`. |
| `LinesAreFit` | `Spec => []LinesFit`, that is, but for a soft hyphen of the text at the end of a line. |
| `BlanksAreRight` | With `wide`, `Spec => []SpacesCounted`. |
| `HyphensAreWithin` | With `MinChars >= 3`, `Spec => []HyphenWithin`. |
| `NothingLost` | `Spec => []TextKept`. |
| `TextTypeCorrect`, `PositionIsPen`, `WidthIsRight` | `Spec => []XTypeOK`, `[]PenKnown`, `[]MeasuredAsShown`. |
| `NoGlyphAstray`, `NoLigatureMissed` | `Spec => []GlyphsStandForText`, `[]NoPairMissed`. |

### The document

The calls of the library are many and made of few parts. `Step(d, e)` says in which five
ways a part changes a document: it writes, it enters a scope that may lie on the
current one, it leaves the current scope, it begins or it ends the prolog. A set of
documents is `Stable` if no step leads out of it. The lemmas of the first half follow
the code from `ps_enter_scope` and `ps_printf` up to the calls and show once that each
call leads from a stable set into it (`Calls`); only opening, closing and deleting
are described by themselves (`Opened`, `Finished`). Each theorem then needs a stable set
and a look at these three.

* `TypeOK` and `ScopeNesting` are not inductive. `ps_leave_scope` pops when the top is the
  scope named, so that the stack stays non-empty needs that its bottom is
  `OBJECT`, which nothing pops. `ps_write_ps_beginprolog` pushes `PROLOG` onto whatever is
  current, so nesting needs that before the prolog only `OBJECT` and `DOCUMENT` can be
  on the stack, and that the header is written only after the prolog began. These form
  `Good`.
* `StackDepth` does not follow from nesting either, since a document may lie on
  anything. `Deep` gives each scope the room that may come to lie above it (`Slack`: three
  above a document, one above a page), and the prolog, which is entered once, one more.
  Before the first opening nothing gets onto the stack because whatever would put it
  there writes first, and crashes.
* `NoCrash`: an open document lies directly above the object and has no other one above
  it (`Writable`), so that `PS_close`, which may take the file away, takes away the
  last scope, and in the scope that remains every call that does not produce output
  is refused (`Idle`, `IdleCall`).
* `PageOpenAgrees` is about two records of the same fact, one of which is set where
  `ps_enter_scope` may refuse. `PageAgrees` is its form that steps keep: one document at
  most on the stack, and `page_open` exactly when a page is on it. It holds as long as there is one opening,
  and it needs `Deep`: with room on the stack `PS_begin_page` is never refused after it
  has set the flag. `DeleteClosesWhenItCan` follows from it call by call: what `PS_delete`
  calls before it frees ends the page and the document.
* `PrologAgrees` says the same of `PROLOG` and the part the output is in.
* `AlwaysClosable` is about calls that have not been made: ending what is innermost, again and
  again. An open document is still on the stack (`OnDocument`), the prolog is, if at all, directly
  above it and no header has been written (`Good`), and so each of these calls leaves
  less to do (`Left`: the scopes, the levels, and the prolog to get out of) or closes the
  document (`WindsDown`). How often they are made is the argument of a recursive function, which
  exists (`RepetitionExists`), and the least number of calls after which there would be more
  left than there should be leads to a contradiction.
* `OutInv` gives each scope the construct it
  stands for in the output: what is open there is the stack of scopes read from the
  bottom, with a `gsave` for each level of `agstate` on the canvas being drawn on. In the
  document scope and in a font nothing can be saved; that is what the rule `levels` is
  for, and what `LevelsAgree` states. Each call is then followed through what it writes:
  `PS_begin_page`, for instance, the rest of the header, the end of the prolog and the
  beginning of the page, which together are `BeginPage` of `DSCStream`. A call that leaves
  what is open and the part the output is in alone is a stutter.

`MaxScopes >= 3` and `MaxScopes >= 6` are weaker than the code, where `MAX_SCOPES` is 20
(`ps_intern.h:316`); six is the depth `StackStaysShallow` gives a PSDoc opened once. The
run `documented` has `MaxScopes = 20`, all rules and one opening, and so satisfies every
assumption of these theorems.

### Resources

Every call of `PSResources` is a call of `PSDocument` with something done to the tables, or
leaves the document alone; so `Good` and what else is invariant there is at hand here.

* `Owned` is `OwnedOnce` in the form in which steps keep it: the slots that are not empty
  and the addresses that are in use correspond one to one. Registering takes the
  first empty slot (`FirstFree`, which exists since the numbers are well ordered) or one of
  the new ones when the table has grown, and an address `malloc` had not given out.
* `HeldRight` says what the caller's ids denote by way of the tables: the ids held are exactly
  the slots that are not empty, that of a font the slot that points to it and that of an image
  the slot with its number. Closing an image or deleting a font empties the slot and takes the id
  out of `held` at once. That `psdoc->font` lives (`CurrentLives`) is not kept by `PS_delete_font`,
  which is what the rule `font_kept` is for.
* `FontBeingDefined` relates the stack of scopes to a pointer. Only `PS_begin_font` enters the
  scope FONT (every other call keeps `NoFont`), and above it lie at most a glyph and
  a path (`AboveFont`), so that every call that would change `psdoc->font` or delete the font
  is refused until the font has ended (`Defining`). A second document may lie on a font
  and lead everywhere, so that one opening and `PageAgrees` (hence `MaxScopes >= 3`) are needed.

* `PlacedAsMeant` is about what a template places, and what those templates place in turn,
  by slots that are used again and by names that `restore` undoes. `TemplatesInv` keeps the
  objects in the order they were made, so that a template places older ones only
  (`Numbered`), the template being defined is the newest and has its slot to itself
  (`Newest`), what has ended has its name in the output (`Named`), and what a template in hand places
  is in hand under the same id or is a named image made outside of pages (`Placed`).
  `Known` says which names the output still defines. `TemplateOpen` relates the table to the
  stack of scopes: with the definition of a template come the scope on top of the stack and at
  most a path above it, so that nothing else is begun, opened or made meanwhile; a page
  begun there would break this, hence `page_between`, and `MaxScopes >= 4` lets the stack hold a
  template above a page. `Unturned` is about the number of the page
  before one was begun. `Shows` is recursive. That a function with its definition exists
  comes from the largest set all of which is shown by what is in the set (`ShowsIs`);
  the least template in hand that it would not show then contradicts `Placed`
  (`ShownOnPage`). The run `handles` satisfies every assumption, with `MaxScopes = 20`.

### Colours

`ps_setcolor` writes a colour when something is painted and only if pslib believes that the
interpreter has another one. `PaintAsAsked` and `FlagsAgree` are about the current
level; neither is inductive, because `PS_restore` brings a level back that was left long ago.
`GInv` has four parts:

* `Coherent`: pslib's levels, the interpreter's and those of the caller's wishes are equally
  many, and each is `Right`. The colours remembered there are the ones asked for, and can
  be painted (`Meant`); one that is not to be written is the interpreter's (`UpToDate`).
* On a live document the levels are as many as `agstate` says, and one more. That `PS_save`
  never meets the last level of the array, nor `PS_restore` the first, is not to be seen
  from the colours: it comes from `LevelsAgree`, and so from `OutInv`.
* Outside of a canvas no colour is wanted (`Wishless`). A new page, pattern or glyph begins
  with the colours its interpreter begins with, while pslib goes on with those it remembers;
  this is right only because nothing is asked for yet. A colour set between canvases is
  remembered, but asked for on none.
* What was painted in the last call had the colour asked for (`mark`).

`OutInv` and `PageAgrees`, the invariants of the document, hold before and after each call
(`Around`), since a `PSGraphics` is a `PSDocument`. From them follows what a call needs
to know about where it is: on a canvas lies at most a path (`CanvasTop`), so that pages and
definitions begin on no canvas. `Keeping`, `Repaints`, `Recolours` and `Cleared` are the ways
in which the parts of a call change colours, and each keeps `Coherent`.

Two calls need more than their parts. `PS_fill_stroke` fills between `gsave` and `grestore`, so the
colour it fills with goes with the `grestore` while pslib remembers it as written; stroking then
has to overwrite that belief, and does. A text with decorations saves and restores pslib's levels
around its lines, and the interpreter's levels follow.

What each rule is used for: `setgray_recoloured` at `PS_setgray`, which writes at once and does
not tell `PS_setcolor`; `colourspaces` where a colour without a space would be asked for;
`defined_here` and `over_device` where a pattern is set, so that it stays `Paintable` as
long as it is wanted. All four, and all of `PSDocument`, hold in the runs `colours` and
`paints`, which have `MaxScopes = 20` and one opening and so satisfy every assumption here.

### The hash table

`Linked` is local: it speaks of an entry and its neighbours. What the operations rely on is
global, that the links of a bucket spell one finite sequence of entries, the same one in both
directions (`Path`, `Holds`); a ring of entries beside the chain would be linked locally and
found by no search. `WellLinked` says that each bucket holds a sequence without repetitions of
entries whose keys belong there, no two with one key, that every entry in memory is in one of
them, and that the counts are their lengths. Each operation is then followed through the
sequence it leaves: with an entry in front (`PlaceFirstIs`), without one (`RemoveIs`), with
two neighbours swapped (`TransposeIs`) or one moved to the front (`MoveToFrontIs`), while all
other buckets keep theirs (`Relinked`, `Rearranged`). `Chain`, `Walk` and the loop of
`ght_rehash` are functions on numbers. That they are what they seem, `ChainIs`, `WalkIs` and
`RehashIs` show by looking at the least number for which they would not be (`LeastNumber`,
which follows from the well-foundedness of numbers).

`AlwaysLinked` needs the rule `manual_rehash`: with automatic rehashing `ght_insert` puts the
new entry into the bucket calculated before the table changed its size (`hash_table.c:351`),
and `BucketOf` of its key is another one.

For the iteration, `Iterating` says that what lies ahead of it in its bucket is a path of
entries it has not seen (`Ahead`), and that the keys it has seen lie elsewhere in this bucket
or in one before it. An insertion puts its entry first, hence behind the iterator or into
another bucket. A removal of a key already given does not touch what lies ahead; that of
another key could free the very entry the iterator goes on with (`safe_removal`). A lookup
with a heuristic could move entries from behind to ahead (`no_reordering`). `NoKeyTwice` and
the refinement follow: `MapOf` and `TodoOf` are the map the buckets stand for and the keys
ahead; each call is a step of `Map`, and making a table or setting a flag a stutter. A rehash or
the end of the table ends the iteration.

The run `table` has all three rules and so satisfies every assumption here.

### Hyphenation

`HInv` adds to the three invariants what the phases before reading guarantee. The
heart is that falling back keeps `StateWasRead`: a proper suffix of what was read last was
read last (`FallsBack`), and reading one more letter after it is again (`EndsOnto`);
then a pattern that is raised lies where it occurs (`RaisedDigits`).

`FindsAllBreaks` is the converse: that falling back never falls too far. `CInv` adds four
facts about a word that consists of letters. Prefixes of states are states (`Closed`), since the
reading of a pattern makes all of them. The word between its dots is the one given (`Copied`). No
state that ends where the automaton is and goes on with the next letter is longer than
the automaton's own, and the automaton gives up a letter only if there is none
(`Longest`); this is where `Dense` is needed. And the digits of every pattern that has
ended so far have been raised (`Raised`): the state then is the longest that ends there, so
the pattern is a suffix of it, and `Preprocessed` says that the state has the
pattern's digits too. The one exception is the dot behind the word, which the automaton may
give up although it could begin a word; the digits it would raise are cut off.

### Text

Behind a text nothing is known that was not known in its middle, so `IInv` says what
holds in every round. `PenInv`: with what it has collected, the pen is where the library
is, less the space counted behind the last glyph and not yet written (`Owed`: none
before the first character and behind the last). That kerning is never written where the
library did not count it needs that there is no glyph before the first character, and
`last > 1` else. `InStep`: both loops are at the same character with the same sum.
At a blank this needs that kerning with a blank is 0, which is `KernInv`, an invariant of
the reading of fonts: kerning beside blanks is there only while the command that
removes it is still to come; and `FontSet`, that text is shown in fonts that are ready.

`ps_check_for_lig` calls itself, in the model a function of the glyph and the number of
characters looked ahead, and `Made`, all that ligatures can make of a part of the
text, is a function of the part's ends. That such functions exist, and are what their
definitions say, is shown by looking at the least argument for which they would not be.
Then, by the same argument, whatever the look-ahead answers is made of the characters from
the glyph on and ends before the character that breaks ligatures (`NoGlyphAstray`), and a
pair that makes a ligature always gets an answer, if not that of the pair then that of a longer
one (`NoLigatureMissed`). `GlyphsInv` carries both from round to round.

### Lines

A line is shown long after its words were measured, and what is shown is calculated anew,
from three indexes; that both agree is what `LineInv` is for. In a line that is being
collected there are three cases: there is nothing on it (`Nothing`); the last word was
taken (`WordTaken`), and then the position is behind the last delimiter; or it did not
fit (`WordLeft`), and then it lies between the last delimiter and the position, and the
width to go by is the one before it, `oldhlen`. In the latter two `Taken` says that
the blanks counted are those up to the last delimiter, that one included. Between lines the
position is where a line begins, unless the text has ended.

`TakenIs` compares both calculations for a line that ends at a delimiter: what is shown is what
was measured, or one character more, a `'\r'`, which has no glyph, or a soft hyphen, which
`Reckoned` leaves out. `GlyphsSplit` and `GlyphsUpTo` compare the glyphs of a text with those of
its parts, and so carry the width over. `BrokenWord` is
for one that ends within a word: only a word that was left is ever broken, and the part shown
ends before the delimiter behind it. `LastHyphenIs` is what the choice of a break in the
code gives, whatever breaks the dictionary allows. Since `CHOOSE` is used for the first
delimiter, the first letter and the last break, these rest on `LeastNumber` and
`GreatestNumber`, which follow from the well-foundedness of numbers.

No rule is needed for `LinesAreFit`; its only exception is the soft hyphen in `LinesFit` itself. `BlanksAreRight` needs `wide`: a box without room
shows lines on which nothing was collected, and the blank before such a line is
subtracted from a count of none. `HyphensAreWithin` is about `hyphenminchars` of at least 3,
which is the code's default (`pslib.c:2503`): the string given to the dictionary may reach
one character beyond the '-' that ends the word, so that with fewer characters kept on
the right it is up to the dictionary where the hyphen comes.

`NothingLost` needs no rule at all. `KeptInv` says that the copy of the text differs from it only
in blanks where the text ends a line, that everything before the beginning of the current
line has been shown, and what a paragraph's end looks like (`Paragraph`): there the
delimiter is a blank, and so is the one before it, and its last word is never left for
the next line. `LineReaches` and `BrokenReaches` compare what is shown of a line with how far
the position moves on: behind what is shown lie no, one or, at the end of a paragraph, two
characters that are passed over, and they are blanks. `Ink`, what is seen of a text, is a
recursive function; that it is the same for texts that differ in blanks (`InkAgrees`), and of two
texts together what it is of the one and then of the other, is shown by the least length at
which it would not be. A line of length -1, which the rule `one_empty_line` keeps out, ends the
program, and `TextKept` says nothing of what comes behind it. The run `boxed` has both rules
and `MinChars = 3`, and so satisfies every assumption here.

### Binary data

`AInv` says that what has been read is the beginning of the data, and that the loop is at a
multiple of four, so that the tail is the one `LowTail` speaks of. The rest is
arithmetic with products as unknowns, since the provers know little of them. The digits
add up to the buffer, and what is left behind each is less than its weight (`Chain`). Filled
up, the digits of a tail of n bytes are a number too large by less than the weight of
its last digit (`FilledValue`), which is no more than that of byte n, since digits are
smaller than bytes; and a number that is larger by so little has the same first n
bytes (`LeadingBytes`). `TailBuffer` is where the sign matters: extended from the first byte
it falls out of the buffer at the top.

### What is left to TLC

Outside the prover's reach are liveness (`IterationEnds`, `HyphenationEnds`, `AllShown`) and `ENABLED`.
Induction has no rule that could be cited; where a proof above needs one over numbers, it
takes the least counterexample instead.
Model-checked only are the four invariants of `Store`: they relate folds over the calls made so far to a heap
in which each call allocates and frees several blocks, so that the inductive
invariant would name the owner of every block at every point of every call.
Modules with RECURSIVE operators cannot be proved about; none of these has one.

## Plan

Of the components with a protocol all are modelled. What would come next:

1. `PSResources` and `FontMetrics`: the memory of the failure paths of `PS_findfont`.
2. `PS_show_boxed` with the widths of `PS_string_geometry` instead of unit widths.
3. Proofs of `MemoryAccounted` and what else `Store` states.

## Not modelled

* Decoding of image files (`src/bmp.c` and the image libraries) and splitting the
  lines of AFM and encoding files into words (`src/ps_afm.c`): `FontMetrics` begins with the
  lines as they are parsed. The tables of `src/ps_fontenc.c` and `src/ps_inputenc.c` are
  constants. Of `ps_afm.c` the copying of kerning (`<>`), which sets what nothing reads, the
  boundary character, composed characters, bounding boxes and protrusion are left out.
* Number formatting, asciihex, messages of errors, translations: conversions without
  state. Line widths, dashes, matrices and `PS_shfill` are written at once and remembered
  nowhere.
* Annotations: a pdfmark each, and border attributes nothing else reads.
* `str_buffer_print`, `dlst_deletenext` and `dlst_mergesort`: nothing calls them.
* Everything under `doc/`, `data/`, `po/` and the build files.
