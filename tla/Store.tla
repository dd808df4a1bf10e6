------------------------------- MODULE Store -------------------------------
(***************************************************************************)
(* What a PSDoc keeps in lists and buffers on the heap, with the memory      *)
(* functions of Memory: parameters, values and resources by name, the        *)
(* hyphenation dictionary, the tree of bookmarks and its lookup table, and   *)
(* the string buffer the document is written into.  (The tables of fonts,    *)
(* images and the like are in PSResources, the scopes in PSDocument.)        *)
(*                                                                         *)
(* A block is a record: refs, the addresses it owns, in the order of the     *)
(* struct's fields or, for a list, newest first; data, what else it holds.   *)
(* Every block has size 1, but for tables and buffers.  ps_strdup does not   *)
(* fail.                                                                   *)
(***************************************************************************)
EXTENDS Memory, Sequences, SequencesExt

CONSTANTS
  Names,       \* of parameters, values and resources
  Strings,     \* their values
  Files,       \* hyphenation dictionaries
  TableStep,   \* by how much the table of bookmarks grows (20)
  BufferSize,  \* of a new string buffer (1000)
  BufferStep,  \* by how much it grows at least (2000)
  Pieces,      \* the sizes of what is written into the buffer
  Failures,    \* the allocations of PS_add_bookmark that may fail
  MaxCalls,    \* a bound on the number of calls
  MaxNamed,    \* a bound on those that set a parameter, value or resource
  StoreRules   \* the rules the program keeps, see Keeps

ASSUME SizeAssumption ==
  /\ TableStep \in Nat \ {0} /\ BufferSize \in Nat \ {0, 1} /\ BufferStep \in Nat \ {0}
  /\ Pieces \subseteq Nat \ {0} /\ MaxCalls \in Nat /\ MaxNamed \in Nat
ASSUME StoreAssumption ==
  /\ Failures \subseteq {"node", "table", "list"}
  /\ StoreRules \subseteq {"table_kept", "one_dictionary", "no_exact_fit",
                    "closed_first", "one_buffer"}

VARIABLES
  mem,   \* the memory
  doc,   \* the PSDoc: life, its pointers and counters, and where it writes to
  out,   \* what has left it: the pdfmarks written, the buffer lent to the caller
  want,  \* what the caller asked for
  calls  \* how many calls have been made, and how many of them set a name

vars == <<mem, doc, out, want, calls>>

NotSet == "not set"
NotLent == [at |-> Null, bytes |-> <<>>]
Nul == 0

\* The categories ps_add_resource accepts that have names, by an example, and
\* the one that has none.
Category == {"FontAFM", "SearchPath"}

Keeps(rule, condition) == rule \in StoreRules => condition

----------------------------------------------------------------------------
(* Blocks, strings and lists.                                              *)

Block(kind, refs, data) == [kind |-> kind, refs |-> refs, data |-> data]

ps_strdup(m, s) == PS_mp_malloc(m, 1, Block("string", <<>>, s))
dlst_init(m) == PS_mp_malloc(m, 1, Block("list", <<>>, 0))
dlst_newnode(m, data) == PS_mp_malloc(m, 1, Block("node", <<>>, data))

\* The address just allocated in filled becomes the next field of the node.
Attach(filled, m, node) == [filled EXCEPT !.heap[node].refs = Append(@, Fresh(m))]
AttachString(m, node, s) == Attach(ps_strdup(m, s), m, node)
AttachList(m, node) == Attach(dlst_init(m), m, node)
AttachNull(m, node) == [m EXCEPT !.heap[node].refs = Append(@, Null)]

\* All lists are filled at their head.
dlst_insertafter(m, list, node) == [m EXCEPT !.heap[list].refs = <<node>> \o @]

\* Another string for field i of a node.
Reset(m, node, i, s) ==
  LET freed == PS_mp_free(m, m.heap[node].refs[i])
  IN  [ps_strdup(freed, s) EXCEPT !.heap[node].refs[i] = Fresh(freed)]

\* Mutant: only the newest node is looked at.
FindNewest(m, list, name) ==
  LET nodes == m.heap[list].refs
  IN  IF nodes # <<>> /\ m.heap[m.heap[nodes[1]].refs[1]].data = name THEN nodes[1] ELSE Null

\* The node of a list that is called name.
Find(m, list, name) ==
  LET named == SelectSeq(m.heap[list].refs,
                         LAMBDA n : m.heap[m.heap[n].refs[1]].data = name)
  IN  IF named = <<>> THEN Null ELSE named[1]

FreeAll(m, addresses) == FoldLeft(PS_mp_free, m, SelectSeq(addresses, LAMBDA a : a # Null))

\* The fields of all nodes, then the nodes, then the list: ps_del_parameters,
\* ps_del_values and a category in ps_del_resources, with dlst_kill.
ListBlocks(m, list) ==
  LET nodes == m.heap[list].refs
  IN  FlattenSeq([i \in DOMAIN nodes |-> m.heap[nodes[i]].refs]) \o nodes \o <<list>>

----------------------------------------------------------------------------
(* Parameters, values and resources.                                       *)

SetString(m, list, name, s) ==
  LET found == Find(m, list, name)
      node == Fresh(m)
      named == AttachString(dlst_newnode(m, NotSet), node, name)
  IN  IF found # Null THEN Reset(m, found, 2, s)
      ELSE dlst_insertafter(AttachString(named, node, s), list, node)

SetNumber(m, list, name, number) ==
  LET found == Find(m, list, name)
      node == Fresh(m)
      named == AttachString(dlst_newnode(m, number), node, name)
  IN  IF found # Null THEN [m EXCEPT !.heap[found].data = number]
      ELSE dlst_insertafter(named, list, node)

\* The category, made if there is none yet.
WithCategory(m, category) ==
  LET node == Fresh(m)
      named == AttachString(dlst_newnode(m, NotSet), node, category)
  IN  IF Find(m, doc.categories, category) # Null THEN m
      ELSE dlst_insertafter(AttachList(named, node), doc.categories, node)

ResourcesOf(m, category) == m.heap[Find(m, doc.categories, category)].refs[2]

\* A resource called NotSet has no name and is always a new one.
ps_add_resource(m, category, name, file) ==
  LET with == WithCategory(m, category)
      list == ResourcesOf(with, category)
      found == IF name = NotSet THEN Null ELSE Find(with, list, name)
      node == Fresh(with)
      new == dlst_newnode(with, NotSet)
      named == IF name = NotSet THEN AttachNull(new, node) ELSE AttachString(new, node, name)
  IN  IF found # Null THEN Reset(Reset(with, found, 1, name), found, 2, file)
      ELSE dlst_insertafter(AttachString(named, node, file), list, node)

\* PS_set_parameter(FontAFM, "name=file") works on a copy of its argument.
SetResource(m, category, name, file) ==
  IF category = "SearchPath" THEN ps_add_resource(m, category, NotSet, file)
  ELSE PS_mp_free(ps_add_resource(ps_strdup(m, file), category, name, file), Fresh(m))

PS_get_parameter(name) ==
  LET found == Find(mem, doc.parameters, name)
  IN  IF found = Null THEN NotSet ELSE mem.heap[mem.heap[found].refs[2]].data

PS_get_value(name) ==
  LET found == Find(mem, doc.values, name)
  IN  IF found = Null THEN NotSet ELSE mem.heap[found].data

ps_find_resource(category, name) ==
  LET found == IF Find(mem, doc.categories, category) = Null THEN Null
               ELSE Find(mem, ResourcesOf(mem, category), name)
  IN  IF found = Null THEN NotSet ELSE mem.heap[mem.heap[found].refs[2]].data

\* The dictionary in use is given up before the new one is read.  Its memory
\* comes from malloc, not from the memory functions.
SetHyphendict(file, loads) ==
  LET other == doc.hdict # Null /\ mem.heap[doc.hdictfilename].data # file
      given == IF other THEN PS_mp_free(Drop(mem, doc.hdict), doc.hdictfilename) ELSE mem
      loaded == Put(given, Fresh(given), Block("hdict", <<>>, file))
      unnamed == IF doc.hdictfilename = Null THEN loaded ELSE PS_mp_free(loaded, doc.hdictfilename)
  IN  IF loads
      THEN /\ mem' = ps_strdup(unnamed, file)
           /\ doc' = [doc EXCEPT !.hdict = Fresh(given), !.hdictfilename = Fresh(unnamed)]
      ELSE /\ mem' = given
           /\ doc' = [doc EXCEPT !.hdict = Null]

----------------------------------------------------------------------------
(* The string buffer.  Its struct owns the bytes and has size and cur as     *)
(* data.  A byte is the number of the call that wrote it.                   *)

OpenBuffer(m) ==
  LET sb == Fresh(m)
      struct == PS_mp_malloc(m, 1, Block("strbuffer", <<>>, [size |-> BufferSize, cur |-> 0]))
      bytes == Block("bytes", <<>>, [i \in 1..BufferSize |-> Nul])
  IN  Attach(PS_mp_malloc(struct, BufferSize, bytes), struct, sb)

SizeFor(struct, n) ==
  IF struct.cur + n + 1 > struct.size THEN struct.size + Max({n, BufferStep}) ELSE struct.size

\* Mutant: larger, but what it held is not copied.
RoomEmptied(m, sb, n) ==
  LET struct == m.heap[sb].data
      size == SizeFor(struct, n)
      larger == Block("bytes", <<>>, [i \in 1..size |-> Nul])
  IN  IF size = struct.size THEN m
      ELSE [PS_mp_realloc(m, m.heap[sb].refs[1], size, larger) EXCEPT
             !.heap[sb] = Block("strbuffer", <<Fresh(m)>>, [struct EXCEPT !.size = size])]

\* Room for n more bytes and the terminating zero.
RoomFor(m, sb, n) ==
  LET struct == m.heap[sb].data
      held == m.heap[m.heap[sb].refs[1]].data
      size == SizeFor(struct, n)
      larger == Block("bytes", <<>>, [i \in 1..size |-> IF i <= struct.size THEN held[i] ELSE Nul])
  IN  IF size = struct.size THEN m
      ELSE [PS_mp_realloc(m, m.heap[sb].refs[1], size, larger) EXCEPT
             !.heap[sb] = Block("strbuffer", <<Fresh(m)>>, [struct EXCEPT !.size = size])]

\* The terminating zero is put one byte behind the end.
str_buffer_write(m, sb, n, piece) ==
  LET with == RoomFor(m, sb, n)
      struct == with.heap[sb].data
      end == struct.cur + n
  IN  [with EXCEPT
        !.wild = @ \/ end + 2 > struct.size,
        !.heap[sb].data.cur = end,
        !.heap[with.heap[sb].refs[1]].data =
          [i \in 1..struct.size |-> IF i \in struct.cur + 1..end THEN piece
                                    ELSE IF i = end + 2 THEN Nul ELSE @[i]]]

\* no_exact_fit: what is written does not end one byte before the buffer does.
MayWrite(n) ==
  doc.writeproc = "buffer" =>
    LET struct == mem.heap[doc.sb].data
    IN  Keeps("no_exact_fit", struct.cur + n + 1 # SizeFor(struct, n))

Written(m, n, piece) ==
  IF doc.writeproc = "buffer" THEN str_buffer_write(m, doc.sb, n, piece) ELSE m

----------------------------------------------------------------------------
(* Bookmarks.  A bookmark's node has its text and the list of its children   *)
(* as fields and its id as data; the text is the number of the bookmark in   *)
(* the order in which they were asked for.                                  *)

\* The table is looked up at the id of the parent.
ChildrenOf(parent) ==
  IF parent = 0 THEN doc.bookmarks
  ELSE mem.heap[mem.heap[doc.bookmarkdict].data[parent]].refs[2]

\* Mutant: from the first node to the last.
NewestFirst(m, list) == m.heap[list].refs

\* From the last node to the first: in the order they were added.
OldestFirst(m, list) == Reverse(m.heap[list].refs)

\* _output_bookmarks: a pdfmark for every bookmark of the list, from the last
\* node to the first, each followed by its children.
_output_bookmarks(m, first) ==
  LET marks[d \in 0..doc.lastbookmarkid, list \in DOMAIN m.heap] ==
        IF d = 0 THEN <<>>
        ELSE FlattenSeq([i \in DOMAIN m.heap[list].refs |->
               LET bm == m.heap[OldestFirst(m, list)[i]]
               IN  <<[title |-> m.heap[bm.refs[1]].data,
                      count |-> Len(m.heap[bm.refs[2]].refs)]>>
                   \o marks[d - 1, bm.refs[2]]])
  IN  marks[doc.lastbookmarkid, first]

\* ps_del_bookmarks: the texts and the lists of children, then the nodes.
BookmarkBlocks(m, first) ==
  LET blocks[d \in 0..doc.lastbookmarkid, list \in DOMAIN m.heap] ==
        LET nodes == m.heap[list].refs
        IN  FlattenSeq([i \in DOMAIN nodes |->
              <<m.heap[nodes[i]].refs[1]>>
              \o (IF d = 0 THEN <<>> ELSE blocks[d - 1, m.heap[nodes[i]].refs[2]])])
            \o nodes \o <<list>>
  IN  blocks[doc.lastbookmarkid, first]

TableSize(next) ==
  IF doc.bookmarkcnt < next THEN doc.bookmarkcnt + TableStep ELSE doc.bookmarkcnt

\* fails: the allocation that gives NULL, if any.
PS_add_bookmark(parent, fails) ==
  LET list == ChildrenOf(parent)
      node == Fresh(mem)
      title == Len(want.parents) + 1
      texted == AttachString(dlst_newnode(mem, 0), node, title)
      next == doc.lastbookmarkid + 1
      cnt == TableSize(next)
      grows == cnt # doc.bookmarkcnt
      entries == [i \in 1..cnt |->
                   IF i <= doc.bookmarkcnt THEN mem.heap[doc.bookmarkdict].data[i] ELSE Null]
      sized == IF grows THEN PS_mp_realloc(texted, doc.bookmarkdict, cnt, Block("table", <<>>, entries))
               ELSE texted
      dict == IF grows THEN Fresh(texted) ELSE doc.bookmarkdict
      entered == [sized EXCEPT !.heap[dict].data[next] = node]
      GivenUp(m) == PS_mp_free(PS_mp_free(m, m.heap[node].refs[1]), node)
      added == dlst_insertafter(AttachList(entered, node), list, node)
  IN  CASE fails = "node" -> UNCHANGED <<mem, doc, want>>
        [] fails = "table" ->
             /\ grows /\ Keeps("table_kept", doc.bookmarkdict = Null)
             /\ mem' = GivenUp(texted)
             /\ doc' = [doc EXCEPT !.bookmarkdict = Null]
             /\ UNCHANGED want
        [] fails = "list" ->
             /\ mem' = GivenUp(entered)
             /\ doc' = [doc EXCEPT !.bookmarkdict = dict, !.bookmarkcnt = cnt]
             /\ UNCHANGED want
        [] OTHER ->
             /\ mem' = [added EXCEPT !.heap[node].data = next]
             /\ doc' = [doc EXCEPT !.bookmarkdict = dict, !.bookmarkcnt = cnt,
                                   !.lastbookmarkid = next]
             /\ want' = [want EXCEPT !.parents = Append(@, parent)]


----------------------------------------------------------------------------
(* The calls.                                                              *)

PS_new2 ==
  LET empty == FoldLeft(LAMBDA m, i : dlst_init(m), PS_mp_init, <<1, 2, 3, 4>>)
      At(i) == Fresh(FoldLeft(LAMBDA m, j : dlst_init(m), PS_mp_init, [j \in 1..i - 1 |-> j]))
  IN  /\ mem = empty
      /\ doc = [life |-> "new", categories |-> At(1), parameters |-> At(2), values |-> At(3),
                bookmarks |-> At(4), bookmarkdict |-> Null, bookmarkcnt |-> 0,
                lastbookmarkid |-> 0, hdict |-> Null, hdictfilename |-> Null, sb |-> Null,
                writeproc |-> "none"]

Init ==
  /\ PS_new2
  /\ out = [marks |-> <<>>, lent |-> NotLent]
  /\ want = [param |-> [n \in Names |-> NotSet], value |-> [n \in Names |-> NotSet],
             file |-> [n \in Names |-> NotSet], parents |-> <<>>, bytes |-> <<>>]
  /\ calls = [all |-> 0, named |-> 0]

Alive == doc.life # "freed"

SetParameter(n, s) ==
  /\ Alive
  /\ mem' = SetString(mem, doc.parameters, n, s)
  /\ want' = [want EXCEPT !.param[n] = s]
  /\ UNCHANGED <<doc, out>>

SetValue(n, number) ==
  /\ Alive
  /\ mem' = SetNumber(mem, doc.values, n, number)
  /\ want' = [want EXCEPT !.value[n] = number]
  /\ UNCHANGED <<doc, out>>

AddResource(category, n, s) ==
  /\ Alive
  /\ mem' = SetResource(mem, category, n, s)
  /\ want' = IF category = "FontAFM" THEN [want EXCEPT !.file[n] = s] ELSE want
  /\ UNCHANGED <<doc, out>>

\* one_dictionary: it is not changed once it has been loaded.
ChooseHyphendict(file, loads) ==
  /\ Alive
  /\ Keeps("one_dictionary", doc.hdict = Null)
  /\ SetHyphendict(file, loads)
  /\ UNCHANGED <<out, want>>

\* A bookmark is added on a page; a parent out of range is refused.
AddBookmark(parent, fails) ==
  /\ doc.life = "open"
  /\ PS_add_bookmark(parent, fails)
  /\ UNCHANGED out

\* Nothing keeps a caller from opening a document again:
\*   closed_first: it was closed before;
\*   one_buffer:   and it is opened in memory only once, as PS_open_mem forgets
\*                 the buffer there is.
PS_open_mem ==
  /\ Alive
  /\ Keeps("closed_first", doc.life # "open") /\ Keeps("one_buffer", doc.sb = Null)
  /\ mem' = OpenBuffer(mem)
  /\ doc' = [doc EXCEPT !.life = "open", !.sb = Fresh(mem), !.writeproc = "buffer"]
  /\ want' = [want EXCEPT !.bytes = <<>>]
  /\ UNCHANGED out

\* The document goes to a file or to a procedure of the caller; a buffer it went
\* to before is kept.
PS_open ==
  /\ Alive
  /\ Keeps("closed_first", doc.life # "open")
  /\ doc' = [doc EXCEPT !.life = "open", !.writeproc = "other"]
  /\ UNCHANGED <<mem, out, want>>

\* A call that writes n bytes: what the caller was lent is no longer his.
Write(n) ==
  /\ doc.life = "open" /\ doc.writeproc = "buffer" /\ MayWrite(n)
  /\ mem' = str_buffer_write(mem, doc.sb, n, calls.all + 1)
  /\ out' = [out EXCEPT !.lent = NotLent]
  /\ want' = [want EXCEPT !.bytes = @ \o [i \in 1..n |-> calls.all + 1]]
  /\ UNCHANGED doc

PS_get_buffer ==
  /\ doc.life \in {"open", "closed"} /\ doc.sb # Null
  /\ out' = [out EXCEPT !.lent = [at |-> mem.heap[doc.sb].refs[1], bytes |-> want.bytes]]
  /\ mem' = [mem EXCEPT !.heap[doc.sb].data.cur = 0]
  /\ want' = [want EXCEPT !.bytes = <<>>]
  /\ UNCHANGED doc

\* The trailer, with the bookmarks, is written as one byte.
PS_close ==
  /\ doc.life = "open" /\ MayWrite(1)
  /\ mem' = Written(mem, 1, calls.all + 1)
  /\ out' = [marks |-> _output_bookmarks(mem, doc.bookmarks),
             lent |-> IF doc.writeproc = "buffer" THEN NotLent ELSE out.lent]
  /\ want' = IF doc.writeproc = "buffer" THEN [want EXCEPT !.bytes = Append(@, calls.all + 1)]
             ELSE want
  /\ doc' = [doc EXCEPT !.life = "closed"]

\* What PS_delete frees, in its order.  The dictionary is given to free.
Doomed ==
  LET buffer == IF doc.sb = Null THEN <<>> ELSE mem.heap[doc.sb].refs \o <<doc.sb>>
      categories == mem.heap[doc.categories].refs
      resources == FlattenSeq([i \in DOMAIN categories |->
                     <<mem.heap[categories[i]].refs[1]>>
                     \o ListBlocks(mem, mem.heap[categories[i]].refs[2])])
  IN  buffer \o resources \o categories \o <<doc.categories>>
      \o ListBlocks(mem, doc.parameters) \o ListBlocks(mem, doc.values)
      \o BookmarkBlocks(mem, doc.bookmarks)

\* A document that is open is closed first (PS_close), and then deleted.
PS_delete ==
  /\ doc.life \in {"new", "closed"}
  /\ LET freed == FreeAll(mem, Doomed)
         undone == IF doc.hdict = Null THEN freed ELSE Drop(freed, doc.hdict)
     IN  mem' = FreeAll(undone, <<doc.hdictfilename>>)
  /\ doc' = [doc EXCEPT !.life = "freed"]
  /\ out' = [out EXCEPT !.lent = NotLent]
  /\ UNCHANGED want

Other ==
  \/ \E f \in Files, loads \in BOOLEAN : ChooseHyphendict(f, loads)
  \/ \E parent \in 0..doc.lastbookmarkid, fails \in Failures \cup {"none"} :
       AddBookmark(parent, fails)
  \/ \E n \in Pieces : Write(n)
  \/ PS_open_mem \/ PS_open \/ PS_get_buffer \/ PS_close \/ PS_delete

\* A call that changes nothing is not counted.
Next ==
  /\ calls.all < MaxCalls
  /\ \/ /\ calls.named < MaxNamed
        /\ calls' = [all |-> calls.all + 1, named |-> calls.named + 1]
        /\ \E n \in Names, s \in Strings :
             SetParameter(n, s) \/ SetValue(n, s) \/ AddResource("FontAFM", n, s)
             \/ AddResource("SearchPath", NotSet, s)
     \/ /\ Other
        /\ calls' = [calls EXCEPT !.all = IF UNCHANGED <<mem, doc, out, want>> THEN @ ELSE @ + 1]

Spec == Init /\ [][Next]_vars

----------------------------------------------------------------------------
(* Properties.                                                             *)

Root == {"categories", "parameters", "values", "bookmarks", "bookmarkdict",
         "hdict", "hdictfilename", "sb"}

\* Every pointer that is not null: where it is, and what it points to.
Pointers ==
  LET InDoc == {<<Null, f, doc[f]>> : f \in Root}
      InBlock(b) == {<<b, i, mem.heap[b].refs[i]>> : i \in DOMAIN mem.heap[b].refs}
  IN  {p \in InDoc \cup UNION {InBlock(b) : b \in DOMAIN mem.heap} : p[3] # Null}

\* Nothing is freed twice or written outside of its block; the profiler's list
\* is what is in memory; as long as the PSDoc lives every block has exactly one
\* owner and every pointer a block; PS_delete leaves nothing but the table of
\* bookmarks, which nobody frees.
MemoryAccounted ==
  /\ ~mem.wild
  /\ Profiled(mem, {a \in DOMAIN mem.heap : mem.heap[a].kind = "hdict"})
  /\ Alive => /\ {p[3] : p \in Pointers} = DOMAIN mem.heap
              /\ Cardinality(Pointers) = Cardinality(DOMAIN mem.heap)
  /\ ~Alive => DOMAIN mem.heap = {doc.bookmarkdict} \ {Null}

\* A name is found again with what was last set for it, whatever was set, freed
\* and set again in between: parameters, values and resources.
FoundByName ==
  Alive => \A n \in Names :
    /\ PS_get_parameter(n) = want.param[n]
    /\ PS_get_value(n) = want.value[n]
    /\ ps_find_resource("FontAFM", n) = want.file[n]

\* How a viewer reads the pdfmarks: those that follow a bookmark of count n,
\* with all that belongs to them, are its children until there are n.  open is
\* the chain of bookmarks that still expect children, innermost first.
ReadParents(marks) ==
  LET Waiting(open) == SelectSeq(open, LAMBDA o : o.left > 0)
      read[i \in 0..Len(marks)] ==
        IF i = 0 THEN [open |-> <<>>, parents |-> <<>>]
        ELSE LET open == Waiting(read[i - 1].open)
                 taken == IF open = <<>> THEN <<>>
                          ELSE <<[open[1] EXCEPT !.left = @ - 1]>> \o Tail(open)
             IN  [open |-> <<[title |-> marks[i].title, left |-> marks[i].count]>> \o taken,
                  parents |-> Append(read[i - 1].parents,
                                     IF open = <<>> THEN 0 ELSE open[1].title)]
  IN  read[Len(marks)].parents

\* A viewer that reads the pdfmarks of the trailer gets the bookmarks that were
\* added, each once, under the parent it was given by id and behind the
\* children its parent already had; and the table by which a parent is found has
\* a slot for every id.
OutlineReadBack ==
  /\ doc.bookmarkdict # Null =>
       doc.lastbookmarkid <= Len(mem.heap[doc.bookmarkdict].data)
  /\ doc.life = "closed" =>
    LET parents == ReadParents(out.marks)
    IN  /\ Len(out.marks) = Len(want.parents)
        /\ \A id \in DOMAIN want.parents : \E i \in DOMAIN out.marks :
             out.marks[i].title = id /\ parents[i] = want.parents[id]
        /\ \A i, j \in DOMAIN out.marks :
             i < j /\ parents[i] = parents[j] => out.marks[i].title < out.marks[j].title

\* The buffer holds, from its start, what has been written since it was last
\* taken, across all the times it grew; and what PS_get_buffer returned stays
\* there until the next call that writes.
BufferKept ==
  /\ Alive /\ doc.sb # Null =>
       SubSeq(mem.heap[mem.heap[doc.sb].refs[1]].data, 1, mem.heap[doc.sb].data.cur) = want.bytes
  /\ out.lent # NotLent =>
       SubSeq(mem.heap[out.lent.at].data, 1, Len(out.lent.bytes)) = out.lent.bytes
=============================================================================
