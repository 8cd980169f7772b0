# A verification project for gullfoss

TLA+ models of the `gullfoss` kernel, the TLC runs that check them on small
instances, and theorems about them checked by TLAPS. The repository also holds
two earlier programs, the `barebones` kernel and the boot sector `boot`, which
are modelled too.

## The system

`gullfoss` is a single-core, single-address-space x86 kernel in C++. GRUB loads
it at 1 MiB; `bootstrap.s` sets a GDT, enables paging with an identity map and a
higher-half map, and calls `kernel_early_main`, which builds the memory system;
then the global constructors run, then `kernel_main` removes the identity map,
enables interrupts and starts the shell. From then on everything happens in
interrupt handlers: the main program only prints, allocates and halts.

| component | state | operations | used by |
|---|---|---|---|
| physical page allocator (`phys_mem_allocator.cpp`) | `mem_bitmap`, `last_alloc` | `init_mmap`, `alloc1`, `alloc8`, `alloc32` | heap, boot |
| paging and the virtual page allocator (`pre_kernel.cpp`, `virt_mem_allocator.cpp`) | page directory, page tables (and the processor's TLB) | `setup_paging`, `init_page_dir`, `map_page`, `reserve_block`, `clear_ident_map` | boot, heap |
| heap (`heap_allocator.cpp`, `memory.cpp`) | block list, three slab bitmaps | `init_heap_pages`, `malloc`, `operator new` | everything |
| interrupts (`interrupt_manager.cpp`, `interrupt_impl.cpp`) | IDT, the two interrupt controllers, IF | `init_interrupts`, gates, handlers, end of interrupt | keyboard, serial |
| keyboard (`keyboard_state.cpp`) | decoder state, key bitmap, modifiers, subscriber | `handle_scan_code`, `set_subscriber`, key maps | interrupt handler, shell |
| terminal (`vga.cpp`), shell (`shell.cpp`), panic (`panic.cpp`) | text buffer, position, cursor | `putc`, advance, retreat, `write`, `set_cursor`, `key_down`, `panic` | main, keyboard |
| serial log (`debug_serial.cpp`), `printf` (`stdlib.cpp`) | the UART's registers and queue | `init_serial`, `serial_putc`, `serial_printf`, `vfprintf` | everything |
| boot (`kernel.cpp`, `bootstrap.s`) | the order of the above | | |
| `barebones/kernel.c`, `boot/*.s` | a text terminal; a boot sector with a key handler | | stand-alone programs |

How they interact:

- The heap asks the page allocator for 32 chunks of 32 frames, the virtual page
  allocator for a block of 1024 pages, and maps one on the other. The three see
  only numbers: nothing in the types keeps physical and virtual addresses apart.
- Page tables are reached *through* the tables they describe: a physical address
  is dereferenced as it is, which works while the identity map covers it.
- A key is a byte in a port, an interrupt, a call of `handle_scan_code`, a call
  of the shell, characters in the text buffer and four writes to the cursor's
  registers. All but the first happen in one handler with interrupts off.
- `serial_printf` is called by the main program with interrupts on and by
  handlers. There are no locks.

What is hard in this code:

- *Sequences of legal calls* over state that is scanned from where another call
  stopped (`last_alloc`), split (`HeapBlock`), or reached through itself (page
  tables). None of the allocators can free, so a slip is permanent.
- *Failure in the middle*: `alloc32` failing for a later chunk; asserts that a
  release build compiles out; page 0, whose address is the null pointer.
- *Interleavings*: a handler between two port accesses of main; a second
  scan code while the first is handled; a subscriber set between the two bytes
  of a key; a panic in the middle of a line; a vector that is written in two
  halves; a handler that ends its interrupt before it prints.
- *Devices*: edges that a reset forgets, a port two devices share, an end of
  interrupt that names nothing, a TLB that is never flushed.

## The modules

Abstract specifications, which know nothing of the code:

- `Grants`: what every allocator promises. A call hands out units nobody owns,
  or nothing; what is owned stays owned.
- `BumpAllocator`: one pointer that moves up through an area.
- `TextTape`: a screen as a ring of cells cut into lines.

Components (one action per operation; "history" variables are marked in the
modules and no action of the code reads them):

| module | code | correspondence |
|---|---|---|
| `PhysMemAllocator` | `phys_mem_allocator.cpp`, `.h` | `mem_bitmap` is the set of pages whose bit is 1, `last_alloc` as in the code; the three scans are one definition over units of a page's byte or word (`alloc1` looks for a byte that is not full, `alloc8` for an empty byte, `alloc32` for an empty word), with both loops, the wrap and the early end when page 0 is taken for failure. Addresses are counted in fractions of a page (`PageUnits`) so that the rounding of `mark_unavail_pages` is real. The late run of the static constructor is an action. |
| `VirtMemAllocator` | `pre_kernel.cpp`, `virt_mem_allocator.cpp` | `page_dir` and `page_tables` entry by entry; an access to a table walks the tables themselves; `seen` is the set of translations a TLB that is never flushed may still hold, and an access may use any of them. |
| `HeapAllocator` | `heap_allocator.cpp`, `memory.cpp` | `blocks` is the linked list as a sequence of headers, `slab` the three bitmaps; sizes are unsigned words (`Word`), so the fit test can wrap. |
| `KernelMemory` | `bootstrap.s`, `kernel.cpp`, `heap_allocator.cpp:22-61` | the three allocators composed: each step of the boot is a step of the components that take part in it, then any sequence of `malloc`. `ndebug` is the release build without asserts. |
| `Interrupts` | `interrupt_manager.cpp`, `interrupt_impl.cpp` | the gates, the handlers step by step, `pic_send_eoi` on both controllers. Controllers, keyboard controller and mouse are external, as the code uses them. |
| `KeyboardState` | `keyboard_state.cpp`, `.h` | `handle_scan_code` whole, bit arrays as sets, with the two bits that fall out of `key_states` into `lock_state`. The keyboard is external: what a key sends is a sequence of signals (bytes, the code they stand for, up or down), so that keys with one byte, with a prefix, without a name in the kernel, print screen and the pause key are the same kind of thing. |
| `DebugSerial`, `Printf` | `debug_serial.cpp`, `io.h`, `stdlib.cpp` | `init_serial` as writes to the UART's registers under the divisor latch; `serial_putc` as a look and a write, with handlers in between. The other end of the line (external) reads a byte only at the rate and in the format `init_serial` means to set; otherwise it sees garbage. `Printf` is a function from a format and arguments to characters. |
| `VGATerminal`, `Shell` | `vga.cpp`, `shell.cpp`, `kernel.cpp`, `panic.cpp` | the methods of a terminal as operators on row, column and buffer; the shell module says who calls them: main's texts, the shell's constructor, one step per key, and panic. The two registers of the cursor are kept apart. |
| `KeyPath` | `interrupt_impl.cpp:56-61`, `kernel.cpp:90-138` | `KeyboardState` and `Shell` composed: one step of the handler is a step of the decoder and, when the shell hears of it, its `key_down`; main writes its texts and hands the shell over while keys already come. |
| `BabyBoot` | `boot/baby_boot.s`, `video_print.s` | the program as the steps it has left (`todo`), one of them per instruction or loop round that matters to others; a handler puts its steps in front. BIOS, keyboard and controllers are external. |
| `Barebones` | `barebones/kernel.c` | the terminal's functions as actions on its globals, writing any text. |
| `EarlierPrograms` | | the machine that boots one of the two. |

`MC*` modules hold the constants of a run and `*Proofs` modules the proofs about
a component: `PhysMemAllocatorProofs`, `HeapAllocatorProofs`,
`VirtMemAllocatorProofs`, `KernelMemoryProofs`, `InterruptsProofs`,
`ShellProofs` and `EarlierProgramsProofs`. `RingArithmetic` holds the lemmas about division and
rings of cells that the page tables and all terminals share. Definitions that begin with the comment
"Slip:" are not used by the models: each is a plausible bug in the definition
after it, used to confirm that a property notices it.

## The runs

Scaling keeps what the code's arithmetic depends on: more than one byte to a
word, words to the bitmap, tables to the directory; an image across the end of a
block; a header, an alignment and slot sizes that are the real ones.

| run | question | instance, and why it is enough |
|---|---|---|
| `phys_mem` | Is any page handed out twice, against the memory map, or lost? | 5 words of 2 bytes of 2 pages, three maps with regions that begin and end inside a page, overlap and take page 0 or not; all orders of calls until nothing is left. A scan wraps, starts in the middle of a word and crosses taken words of every kind. |
| `heap` | Is any byte handed out twice, a header overwritten, a fitting request refused? | 56, 24 and 8 slots and a block area of 256 bytes; ten sizes on both sides of every threshold (slot sizes, alignment, exact fit, the whole heap). Until everything is full. |
| `heap_size` | Is the heap as large as the code says? | violated: see below |
| `virt_mem` | Does the kernel stay mapped, do table pointers work, do mappings hold, when would a flush be needed? | 8 directories of 8 entries, an image over two blocks, boot information below, beside and past it, up to 3 calls of `map_page` in any order with `reserve_block` and `clear_ident_map`. Three calls reach a page of a block that its owner maps twice, or both its owner and `map_page(nullptr)`. |
| `virt_gdt` | Is the GDT mapped while interrupts come? | violated |
| `memory` | Do the three agree? | 192 frames, 8 chunks of 4, memory with plenty, exactly enough (one word spoilt by page 0) and one word too few, boot information in two places, with and without asserts. |
| `irq` | Is every scan code handled, once and in order? Does every end of interrupt end the right one, and is only what has no handler left in service? | two scan codes, timer, keyboard, mouse, and two lines without a handler, one on each controller; three masks; the mouse silent or not. Two scan codes are one in the port and one behind it. |
| `keyboard` | Is every signal decoded once, in order, with its own modifiers, and nothing stuck? What may a stray prefix swallow? | seven keys: twins of both kinds (two keys of one code, two codes of one modifier), the last code, a code past the last, a key with a prefix the decoder does not know, print screen with the extended left shift the keyboard puts around it, the pause key with its six bytes; three bytes in flight, that is one and a half two-byte codes (print screen's four and the pause key's six when nothing else is). |
| `key_path` | Does the screen show what was typed? | a letter, shift, ctrl and backspace, two bytes in flight; keys come while main still writes, and before and after the hand-over; 2 lines of 2 cells, so that typing runs around the screen; a panic at any moment. |
| `serial` | Is a byte lost when a handler prints too, or a text not read at the other end of the line? Are numbers right? | every content of the registers `init_serial` may find that matters, the formats the kernel uses over boundary values, up to two handlers, one after the other, between any two accesses. |
| `terminal` | Do rows, columns and cursor stay together? | 3 lines of 2 cells and cursor registers of two bits, so that both matter; keys that print (with and without shift), feed, erase, and do nothing; unbounded typing, a panic at any moment. |
| `earlier` | Does the boot sector show every key on a line of its own, and is its vector never used half written? Is the barebones terminal a tape too? | 3 lines of 5 cells, a byte with 8 values: a greeting longer than a row, a key's line as long as one, a line counter that passes the screen and wraps; two keys and a release; one key in the controller and one behind it. |

Deadlock is checked in `phys_mem`, `heap`, `heap_size`, `irq`, `keyboard` and
`earlier`. It is not where the model's calls are capped (`virt_mem`,
`virt_gdt`), where a boot may end in an assert (`memory`), where a printer is
done (`serial`), and where panic stops the machine (`terminal`, `key_path`).

Bounds that are named in guards: `MaxCalls` (calls of `map_page`), `MaxKeys`
(scan codes), `MaxWire` (bytes in flight when a signal joins others),
`MaxHandlers` (handlers that print), `MaxQueue` (bytes waiting in the keyboard
behind the one in the port).

### What the violations show

- `heap_size`: `heap_allocator.h:9` says 4 MiB. The first block is sized in
  *pages of one chunk* (`heap_allocator.cpp:55`), 29 pages instead of 928.
- `virt_gdt`: GDTR keeps the physical address of the GDT, which
  `clear_ident_map` unmaps although every gate loads its selector from there.

Further divergences met while reading, which the models reproduce or leave out
as stated, and which have no run of their own:

- `id_handler` says "ignore if called" (`interrupt_impl.cpp:24`) and sends no end
  of interrupt, so the line stays in service and keeps those below it out: an
  unhandled IRQ 8 silences the mouse. `OnlyUnhandledStay` shows that this is all
  that ever stays;
- an extended code the switch of `handle_scan_code` does not list (a Windows or
  menu key, left as a TODO) leaves the decoder waiting, and it swallows the
  one-byte keys that follow until one of the listed codes comes, whichever key
  sends it. `EventsExact` and `NoneStuck` state the exception: a swallowed
  release leaves that key's bit set, a modifier is never left wrong, since the
  codes of shift, ctrl and alt are among the listed ones;
- the pause key is decoded as ctrl and num lock, pressed and released, so it
  lets go of a ctrl that is held, and print screen as left shift with
  `keypad_print_screen`, so it lets go of a shift;
- the boot sector's line counter runs past the screen: lines are printed into
  memory nobody sees until the byte wraps at 256;
- `virt_mem_allocator.h:27-28` says of `map_page`: "If `virt_page` is unavailable,
  returns `nullptr`". `virt_mem_allocator.cpp:62-75` never looks: two calls for
  one page of a reserved block both return it, and the second frame replaces the
  first, with no flush, so that the TLB may still lead to the first. The model
  does the same, and `MappingsHold` says what is true instead: the latest call for
  a page holds, and outside reserved blocks no mapping is ever replaced. Stated
  for every call, without that exception, TLC refutes it in three steps
  (`reserve_block`, and two calls of `map_page` for its first page);
- physical addresses in holes of the memory map count as free;
- `map_page(nullptr)` chooses pages in blocks that `reserve_block` has given
  away, where the block's owner may then overwrite them, and faults once the
  identity map of the tables is gone; when no page is left it maps address 0;
- `clear_ident_map` removes one directory entry while the image may have used
  two;
- the mouse handler leaves its byte in the port it shares with the keyboard, and
  a byte that arrives before `init_interrupts` is never read: after either no
  key is served (`KeysServed` states both exceptions);
- the bits of f12 and del are written behind `key_states`, into `lock_state`,
  where nothing reads them: no property depends on it, and `NoneStuck` takes them
  for the keys they stand for;
- `set_color(uint8_t)` and `set_indent` assign their parameter to itself
  (`vga.cpp:20`, `:24`): every text is light grey on black, test results and
  panics too;
- `printf` puts a zero or a minus sign before fill made of spaces (`PrintsAsC`
  speaks of the other fields; the kernel's own formats fill with zeros);
- a release build compiles the asserts out: when `alloc32` fails there the heap
  is mapped on the frames from 0 on (`BootSucceeds` shows that only a lack of
  memory leads there).

## Fairness

- `Interrupts`: weak fairness of `init_interrupts` (main gets there), of the
  running handler's steps and of the keyboard controller; strong fairness of the
  delivery of each line, because the processor takes an interrupt at the next
  instruction whenever it is the most urgent one, and a line that is so again and
  again while nothing runs is taken. `KeysServed` further assumes that the timer,
  which has priority over all, leaves time (it ticks every 55 ms); the
  assumption is part of the property, not of the specification.
- `DebugSerial`: weak fairness of the writer that runs and of the transmitter,
  which is hardware that needs nothing from the program.
- `KernelMemory`: weak fairness of the boot, which is one straight-line program.
- `EarlierPrograms`: weak fairness, for the machine that boots the boot sector, of
  the program's steps, of the delivery of an interrupt that can be taken (it is
  the only one) and of the keyboard controller. No key need be pressed.
- The other specifications state safety only and assume none.

## The proofs

The theorems hold for every value of the constants that the named assumptions
allow; TLC evaluates the assumptions for the instance of a run. Each proof rests
on an inductive invariant, which TLC has checked on the instance of the
component's run before it was proved. `PROJECT.json` lists the theorems with the
property each one states.

**Physical page allocator** (`PhysMemAllocatorProofs`): the run's invariants,
`HonestRefusal` and the refinement of `Grants`. Assumed: positive sizes, regions
below 4 GiB. `NoUnavailPageGranted` is not inductive: a scan takes clear bits,
and that clear bits are available follows only from where set bits come from. So
`IInv` accounts for every set bit, as reserved by the memory map, granted, or
lost with page 0. `LostFacts`, `FoundFacts` and `AllocEffect` say what a scan may
set, once for the three of them; `StepIInv` uses nothing else about scans.

**Heap** (`HeapAllocatorProofs`): the run's invariants and both refinements,
`Grants` and `BumpAllocator`. Assumed: pages of whole cache lines, chunks of more
than three pages, a heap of whole chunks with one for each slab and one for the
block list. `IInv` says that the blocks tile the area, that only the last one can
be free (`OnlyLastFree`: this is why no block before it is ever used again), that
all sizes and addresses are whole cache lines, and that every byte owned is below
the free block or in a slot whose bit is set (`OwnedIsTaken`). The refinement of
`Grants` then needs only that what a call returns is above or unset. Sizes are
unsigned, so each subtraction of `malloc` could wrap; that none does is a lemma
(the blocks are large enough for the first, the fit test makes the next safe).

**Paging** (`VirtMemAllocatorProofs`): all six properties of the run, for
directories, tables and images of any size, and two that the composition below
needs and that say more than the run's. `HigherHalfIsExact`: the translations of
the higher half that may be in the TLB are those of `setup_paging` and those
`map_page` returned, and no others. `NoFaultBeforeIdentityIsCleared`: until then
no access to a page table faults. The argument:

- `Shape` is all that ever is in the page directory: the image's tables, one for
  each directory the image touches and shared by both halves, nothing between the
  two, and above each table at its own directory or nowhere. So each page has one
  `Slot`, entered or not, and two pages of the higher half never share one.
- The first page of what GRUB passes is in the first block (the asserts). It
  follows that all of it is (`WithinFirstTable`): it is one piece outside the
  image, and the image lies across the end of the first block, since its page
  tables alone are as large as a block.
- Every page table's own frame is mapped to itself in the lower half and never
  changes, so a physical address used as a pointer reaches that table or faults.
- Above the image every slot in use holds what some call of `map_page` wrote for
  its page (`OnlyMapped`), and for each page the latest one (`MappingsHold`). With `Counted` a free page is left for every call, so the scan
  never returns the null page, and a reserved block is empty.
- The TLB holds only what is still in the slots (`SeenHold`), but for pages of a
  reserved block that were mapped more than once.

Two assumptions came out of this proof. `InfosAssumption` now says that what GRUB
passes is in one piece, without which the asserts are not enough. And
`RoomAssumption` says that the calls cannot use up the higher half: when nothing
is free, `map_page(nullptr)` writes into the entry of page 0, which belongs to
the first table of the image. `init_heap_pages`, the only caller, fills one block.

**The boot of the memory system** (`KernelMemoryProofs`): both safety properties
of the run, and the safety half of `BootSucceeds`, for every machine, every
memory map and every place and size of what GRUB passed. Assumed
(`ComponentsAssumption`): what each of the three components assumes. The proof
does not look into the components again:

- `ComponentsBehave`: every behaviour of the composition is a behaviour of the
  page allocator, of paging and of the heap, the other steps between being
  stutters. Everything proved of a component then holds in the composition. For
  paging this takes an argument, since its specification allows `map_page` only
  on pages of a reserved block and frames that exist: `OrderInv` says how far the
  boot is (one block reserved, how many chunks and pages so far, which phase of
  the allocator), `ChunkInv` that each chunk is a word of pages of its own and
  that together they are all the page allocator has granted.
- `PageInv`: `map_page` has returned exactly the pages of the chunks so far, each
  once, page `j` of chunk `i` on frame `j` of that chunk. `IInv` is the three components'
  invariants and these three.
- `HeapHasItsOwnFramesAlways`: a page of the heap is entered (`MappingsHold`, as
  no page is mapped twice), and reaches nothing else (`HigherHalfExact`); its frame was granted, so it is
  none of those the memory map or the kernel keeps (`NoUnavailPageGranted`), and
  no other page has it (`ChunkInv`).
- `MallocGrantsMemoryAlways`: bytes of the heap and bytes of memory then
  correspond one to one, and the heap's refinement of `Grants` carries over.
- `OnlyShortMemoryFails`: when `alloc32` returns null, no usable word is left
  that it has not granted, so with fewer chunks granted than the heap needs the
  map has fewer usable words than that; a cardinality argument over `ChunkInv`.

**Interrupts** (`InterruptsProofs`): `KeysInOrder`, `EoiEndsOwn`,
`OnlyUnhandledStay`, for every wiring that has the timer, the keyboard and the
mouse, every mask and any number of keys. `IInv` says that what is left of a
handler is a suffix of its gate's body (`HandlerRuns`); that port 0x60 holds the
byte of every requested keyboard interrupt and of a handler that has not read it
(`PortHeld`); and that until its end of interrupt the running line is the most
urgent one in service, all others being without a handler, with the cascade in
service exactly while the second controller serves a line.

**Screen** (`ShellProofs`): type correctness, `LineShown`, `CursorFollows` and
the refinement of `TextTape`, for every screen, text, key and key map. That a
terminal's `putc`, advance and retreat are steps of one ring is `RingArithmetic`.
`CursorFollows` is not inductive: the shell's constructor sets the cursor to the
start of the second row whatever it has written, so that the greeting is one line
has to be carried along (`GreetingWritten`). `WelcomeAssumption` states it of the
greeting in `shell.h`.

**Earlier programs** (`EarlierProgramsProofs`): the barebones terminal implements
`TextTape`; `VectorWhole`, from an invariant that ties how much of the vector is
written to where main stands, and interrupts off to its being half done; and
`LinesShown`, for every greeting, screen and key. The history gets a line when its
key's byte is read and the screen gets it one character at a time, so the
invariant (`Stage`) says for each step left to do what is owed: which text, from
which character on (`Prints`), with every other row complete (`Ahead`). A byte
read while another key's line is owed would break it; that none is follows from
`VectorIInv`, interrupts being off until `iret`. A greeting longer than a row
spills into the one below, which is harmless because no key has a line there yet
(`PrintsOn`). `BootAssumption` says that texts are characters, that a key's line
fits a row, and that rows and texts are no longer than a byte counts.

What the proofs changed in the models: `HeapAllocator!Brk` had overlapping CASE
arms; `Interrupts` had not required that the keyboard and the mouse are wired;
the two assumptions on paging and the one on the greeting above;
`KernelMemory!alloc32` could stop in its assert in a release build too, which has
none.

### What is only model-checked, and why

- Liveness: `KeysServed`, `AllPrinted`, `BootSucceeds`, `KeyTakenAlways`. The
  prover has no reasoning under fairness. (What may stop a boot is proved,
  `OnlyShortMemoryFails`; that it ends is not.)
- `PrintsAsC` and, in the same module, `NoByteLost`: `Printf` is recursive, and
  what a recursion computes for every input needs an induction over data.
- `KeyboardState` and `KeyPath`: what a sequence of bytes decodes to is a fold
  over it, again an induction over data.

## Not modelled

- What the processor does after the empty handler of an exception returns (those
  of exceptions that push an error code are declared without it,
  `interrupt_impl.cpp:38`): nothing in the kernel is meant to raise one.
- The assembly of the gates and of `bootstrap.s` except for its order; `strlen`,
  `memset`, the multiboot header, build scripts.
- Colours and the indent of the terminal: they never change (above).
- Regions of the memory map above 4 GiB, which index past the bitmap.
- Of the two earlier programs: colours, the pulse on port 0x61 (modern
  controllers ignore it), what the boot sector stores past the screen, and
  `bios_print.s`, which nothing includes. The barebones kernel writes three
  fixed lines; its terminal is checked for any text.

## The plan

Order: allocators first, since everything rests on them and they cannot free;
their composition; interrupts and keyboard, where the interleavings are; the log
and the screen; the path of a key through them; the earlier programs. The models
are done, and so are the proofs of the three allocators and their composition,
the interrupts, the terminals and the boot sector. What is left is what the
prover cannot do here (above): an argument by induction over the bytes of a
signal would give `KeyboardState`'s properties, and with them `ShownAsTyped`.
