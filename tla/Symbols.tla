------------------------------ MODULE Symbols ------------------------------
(***************************************************************************)
(* The symbol table (debug.c): loaded from the kernel's own ELF file and   *)
(* sorted at boot, searched when a backtrace is printed, extended in place *)
(* with memmove (string.c).  The array is kept as the cells its symbols    *)
(* are made of, so that moving half a symbol shows.                        *)
(*                                                                         *)
(* mem_realloc neither clears a block nor what lies behind it: the slot    *)
(* after the last symbol may be fresh memory, what an earlier owner of the *)
(* block left there, or the data of the next block.  Only the lookup reads *)
(* it, and finds an arbitrary symbol there each time.                      *)
(***************************************************************************)
EXTENDS Integers, Sequences, FiniteSets

CONSTANTS
    SymCells,     \* sizeof(symbol_t), in cells
    SymAddrs,     \* the addresses symbols may have
    SymSizes,     \* their sizes; ELF tables contain empty symbols
    FileSymbols,  \* the longest symbol table a kernel file has
    MaxSymbols    \* bound on symbols in the table

Symbol == [address : SymAddrs, size : SymSizes]
NullSymbol == [address |-> 0, size |-> 0]  \* entry 0 of every ELF table, and zeroed memory
Garbage == Symbol \cup {NullSymbol}         \* what the slot behind the table may look like
Cells(sym) == [k \in 0 .. SymCells - 1 |-> <<sym, k>>]

VARIABLES
    symtab,           \* the table of the kernel file, emptied once it is loaded
    cells,            \* the memory m_symbols points to
    m_symbols_count,
    expected          \* history: the symbols that should be in the table

symVars == <<symtab, cells, m_symbols_count, expected>>

sym_at(mem, i) == mem[i * SymCells][1]
store_symbol(mem, i, sym) ==
    [j \in DOMAIN mem |-> IF j \div SymCells = i THEN Cells(sym)[j % SymCells] ELSE mem[j]]

-----------------------------------------------------------------------------
(* string.c *)

rep_movsb(mem, dest, src, n) ==
    [j \in DOMAIN mem |-> IF j \in dest .. dest + n - 1 THEN mem[j - dest + src] ELSE mem[j]]

(* The loop of memmove that copies backwards in chunks of tail cells, and  *)
(* the copy of what remains.                                               *)
RECURSIVE move_back(_, _, _, _, _)
move_back(mem, dest, src, n, tail) ==
    LET m == rep_movsb(mem, dest, src, tail)
        left == n - tail
    IN  IF left > tail THEN move_back(m, dest - tail, src - tail, left, tail)
        ELSE IF left # 0 THEN rep_movsb(m, dest - tail, src - tail, left)
        ELSE m

memmove(mem, dest, src, n) ==
    IF n = 0 \/ dest = src THEN mem
    ELSE IF src < dest /\ dest < src + n
    THEN LET tail == dest - src IN move_back(mem, dest + n - tail, src + n - tail, n, tail)
    ELSE rep_movsb(mem, dest, src, n)

-----------------------------------------------------------------------------
(* Sorting *)

swap_symbols(mem, i, j) == store_symbol(store_symbol(mem, i, sym_at(mem, j)), j, sym_at(mem, i))

(* The two inner loops of partition_symbols: they stop at the first symbol *)
(* that is on the wrong side of the pivot.                                 *)
RECURSIVE scan_up(_, _, _, _)
scan_up(mem, i, p, high) ==
    IF sym_at(mem, i).address <= p /\ i <= high - 1 THEN scan_up(mem, i + 1, p, high) ELSE i

RECURSIVE scan_down(_, _, _, _)
scan_down(mem, j, p, low) ==
    IF sym_at(mem, j).address > p /\ j >= low + 1 THEN scan_down(mem, j - 1, p, low) ELSE j

RECURSIVE partition_loop(_, _, _, _, _, _)
partition_loop(mem, p, low, high, i, j) ==
    IF i >= j THEN [mem |-> swap_symbols(mem, low, j), pivot |-> j]
    ELSE LET i2 == scan_up(mem, i, p, high)
             j2 == scan_down(mem, j, p, low)
         IN  partition_loop(IF i2 < j2 THEN swap_symbols(mem, i2, j2) ELSE mem, p, low, high, i2, j2)

(* Mutant: the pivot is the last symbol, still swapped with the first.     *)
partition_symbols_high(mem, low, high) ==
    partition_loop(mem, sym_at(mem, high).address, low, high, low, high)

partition_symbols(mem, low, high) ==
    partition_loop(mem, sym_at(mem, low).address, low, high, low, high)

RECURSIVE sort_symbols(_, _, _)
sort_symbols(mem, low, high) ==
    IF low >= high THEN mem
    ELSE LET p == partition_symbols(mem, low, high)
         IN  sort_symbols(sort_symbols(p.mem, low, p.pivot - 1), p.pivot + 1, high)

debug_load_symbols ==
    LET loaded == [j \in DOMAIN cells |->
                     IF j \div SymCells < Len(symtab)
                     THEN Cells(symtab[j \div SymCells + 1])[j % SymCells] ELSE cells[j]]
    IN  /\ symtab # <<>>
        /\ m_symbols_count' = Len(symtab)
        /\ cells' = sort_symbols(loaded, 0, Len(symtab) - 1)
        /\ expected' = symtab
        /\ symtab' = <<>>

-----------------------------------------------------------------------------
(* Searching and inserting *)

(* The symbol at index i, where behind is what the slot after the last one *)
(* reads as.                                                               *)
symbol_at(i, behind) == IF i < m_symbols_count THEN sym_at(cells, i) ELSE behind

(* Mutant: the byte behind a symbol counts as part of it.                  *)
RECURSIVE lookup_loop_past(_, _, _, _)
lookup_loop_past(addr, l, r, behind) ==
    IF l > r THEN -1
    ELSE LET m == l + (r - l) \div 2
             s == symbol_at(m, behind)
         IN  IF s.address <= addr /\ addr <= s.address + s.size THEN m
             ELSE IF s.address < addr THEN lookup_loop_past(addr, m + 1, r, behind)
             ELSE lookup_loop_past(addr, l, m - 1, behind)

RECURSIVE lookup_loop(_, _, _, _)
lookup_loop(addr, l, r, behind) ==
    IF l > r THEN -1
    ELSE LET m == l + (r - l) \div 2
             s == symbol_at(m, behind)
         IN  IF s.address <= addr /\ addr < s.address + s.size THEN m
             ELSE IF s.address < addr THEN lookup_loop(addr, m + 1, r, behind)
             ELSE lookup_loop(addr, l, m - 1, behind)

(* debug_lookup_symbol: the index of a symbol, -1 for NULL.  The search    *)
(* starts with the count as its upper end, one past the last symbol.       *)
debug_lookup_symbol(addr, behind) ==
    IF m_symbols_count = 0 THEN -1 ELSE lookup_loop(addr, 0, m_symbols_count, behind)

RECURSIVE insert_index_loop(_, _, _)
insert_index_loop(addr, start, end) ==
    IF start > end THEN end + 1
    ELSE LET mid == (start + end) \div 2
             a == sym_at(cells, mid).address
         IN  IF a = addr THEN -1
             ELSE IF a < addr THEN insert_index_loop(addr, mid + 1, end)
             ELSE insert_index_loop(addr, start, mid - 1)

find_symbol_insert_index(addr) == insert_index_loop(addr, 0, m_symbols_count - 1)

(* do_insert_symbol: mem_realloc keeps or moves the table with all of its  *)
(* symbols, then those from index on move up by one.                       *)
do_insert_symbol(index, sym) ==
    /\ m_symbols_count' = m_symbols_count + 1
    /\ cells' = store_symbol(memmove(cells, (index + 1) * SymCells, index * SymCells,
                                     (m_symbols_count - index) * SymCells), index, sym)
    /\ expected' = Append(expected, sym)

(* debug_create_symbol does nothing if the lookup returns a symbol, be it  *)
(* one that is not in the table.                                           *)
debug_create_symbol(sym, behind) ==
    /\ symtab = <<>>
    /\ m_symbols_count < MaxSymbols
    /\ debug_lookup_symbol(sym.address, behind) = -1
    /\ find_symbol_insert_index(sym.address) # -1
    /\ do_insert_symbol(find_symbol_insert_index(sym.address), sym)
    /\ UNCHANGED symtab

-----------------------------------------------------------------------------
SymInitWith(file) ==
    /\ symtab = file
    /\ cells = [j \in 0 .. (MaxSymbols + 1) * SymCells - 1 |-> Cells(NullSymbol)[j % SymCells]]
    /\ m_symbols_count = 0
    /\ expected = <<>>

SymInit ==
    \E n \in 0 .. FileSymbols : \E s \in [1 .. n -> Symbol] : SymInitWith(<<NullSymbol>> \o s)

SymNext ==
    \/ debug_load_symbols
    \/ \E sym \in Symbol, behind \in Garbage : debug_create_symbol(sym, behind)

SymSpec == SymInit /\ [][SymNext]_symVars

-----------------------------------------------------------------------------
Table == [i \in 1 .. m_symbols_count |-> sym_at(cells, i - 1)]
Copies(s, sym) == Cardinality({i \in DOMAIN s : s[i] = sym})

(***************************************************************************)
(* sort_symbols, insert_symbol and the memmove below them keep the table   *)
(* sorted by address, with whole symbols, each as often as it was given.   *)
(***************************************************************************)
TableIsSorted ==
    /\ \A i \in 1 .. m_symbols_count - 1 : Table[i].address <= Table[i + 1].address
    /\ \A j \in 0 .. m_symbols_count * SymCells - 1 : cells[j] = <<Table[j \div SymCells + 1], j % SymCells>>
    /\ \A sym \in Symbol \cup {NullSymbol} : Copies(Table, sym) = Copies(expected, sym)

Contains(sym, a) == sym.address <= a /\ a < sym.address + sym.size
Disjoint == \A i \in 1 .. m_symbols_count - 1 :
    /\ Table[i].address < Table[i + 1].address
    /\ Table[i].address + Table[i].size <= Table[i + 1].address

(***************************************************************************)
(* debug_lookup_symbol, whatever it reads in the slot behind the table:    *)
(* what it returns contains the address; when symbols do not overlap or    *)
(* share an address, it finds the one that contains the address; and only  *)
(* an address above the last symbol's can make it return the slot.         *)
(***************************************************************************)
LookupFinds ==
    \A a \in {s.address + k : s \in Garbage, k \in 0 .. 2}, behind \in Garbage :
        LET r == debug_lookup_symbol(a, behind) IN
        /\ r # -1 => Contains(symbol_at(r, behind), a)
        /\ Disjoint /\ (\E i \in DOMAIN Table : Contains(Table[i], a)) => r \in 0 .. m_symbols_count - 1
        /\ r = m_symbols_count => a > Table[m_symbols_count].address
=============================================================================
