-------------------------------- MODULE KitInfo --------------------------------
(***************************************************************************)
(* The numbers of a kit's configuration: as the game keeps them, packed in *)
(* words that need not be aligned, and as the modules see them, in a table *)
(* (kitinfo.cpp).  The colours and the names of the textures have bytes of *)
(* their own and are left out.                                             *)
(***************************************************************************)
EXTENDS Integers, FiniteSetsExt

Addresses == 0..\h28   \* the bytes of a kit up to the names of its textures

(* The bits from .. to - 1 of a word are those of the field from shift on. *)
Place(f, w, b, e, s) == [field |-> f, word |-> w, from |-> b, to |-> e, shift |-> s]
Bits(f, w, b, e) == Place(f, w, b, e, 0)
ByteOf(f, a) == Bits(f, a, 0, 8)

Word(kit, w) == kit[w] + 256 * kit[w + 1]

GetWordBits(word, from, to) == (word % 2^to) \div 2^from

(* The value is clamped to its bits; those of a negative one are those of  *)
(* its two's complement, as with the remainder of TLA+.                    *)
SetWordBits(word, value, from, to) ==
  (word \div 2^to) * 2^to + (value % 2^(to - from)) * 2^from + (word % 2^from)

(* Where set_kit_info_from_lua_table puts a field.                         *)
SetPlaces == {
  ByteOf("Unk_Offset0x13_AllBits", \h13),
  Bits("Unk_Offset0x1C_Bits0to1", \h1c, 0, 2),
  Bits("Unk_Offset0x23_Bits1to7", \h22, 9, 16),
  Bits("Unk_Offset0x24_Bits0to4", \h24, 0, 5),
  Bits("Unk_Offset0x25_Bits2to7", \h24, 10, 16),
  ByteOf("Unk_Offset0x26_AllBits", \h26),
  ByteOf("Unk_Offset0x27_AllBits", \h27), ByteOf("ShortSleevesModel", \h0),
  ByteOf("ShirtModel", \h1), ByteOf("LongSleevesType", \h2),
  ByteOf("Collar", \h14), Bits("TightKit", \h1a, 15, 16),
  Bits("ShirtPattern", \h24, 5, 8), ByteOf("WinterCollar", \h15),
  Bits("SleeveLimits", \h1a, 13, 15), Bits("Name", \h1e, 0, 1),
  Bits("NameShape", \h1c, 14, 16), Bits("NameY", \h1c, 3, 9),
  Bits("NameSize", \h1c, 9, 14), Bits("NameStretch", \h25, 0, 2),
  Bits("BackNumberY", \h18, 0, 5), Bits("BackNumberSize", \h18, 5, 10),
  Bits("BackNumberSpacing", \h18, 10, 14), Bits("BackNumberType", \h1c, 2, 3),
  Bits("ChestNumberX", \h1a, 3, 8), Bits("ChestNumberY", \h18, 14, 16),
  Place("ChestNumberY", \h1a, 0, 3, 2), Bits("ChestNumberSize", \h1a, 8, 13),
  ByteOf("ShortsModel", \h3), Bits("ShortsNumberSide", \h16, 15, 16),
  Bits("ShortsNumberX", \h16, 5, 10), Bits("ShortsNumberY", \h16, 0, 5),
  Bits("ShortsNumberSize", \h16, 10, 15), Bits("RightShortX", \h1e, 11, 16),
  Bits("RightShortY", \h20, 0, 5), Bits("RightLongX", \h20, 15, 16),
  Place("RightLongX", \h22, 0, 4, 1), Bits("RightLongY", \h22, 4, 9),
  Bits("LeftShortX", \h1e, 1, 6), Bits("LeftShortY", \h1e, 6, 11),
  Bits("LeftLongX", \h20, 5, 10), Bits("LeftLongY", \h20, 10, 15)}

(* Where get_kit_info_to_lua_table finds it.                               *)
GetPlaces == {
  ByteOf("Unk_Offset0x13_AllBits", \h13),
  Bits("Unk_Offset0x1C_Bits0to1", \h1c, 0, 2),
  Bits("Unk_Offset0x23_Bits1to7", \h22, 9, 16),
  Bits("Unk_Offset0x24_Bits0to4", \h24, 0, 5),
  Bits("Unk_Offset0x25_Bits2to7", \h24, 10, 16),
  ByteOf("Unk_Offset0x26_AllBits", \h26),
  ByteOf("Unk_Offset0x27_AllBits", \h27), ByteOf("ShortSleevesModel", \h0),
  ByteOf("ShirtModel", \h1), ByteOf("LongSleevesType", \h2),
  ByteOf("Collar", \h14), Bits("TightKit", \h1a, 15, 16),
  Bits("ShirtPattern", \h24, 5, 8), ByteOf("WinterCollar", \h15),
  Bits("SleeveLimits", \h1a, 13, 15), Bits("Name", \h1e, 0, 1),
  Bits("NameShape", \h1c, 14, 16), Bits("NameY", \h1c, 3, 9),
  Bits("NameSize", \h1c, 9, 14), Bits("NameStretch", \h25, 0, 2),
  Bits("BackNumberY", \h18, 0, 5), Bits("BackNumberSize", \h18, 5, 10),
  Bits("BackNumberSpacing", \h18, 10, 14), Bits("BackNumberType", \h1c, 2, 3),
  Bits("ChestNumberX", \h1a, 3, 8), Bits("ChestNumberY", \h18, 14, 16),
  Place("ChestNumberY", \h1a, 0, 3, 2), Bits("ChestNumberSize", \h1a, 8, 13),
  ByteOf("ShortsModel", \h3), Bits("ShortsNumberSide", \h16, 15, 16),
  Bits("ShortsNumberX", \h16, 5, 10), Bits("ShortsNumberY", \h16, 0, 5),
  Bits("ShortsNumberSize", \h16, 10, 15), Bits("RightShortX", \h1e, 11, 16),
  Bits("RightShortY", \h20, 0, 5), Bits("RightLongX", \h20, 15, 16),
  Place("RightLongX", \h22, 0, 4, 1), Bits("RightLongY", \h22, 4, 9),
  Bits("LeftShortX", \h1e, 1, 6), Bits("LeftShortY", \h1e, 6, 11),
  Bits("LeftLongX", \h20, 5, 10), Bits("LeftLongY", \h20, 10, 15)}

Fields == {p.field : p \in SetPlaces}

SetField(kit, f, value) ==
  LET put(p, k) ==
        LET word == SetWordBits(Word(k, p.word), value \div 2^p.shift, p.from, p.to)
        IN [k EXCEPT ![p.word] = word % 256, ![p.word + 1] = word \div 256]
  IN FoldSet(put, kit, {p \in SetPlaces : p.field = f})

GetField(kit, f) ==
  LET part(p) == GetWordBits(Word(kit, p.word), p.from, p.to) * 2^p.shift
  IN MapThenSumSet(part, {p \in GetPlaces : p.field = f})

Width(f) ==
  LET width(p) == p.to - p.from
  IN MapThenSumSet(width, {p \in SetPlaces : p.field = f})
-----------------------------------------------------------------------------
(* What setting a field promises: it reads back, clamped to its bits, and  *)
(* every other field reads as before, in whatever order they are set.      *)
SetsOnly(kit, f, value) ==
  LET set == SetField(kit, f, value)
  IN \A g \in Fields :
       GetField(set, g) = IF g = f THEN value % 2^Width(f) ELSE GetField(kit, g)
=============================================================================
