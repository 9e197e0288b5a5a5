-------------------------------- MODULE Video --------------------------------
(* What vga.c computes: colours of the text mode, pixels in the formats of   *)
(* the modes, and the list of the modes, which the BIOS and the driver make  *)
(* together; and the characters and glyphs that the screen is drawn with     *)
(* (encoding/cp437.c, font/font.c).                                          *)
EXTENDS Integers, Sequences, SequencesExt

CONSTANT RegionSize     \* DIFF_REGION_SIZE: pixels of a region

NoInfo == [current |-> -2, next |-> -2, text |-> FALSE, width |-> 0, height |-> 0, bpp |-> 0]

-----------------------------------------------------------------------------
(* Colours: red, green and blue, of eight bits each *)

Bit(b, weight) == IF b THEN weight ELSE 0

rgb_to_irgb(color) ==
    LET max == Max({color[1], color[2], color[3]})
        min == Min({color[1], color[2], color[3]})
        mean == (max + min) \div 2
    IN IF max - min < 80 THEN
          CASE mean < 64 -> 0 [] mean \in 64 .. 128 -> 8 [] mean \in 129 .. 191 -> 7 [] OTHER -> 15
       ELSE Bit(max >= 192, 8) + Bit(color[1] >= 128, 4) + Bit(color[2] >= 128, 2) + Bit(color[3] >= 128, 1)

\* The sixteen colours that have names; green is halved in brown.
Has(n, k) == (n \div 2 ^ k) % 2
palette(n) ==
    [k \in 1 .. 3 |-> IF n = 3 /\ k = 2 THEN 85 ELSE 85 * Has(n, 3) + 170 * Has(n, k - 1)]

-----------------------------------------------------------------------------
(* Pixels: blue, green, red and a byte more in the frame buffer; on the      *)
(* screen as the mode has them, low byte first.                              *)

Store(mem, at, bytes) ==
    [k \in DOMAIN mem |-> IF k \in at .. at + Len(bytes) - 1 THEN bytes[k - at + 1] ELSE mem[k]]
LowBytes(color, n) == [k \in 1 .. n |-> (color \div 256 ^ (k - 1)) % 256]

\* The byte after the pixel is overwritten where another pixel follows.
Three(at, left, four) == IF at % 2 = 0 /\ left > 1 THEN four ELSE SubSeq(four, 1, 3)

convert_color_rgbx8888(format, at, left, orig) == orig
convert_color_rgb888(format, at, left, orig) == Three(at, left, orig)
convert_color_rgb565(format, at, left, orig) ==
    LowBytes((orig[3] \div 8) * 2048 + (orig[2] \div 4) * 32 + orig[1] \div 8, 2)
convert_color_generic(format, at, left, orig) ==
    LET Part(byte, bits, position) == (byte \div 2 ^ (8 - bits)) * 2 ^ position
        color == Part(orig[3], format.bits[1], format.position[1]) + Part(orig[2], format.bits[2], format.position[2])
                 + Part(orig[1], format.bits[3], format.position[3])
        size == (format.bpp + 7) \div 8
    IN IF size = 3 THEN Three(at, left, LowBytes(color, 4)) ELSE LowBytes(color, size)

\* The format is told by the number of bits alone.
Converted(format, at, left, orig) ==
    CASE format.bpp = 24 -> convert_color_rgb888(format, at, left, orig)
      [] format.bpp = 32 -> convert_color_rgbx8888(format, at, left, orig)
      [] format.bpp = 16 -> convert_color_rgb565(format, at, left, orig)
      [] OTHER -> convert_color_generic(format, at, left, orig)
Step(format) == (format.bpp + 7) \div 8

convert_color(format, pixels, mem, at) ==
    LET Pixel(m, k) == Store(m, at + (k - 1) * Step(format), Converted(format, at + (k - 1) * Step(format), Len(pixels) - k + 1, pixels[k]))
    IN FoldLeft(Pixel, mem, [k \in 1 .. Len(pixels) |-> k])

\* From a region as many as are marked alike.
Chunk(marked, regions, xr) ==
    CHOOSE n \in 1 .. regions - xr :
        /\ \A k \in 1 .. n - 1 : (xr + k \in marked) = (xr \in marked)
        /\ xr + n < regions => (xr + n \in marked) # (xr \in marked)

\* A row of the screen, which begins at an address of "mem".
fb_flush_vbe(format, row, marked, mem, start) ==
    LET regions == Len(row) \div RegionSize
        Begins(xr) == xr \in marked /\ xr - 1 \notin marked
        Copied(m, xr) ==
            LET from == xr * RegionSize
                pixels == SubSeq(row, from + 1, from + Chunk(marked, regions, xr) * RegionSize)
            IN convert_color(format, pixels, m, start + (from * format.bpp) \div 8)
    IN FoldLeft(Copied, mem, SelectSeq([k \in 1 .. regions |-> k - 1], Begins))

-----------------------------------------------------------------------------
(* Modes.  A BIOS has a list of [num, kind, width, height, bpp], where the   *)
(* kind is direct, text or other, or that there is no information; "vbe" is  *)
(* vbe_available.                                                            *)

Modes(bios) == DOMAIN bios.list
Offers(bios) == \E k \in Modes(bios) : bios.list[k].num < 256     \* vbe_offers_nonvbe_mode_info

Answer(ok, info) == [ok |-> ok, info |-> info]
Vga(mode) == IF mode = 0 THEN [width |-> 40, height |-> 25] ELSE [width |-> 80, height |-> 25]

\* The number of bits stays what it was before.
get_mode_info_vga(asked, info) ==
    LET mode == IF asked < 0 THEN 0 ELSE asked
    IN IF mode \notin {0, 3} THEN Answer(FALSE, info)
       ELSE Answer(TRUE, [info EXCEPT !.current = mode, !.next = IF mode = 0 THEN 3 ELSE -1, !.text = TRUE,
                                      !.width = Vga(mode).width, !.height = Vga(mode).height])

Filled(m) ==
    [current |-> m.num, next |-> -1, text |-> m.kind = "text", width |-> m.width, height |-> m.height, bpp |-> m.bpp]

get_mode_info_vbe(bios, mode, info) ==
    LET list == bios.list
        asked == {k \in Modes(bios) : list[k].kind # "other" /\ (mode >= 0 => list[k].num = mode)}
        first == Min(asked)
        found == Filled(list[first])
        later == {k \in Modes(bios) : k > first /\ list[k].kind # "other"}
        next == Min(later)
    IN IF asked = {} THEN
          IF Offers(bios) THEN Answer(TRUE, info) ELSE get_mode_info_vga(mode, info)
       ELSE IF list[first].kind = "none" THEN Answer(FALSE, info)
       ELSE IF later = {} THEN Answer(TRUE, IF Offers(bios) THEN found ELSE [found EXCEPT !.next = 0])
       ELSE IF list[next].kind = "none" THEN Answer(FALSE, found)
       ELSE Answer(TRUE, [found EXCEPT !.next = list[next].num])

get_mode_info(bios, mode, info) ==
    IF bios.vbe THEN get_mode_info_vbe(bios, mode, info) ELSE get_mode_info_vga(mode, info)

\* What the BIOS knows of a mode, listed or not: "legacy" are modes of the VGA
\* that it describes all the same.
Described(bios, mode) ==
    LET known == {k \in Modes(bios) : bios.list[k].num = mode}
    IN IF known # {} THEN bios.list[Min(known)]
       ELSE [num |-> mode, kind |-> IF mode \in bios.legacy THEN "text" ELSE "none",
             width |-> Vga(mode).width, height |-> Vga(mode).height, bpp |-> 0]

get_hw_mode_info_vga(mode) ==
    IF mode \in {0, 3} THEN [ok |-> TRUE, width |-> Vga(mode).width, height |-> Vga(mode).height, text |-> TRUE] ELSE [ok |-> FALSE]
get_hw_mode_info_vbe(bios, mode) ==
    LET m == Described(bios, mode)
    IN IF (~Offers(bios) /\ mode < 256) \/ m.kind \in {"none", "other"} THEN [ok |-> FALSE]
       ELSE [ok |-> TRUE, width |-> m.width, height |-> m.height, text |-> m.kind = "text"]
get_hw_mode_info(bios, mode) ==
    IF ~bios.vbe THEN [ok |-> FALSE]
    ELSE IF ~Offers(bios) /\ mode < 256 THEN get_hw_mode_info_vga(mode) ELSE get_hw_mode_info_vbe(bios, mode)

\* Whether a mode is set: with the VBE the modes of the VGA are only tried
\* where the list has such modes.
Settable(bios, mode) ==
    IF bios.vbe /\ Described(bios, mode).kind # "none" THEN TRUE
    ELSE (bios.vbe => Offers(bios)) /\ mode \in {0, 3}

\* A caller goes from each mode to the next one, until there is none.
RECURSIVE Walk(_, _, _, _)
Walk(bios, mode, info, steps) ==
    LET a == get_mode_info(bios, mode, info)
    IN IF steps = 0 \/ ~a.ok THEN <<>>
       ELSE <<a.info>> \o (IF a.info.next < 0 THEN <<>> ELSE Walk(bios, a.info.next, a.info, steps - 1))

-----------------------------------------------------------------------------
(* Characters and glyphs.  A lookup tells whether it found something and     *)
(* which place of which table it read; what an entry holds is up to "entry". *)

TableSize == <<96, 56, 224, 64>>
Singles ==
    {402, 8226, 8252, 8319, 8359, 8592, 8593, 8594, 8595, 8596, 8597, 8600,
     8729, 8730, 8734, 8735, 8745, 8776, 8801, 8804, 8805, 8962, 8976, 8992, 8993}
Found(ok) == [ok |-> ok, read |-> <<>>]

VlEnc_Utf32ToCp437(utf32, entry) ==
    LET In(n, from) ==
            IF utf32 >= from + TableSize[n] THEN Found(FALSE) ELSE [ok |-> entry, read |-> <<n, utf32 - from>>]
    IN CASE utf32 < 160 -> Found(utf32 = 0 \/ utf32 \in 32 .. 126)
         [] utf32 \in 160 .. 401 -> In(1, 160)
         [] utf32 \in 402 .. 9471 -> IF utf32 \div 256 = 3 THEN In(2, 912) ELSE Found(utf32 \in Singles)
         [] utf32 \in 9472 .. 9775 -> In(3, 9472)
         [] OTHER -> In(4, 9776)

\* A font file says for every character up to the last whether it is narrow or
\* wide or missing; no file is the font of the BIOS.
Glyph(font, codepoint) == IF codepoint > Len(font) - 1 THEN "none" ELSE font[codepoint + 1]
VlFont_GetGlyphDimension(font, codepoint) ==
    IF font = <<>> THEN [ok |-> TRUE, width |-> 8]
    ELSE IF Glyph(font, codepoint) = "none" THEN [ok |-> FALSE]
    ELSE [ok |-> TRUE, width |-> IF Glyph(font, codepoint) = "wide" THEN 16 ELSE 8]
VlFont_GetGlyphData(font, codepoint, size, entry) ==
    IF font = <<>> THEN
       IF size < 16 \/ ~VlEnc_Utf32ToCp437(codepoint, entry).ok THEN [ok |-> FALSE] ELSE [ok |-> TRUE, copied |-> 16]
    ELSE LET bytes == IF Glyph(font, codepoint) = "wide" THEN 32 ELSE 16
         IN IF Glyph(font, codepoint) = "none" \/ size < bytes THEN [ok |-> FALSE] ELSE [ok |-> TRUE, copied |-> bytes]

-----------------------------------------------------------------------------
(* Reference: what a screen and a list should be *)

Old == 256          \* what no byte is: a place that was not written

Number(bytes) == FoldRight(LAMBDA byte, n : n * 256 + byte, SubSeq(bytes, 1, Min({3, Len(bytes)})), 0)
Component(format, bytes, c) == (Number(bytes) \div 2 ^ format.position[c]) % 2 ^ format.bits[c]

(* Pixels in regions that are marked are on the screen in the format of the  *)
(* mode, and no other byte of it was written, wherever the row begins; but   *)
(* where a pixel has a number of bits that fills no bytes, only what is      *)
(* marked from the left edge on comes to its place.                          *)
PixelsAreShown(q) ==
    LET start == 2 + q.odd
        size == Step(q.format)
        mem == fb_flush_vbe(q.format, q.row, q.marked, [a \in 0 .. start + Len(q.row) * size + 4 |-> Old], start)
        marked == {k \in 0 .. Len(q.row) - 1 : k \div RegionSize \in q.marked}
        Place(k) == start + k * size .. start + (k + 1) * size - 1
        Bytes(k) == [i \in 1 .. size |-> mem[start + k * size + i - 1]]
    IN q.format.bpp % 8 = 0 \/ (\A r \in q.marked : 0 .. r \subseteq q.marked) =>
         /\ \A k \in marked, c \in 1 .. 3 :
               Component(q.format, Bytes(k), c) = q.row[k + 1][4 - c] \div 2 ^ (8 - q.format.bits[c])
         /\ {a \in DOMAIN mem : mem[a] # Old} = UNION {Place(k) : k \in marked}

(* The colours that have names are shown as themselves in a text mode, but   *)
(* for brown, which is red; and no channel counts for more than another.     *)
ColoursAreKept(color) ==
    /\ \A n \in 0 .. 15 : color = palette(n) =>
          rgb_to_irgb(color) = (IF n = 3 THEN 4 ELSE 8 * Has(n, 3) + 4 * Has(n, 0) + 2 * Has(n, 1) + Has(n, 2))
    /\ LET code == rgb_to_irgb(color)
           turned == rgb_to_irgb(<<color[2], color[3], color[1]>>)
       IN turned \div 8 = code \div 8 /\ turned % 8 = (code % 4) * 2 + Has(code, 2)

(* A caller that goes from mode to mode sees each of the modes it could use  *)
(* once, in the order of the BIOS and then those of the VGA, as they are,    *)
(* and can set them; but nothing from the mode on that comes before one      *)
(* without information, and modes of the VGA that the BIOS neither lists nor *)
(* describes are shown and cannot be set.                                    *)
ModesAreListed(bios) ==
    LET usable == SelectSeq(bios.list, LAMBDA m : m.kind # "other")
        broken == {k \in DOMAIN usable : usable[k].kind = "none"}
        Numbers(s) == [k \in DOMAIN s |-> s[k].num]
        shown == Walk(bios, -1, NoInfo, 8)
        listed == IF ~bios.vbe THEN <<0, 3>>
                  ELSE IF broken # {} THEN Numbers(SubSeq(usable, 1, Min(broken) - 2))
                  ELSE Numbers(usable) \o (IF Offers(bios) THEN <<>> ELSE <<0, 3>>)
    IN ~(bios.vbe /\ Offers(bios) /\ usable = <<>>) =>
         /\ [k \in DOMAIN shown |-> shown[k].current] = listed
         /\ \A k \in DOMAIN shown :
               LET mode == shown[k].current
                   hw == get_hw_mode_info(bios, mode)
               IN /\ bios.vbe => hw.ok /\ <<hw.width, hw.height, hw.text>> = <<shown[k].width, shown[k].height, shown[k].text>>
                  /\ shown[k].text \/ shown[k].bpp = Described(bios, mode).bpp
                  /\ Settable(bios, mode) <=> ~(bios.vbe /\ ~Offers(bios) /\ mode \in {0, 3} \ bios.legacy)

(* A glyph fits the buffer and is as wide as was said, a font file has both  *)
(* or none of a character; and tables are read inside, but for characters    *)
(* from U+0300 to U+038F, which are looked for before the Greek ones.        *)
GlyphsFit(font, codepoint, entry) ==
    LET dimension == VlFont_GetGlyphDimension(font, codepoint)
        Data(size) == VlFont_GetGlyphData(font, codepoint, size, entry)
        read == VlEnc_Utf32ToCp437(codepoint, entry).read
    IN /\ \A size \in {15, 16, 31, 32} : Data(size).ok => Data(size).copied <= size
       /\ dimension.ok /\ Data(32).ok => Data(32).copied = 2 * dimension.width
       /\ font # <<>> => (dimension.ok <=> Data(32).ok)
       /\ read # <<>> => read[2] \in 0 .. TableSize[read[1]] - 1 \/ codepoint \in 768 .. 911
=============================================================================
