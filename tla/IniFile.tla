-------------------------------- MODULE IniFile --------------------------------
(***************************************************************************)
(* The text file the settings are kept in (inifile.c).                     *)
(*                                                                         *)
(* The file is a sequence of lines.  In memory it is a list with a pointer *)
(* to its last entry, CurEntry.  A value is what follows "=", a password   *)
(* being stored in cipher.  The type of a line is in memory only: it is    *)
(* given by the operation that makes the line and, when the file is        *)
(* opened, taken from the text.                                            *)
(*                                                                         *)
(* Values with semicolons, and texts that do not fit into the buffers, are *)
(* left out.                                                               *)
(***************************************************************************)
EXTENDS Naturals, Sequences, SequencesExt

Plain(text) == [cipher |-> FALSE, text |-> text]

Line(type, name, value) == [type |-> type, name |-> name, value |-> value]
\* The texts with "[" and "]": an address whose host is an IPv6 literal, a directory.
Bracketed == {"[address]", "[directory]"}

SectionLine(section)    == Line("section", section, Plain(""))
Comment                 == Line("comment", "", Plain(""))

\* The place of the section's line, 0 if there is none.
FindSection(lines, section) ==
  SelectInSeq(lines, LAMBDA line : line = SectionLine(section))

KeyBetween(lines, section, key, last) ==
  SelectInSubSeq(lines, FindSection(lines, section) + 1, last,
                 LAMBDA line : line.type = "key" /\ line.name = key)

\* MUTANT of KeyIn: the search goes on in the next section.
KeyBehind(lines, section, key) == KeyBetween(lines, section, key, Len(lines))

\* The last line of the section.
SectionEnd(lines, section) ==
  LET next == SelectInSubSeq(lines, FindSection(lines, section) + 1, Len(lines),
                             LAMBDA line : line.type = "section")
  IN  IF next = 0 THEN Len(lines) ELSE next - 1

KeyIn(lines, section, key) == KeyBetween(lines, section, key, SectionEnd(lines, section))

\* The place of the key's line, 0 if there is none.
FindpKey(lines, section, key) ==
  IF FindSection(lines, section) = 0 THEN 0 ELSE KeyIn(lines, section, key)

AddItemMoving(text, line, step) ==
  [lines |-> Append(SubSeq(text.lines, 1, text.CurEntry), line),
   CurEntry |-> text.CurEntry + step]

\* MUTANT of AddItem: CurEntry stays where it was.
AddItemBehind(text, line) == AddItemMoving(text, line, IF text.CurEntry = 0 THEN 1 ELSE 0)

\* The new entry follows CurEntry, whatever followed it before.
AddItem(text, line) == AddItemMoving(text, line, 1)

\* CurEntry is not moved when the new entry follows it.
AddItemAt(text, at, line) ==
  [lines |-> InsertAt(text.lines, at + 1, line),
   CurEntry |-> IF text.CurEntry > at THEN text.CurEntry + 1 ELSE text.CurEntry]

AddSectionAndpKey(text, section, line) == AddItem(AddItem(text, SectionLine(section)), line)

WriteString(text, section, key, value) ==
  LET at   == FindpKey(text.lines, section, key)
      line == Line("key", key, value)
  IN  IF at # 0 THEN [text EXCEPT !.lines[at] = line]
      ELSE IF FindSection(text.lines, section) # 0
      THEN AddItemAt(text, FindSection(text.lines, section), line)
      ELSE AddSectionAndpKey(text, section, line)

ReadString(lines, section, key, default) ==
  LET at == FindpKey(lines, section, key)
  IN  IF at = 0 THEN default ELSE lines[at].value

\* OpenIniFile takes every line with "[" and "]" for a section, before it looks for "=".
TypeRead(line) == IF line.value.text \in Bracketed THEN "section" ELSE line.type

Retyped(lines) == [i \in DOMAIN lines |-> [lines[i] EXCEPT !.type = TypeRead(lines[i])]]

(* OpenIniFile: the list of a file that can be read, and of one that cannot. *)
TextOf(lines) == [lines |-> Retyped(lines), CurEntry |-> Len(lines)]
NoText        == TextOf(<<>>)

===============================================================================
