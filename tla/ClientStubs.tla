----------------------------- MODULE ClientStubs -----------------------------
(***************************************************************************)
(* The wrappers of the client library, cspi/spi-<interface>.c: what each   *)
(* sends, what it takes the reply for, and what it does next:              *)
(*                                                                         *)
(*   ev        cspi_return_val_if_ev: an exception is reported and cleared *)
(*   check     cspi_check_ev: an exception is reported and stays           *)
(*   inverted  the same, the test the wrong way round                      *)
(*   none      it uses the result whatever happened                        *)
(*                                                                         *)
(* A wrapper that reads a property always tests with cspi_return_if_ev.    *)
(***************************************************************************)

Void == ""  \* no result is expected

Call(member, sent, expects, after) == <<"call", member, sent, expects, after>>
Read(name, type) == <<"get", name, <<"s", "s">>, type, "ev">>

AccessibleStubs ==
  {Call("getAttributes", <<>>, "a(uao)", "ev"),
   Call("getRoleName", <<>>, "s", "ev"),
   Call("getLocalizedRoleName", <<>>, "s", "ev"),
   Call("getAttributes", <<>>, "as", "ev")}

ActionStubs ==
  {Read("nActions", "i"), Call("getDescription", <<"i">>, "s", "ev"),
   Call("getKeyBinding", <<"i">>, "s", "ev"), Call("getName", <<"i">>, "s", "ev"),
   Call("doAction", <<"i">>, "b", "ev")}

ApplicationStubs ==
  {Read("tooklitName", "s"), Read("version", "s"), Read("id", "u"),
   Call("getLocale", <<"u">>, "s", "ev")}

ComponentStubs ==
  {Call("contains", <<"i", "i", "n">>, "b", "ev"),
   Call("getAccessibleAtPoint", <<"i", "i", "n">>, "o", "none"),
   Call("getExtents", <<"n">>, "(iiii)", "check"),
   Call("getPosition", <<"n">>, "ii", "check")}

ComponentStubsMore ==
  {Call("getSize", <<>>, "ii", "inverted"), Call("getLayer", <<>>, "u", "ev"),
   Call("getMDIZOrder", <<>>, "n", "ev"), Call("grabFocus", <<>>, "b", "ev"),
   Call("getAlpha", <<>>, "d", "ev")}

EditableTextStubs ==
  {Call("setAttributes", <<"s", "i", "i">>, "b", "ev"),
   Call("setTextContents", <<"s">>, "b", "ev"),
   Call("insertText", <<"i", "s", "i">>, "b", "ev"),
   Call("copyText", <<"i", "i">>, Void, "ev"),
   Call("cutText", <<"i", "i">>, "b", "ev")}

EditableTextStubsMore ==
  {Call("deleteText", <<"i", "i">>, "b", "ev"),
   Call("pasteText", <<"i">>, "b", "ev")}

HyperlinkStubs ==
  {Read("nAnchors", "n"), Call("getURI", <<"i">>, "s", "ev"),
   Call("getObject", <<"i">>, "o", "none"), Read("startIndex", "i"),
   Read("endIndex", "i"), Call("isValid", <<>>, "b", "ev")}

HypertextStubs ==
  {Call("getNLinks", <<>>, "i", "ev"), Call("getLink", <<"i">>, "o", "ev"),
   Call("getLinkIndex", <<"i">>, "i", "ev")}

ImageStubs ==
  {Read("description", "s"), Call("getImageSize", <<>>, "ii", "check"),
   Call("getImagePosition", <<>>, "ii", "check"),
   Call("getImageExtents", <<>>, "(iiii)", "check"), Read("imageLocale", "=>s")}

SelectionStubs ==
  {Read("nSelectedChildren", "i"),
   Call("getSelectedChild", <<"i">>, "o", "none"),
   Call("selectChild", <<"i">>, "b", "ev"),
   Call("deselectSelectedChild", <<"i">>, "b", "ev"),
   Call("deselectChild", <<"i">>, "b", "ev")}

SelectionStubsMore ==
  {Call("isChildSelected", <<"i">>, "b", "ev"), Call("selectAll", <<>>, "b", "ev"),
   Call("clearSelection", <<>>, "b", "none")}

TablePropertyStubs ==
  {Read("caption", "o"), Read("summary", "o"), Read("nRows", "i"),
   Read("nColumns", "i"), Call("getAccessibleAt", <<"i", "i">>, "o", "ev"),
   Call("getIndexAt", <<"i", "i">>, "i", "ev")}

TableCellStubs ==
  {Call("getRowAtIndex", <<"i">>, "i", "ev"),
   Call("getColumnAtIndex", <<"i">>, "i", "ev"),
   Call("getRowDescription", <<"i">>, "s", "ev"),
   Call("getColumnDescription", <<"i">>, "s", "ev"),
   Call("getRowExtentAt", <<"i", "i">>, "i", "ev")}

TableHeaderStubs ==
  {Call("getColumnExtentAt", <<"i", "i">>, "i", "ev"),
   Call("getRowHeader", <<"i">>, "o", "ev"),
   Call("getColumnHeader", <<"i">>, "o", "ev"), Read("nSelectedRows", "i")}

TableSelectedStubs ==
  {Call("getSelectedRows", <<>>, "ai", "ev"), Read("nSelectedColumns", "i"),
   Call("getSelectedColumns", <<>>, "ai", "ev"),
   Call("isRowSelected", <<"i">>, "b", "ev"),
   Call("isColumnSelected", <<"i">>, "b", "ev")}

TableSelectionStubs ==
  {Call("addRowSelection", <<"i">>, "b", "ev"),
   Call("addColumnSelection", <<"i">>, "b", "ev"),
   Call("removeRowSelection", <<"i">>, "b", "ev"),
   Call("removeColumnSelection", <<"i">>, "b", "ev")}

TableIndexStubs ==
  {Call("getRowColumnExtentsAtIndex", <<"i">>, "iiiibb", "check"),
   Call("isSelected", <<"i", "i">>, "b", "ev")}

TextStubs ==
  {Read("characterCount", "i"), Call("getText", <<"i", "i">>, "s", "ev"),
   Read("caretOffset", "i"), Call("getAttributes", <<"i">>, "sii", "check")}

TextAroundStubs ==
  {Call("getAttributes", <<>>, "s", "check"),
   Call("setCaretOffset", <<"i">>, "b", "ev"),
   Call("getTextBeforeOffset", <<"i", "u">>, "sii", "check"),
   Call("getTextAtOffset", <<"i", "u">>, "sii", "check")}

TextPlaceStubs ==
  {Call("getTextAfterOffset", <<"i", "u">>, "sii", "check"),
   Call("getCharacterAtOffset", <<"i">>, "i", "ev"),
   Call("getCharacterExtents", <<"i", "n">>, "iiii", "check"),
   Call("getOffsetAtPoint", <<"i", "i", "n">>, "i", "ev")}

TextRangeStubs ==
  {Call("getRangeExtents", <<"i", "i", "n">>, "iiii", "check"),
   Call("getBoundedRanges", <<"i", "i", "i", "i", "n", "u", "u">>, "a(iisv)", "ev"),
   Call("getNSelections", <<"i">>, Void, "ev")}

TextSelectionStubs ==
  {Call("getSelection", <<"i">>, "ii", "check"),
   Call("addSelection", <<"i", "i">>, "b", "ev"),
   Call("removeSelection", <<"i">>, "b", "ev"),
   Call("setSelection", <<"i", "i", "i">>, "b", "ev")}

TextAttributeStubs ==
  {Call("getAttributeRun", <<"i", "b">>, "asii", "check"),
   Call("getDefaultAttributes", <<"as">>, Void, "none")}

ValueStubs ==
  {Read("minimumValue", "d"), Read("currentValue", "d"),
   Read("maximumValue", "d"), Call("setCurrentValue", <<"d">>, Void, "ev"),
   Read("minimumIncrement", "d")}

(* None of them wraps a method of Collection or Document, or Accessible's  *)
(* GetState, GetInterfaces or GetApplication.                              *)
Stubs ==
  [Accessible |-> AccessibleStubs, Action |-> ActionStubs,
   Application |-> ApplicationStubs,
   Component |-> ComponentStubs \cup ComponentStubsMore,
   Document |-> {},
   EditableText |-> EditableTextStubs \cup EditableTextStubsMore,
   Hyperlink |-> HyperlinkStubs, Hypertext |-> HypertextStubs,
   Image |-> ImageStubs,
   Selection |-> SelectionStubs \cup SelectionStubsMore,
   Table |-> TablePropertyStubs \cup TableCellStubs \cup TableHeaderStubs
               \cup TableSelectedStubs \cup TableSelectionStubs \cup TableIndexStubs,
   Text |-> TextStubs \cup TextAroundStubs \cup TextPlaceStubs
              \cup TextRangeStubs \cup TextSelectionStubs \cup TextAttributeStubs,
   Value |-> ValueStubs]
=============================================================================
