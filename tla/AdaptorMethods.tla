--------------------------- MODULE AdaptorMethods ---------------------------
(***************************************************************************)
(* What the adaptors of atk-adaptor/adaptors implement: the members in     *)
(* their tables, the arguments each function takes, what it replies, and   *)
(* what it does with the objects that the toolkit gives it on the way:     *)
(*                                                                         *)
(*   nothing    it is given none                                           *)
(*   returned   it gets a reference, appends the object, drops it          *)
(*   listed     the same for several                                       *)
(*   linked     takes a reference to one it is shown, appends, drops it    *)
(*   borrowed   appends one it is shown and has no reference to            *)
(*   targets    the same for several                                       *)
(*   examined   gets a reference, looks, drops it, one after another       *)
(*                                                                         *)
(* The signature of the arguments is a sequence of complete D-Bus types,   *)
(* that of the reply a string of them.                                     *)
(***************************************************************************)

NoResult == ""
AttributeSet == "a{ss}"
AttributeRun == "a{ss}ii"   \* with the range of text that it is for

Method(member, in, out, object) ==
  <<member, in, out, object>>
Plain(member, in, out) == Method(member, in, out, "nothing")

Property(name, type, object) == <<name, type, object>>
Value(name, type) == Property(name, type, "nothing")

AccessibleMethods ==
  {Method("GetChildAtIndex", <<"i">>, "(so)", "returned"),
   Method("GetChildren", <<>>, "a(so)", "listed"),
   Plain("GetIndexInParent", <<>>, "u")}

\* The relation set that GetRelationSet is given a reference to is not dropped.
AccessibleRoles ==
  {Method("GetRelationSet", <<>>, "a(ua(so))", "targets"),
   Plain("GetRole", <<>>, "u"), Plain("GetRoleName", <<>>, "s"),
   Plain("GetLocalizedRoleName", <<>>, "s")}

AccessibleAbout ==
  {Plain("GetState", <<>>, "au"), Plain("GetAttributes", <<>>, AttributeSet),
   Method("GetApplication", <<>>, "(so)", "borrowed"),
   Plain("GetInterfaces", <<>>, "as")}

AccessibleProperties ==
  {Value("Name", "s"), Value("Description", "s"), Value("ChildCount", "i"),
   Property("Parent", "(so)", "borrowed")}

ActionMethods ==
  {Plain("GetDescription", <<"i">>, "s"), Plain("GetName", <<"i">>, "s"),
   Plain("GetKeyBinding", <<"i">>, "s")}
ActionMethodsMore ==
  {Plain("GetActions", <<>>, "a(sss)"), Plain("DoAction", <<"i">>, "b")}
ActionProperties == {Value("NActions", "i")}

\* The functions of Application return NULL, which droute takes for "".
ApplicationMethods ==
  {Plain("registerToolkitEventListener", <<>>, NoResult),
   Plain("registerObjectEventListener", <<>>, NoResult),
   Plain("pause", <<>>, NoResult), Plain("resume", <<>>, NoResult),
   Plain("GetLocale", <<>>, NoResult)}
ApplicationProperties ==
  {Value("ToolkitName", "s"), Value("Version", "s"), Value("Id", "i")}

ComponentMethods ==
  {Plain("contains", <<"i", "i", "u">>, "b"),
   Method("GetAccessibleAtPoint", <<"i", "i", "u">>, "(so)", "returned"),
   Plain("GetExtents", <<"u">>, "(iiii)"),
   Plain("GetPosition", <<"u">>, "ii"),
   Plain("GetSize", <<>>, "ii")}
ComponentMethodsMore ==
  {Plain("GetLayer", <<>>, "u"), Plain("GetMDIZOrder", <<>>, "n"),
   Plain("GrabFocus", <<>>, "u"), Plain("GetAlpha", <<>>, "d")}

DocumentMethods ==
  {Plain("GetLocale", <<>>, "s"), Plain("GetAttributeValue", <<"s">>, "s"),
   Plain("GetAttributes", <<>>, AttributeSet)}

EditableTextMethods ==
  {Plain("SetTextContents", <<"s">>, "b"),
   Plain("InsertText", <<"i", "s", "i">>, "b"),
   Plain("CopyText", <<"i", "i">>, NoResult), Plain("CutText", <<"i", "i">>, "b")}
EditableTextMethodsMore ==
  {Plain("DeleteText", <<"i", "i">>, "b"), Plain("PasteText", <<"i">>, "b")}

HyperlinkMethods ==
  {Method("GetObject", <<"i">>, "(so)", "borrowed"), Plain("GetURI", <<"i">>, "s"),
   Plain("IsValid", <<>>, "b")}
HyperlinkProperties ==
  {Value("NAnchors", "i"), Value("StartIndex", "i"), Value("EndIndex", "i")}

HypertextMethods ==
  {Plain("GetNLinks", <<>>, "i"), Method("GetLink", <<"i">>, "(so)", "linked"),
   Plain("GetLinkIndex", <<"i">>, "i")}

ImageMethods ==
  {Plain("GetImageExtents", <<"u">>, "(iiii)"),
   Plain("GetImagePosition", <<"u">>, "ii"),
   Plain("GetImageSize", <<>>, "ii")}
ImageProperties == {Value("ImageDescription", "s"), Value("ImageLocale", "s")}

SelectionMethods ==
  {Method("GetSelectedChild", <<"i">>, "(so)", "returned"),
   Plain("SelectChild", <<"i">>, "b"), Plain("DeselectSelectedChild", <<"i">>, "b"),
   Plain("IsChildSelected", <<"i">>, "b")}
SelectionMethodsMore ==
  {Plain("SelectAll", <<>>, "b"), Plain("ClearSelection", <<>>, "b"),
   Method("DeselectChild", <<"i">>, "b", "examined")}
SelectionProperties == {Value("NSelectedChildren", "i")}

TableProperties ==
  {Value("NRows", "i"), Value("NColumns", "i"),
   Property("Caption", "(so)", "borrowed"), Property("Summary", "(so)", "borrowed"),
   Value("NSelectedRows", "i"), Value("NSelectedColumns", "i")}
TableCells ==
  {Method("GetAccessibleAt", <<"i", "i">>, "(so)", "returned"),
   Plain("GetIndexAt", <<"i", "i">>, "i"),
   Plain("GetRowAtIndex", <<"i">>, "i"), Plain("GetColumnAtIndex", <<"i">>, "i"),
   Plain("GetRowDescription", <<"i">>, "s")}
TableExtents ==
  {Plain("GetColumnDescription", <<"i">>, "s"),
   Plain("GetRowExtentAt", <<"i", "i">>, "i"),
   Plain("GetColumnExtentAt", <<"i", "i">>, "i"),
   Method("GetRowHeader", <<"i">>, "(so)", "borrowed"),
   Method("GetColumnHeader", <<"i">>, "(so)", "borrowed")}
TableSelected ==
  {Plain("GetSelectedRows", <<>>, "ai"), Plain("GetSelectedColumns", <<>>, "ai"),
   Plain("IsRowSelected", <<"i">>, "b"), Plain("IsColumnSelected", <<"i">>, "b"),
   Plain("IsSelected", <<"i", "i">>, "b")}
TableSelection ==
  {Plain("AddRowSelection", <<"i">>, "b"),
   Plain("AddColumnSelection", <<"i">>, "b"),
   Plain("RemoveRowSelection", <<"i">>, "b"),
   Plain("RemoveColumnSelection", <<"i">>, "b")}
TableIndex ==
  {Method("GetRowColumnExtentsAtIndex", <<"i">>, "biiiib", "examined")}

TextProperties == {Value("CharacterCount", "i"), Value("CaretOffset", "i")}
TextReading ==
  {Plain("GetText", <<"i", "i">>, "s"), Plain("SetCaretOffset", <<"i">>, "b"),
   Plain("GetTextBeforeOffset", <<"i", "u">>, "sii")}
\* Mutant: the text after an offset is asked for with a range.
TextAroundRanges ==
  {Plain("GetTextAtOffset", <<"i", "u">>, "sii"),
   Plain("GetTextAfterOffset", <<"i", "i">>, "sii"),
   Plain("GetCharacterAtOffset", <<"i">>, "i")}
TextAround ==
  {Plain("GetTextAtOffset", <<"i", "u">>, "sii"),
   Plain("GetTextAfterOffset", <<"i", "u">>, "sii"),
   Plain("GetCharacterAtOffset", <<"i">>, "i")}
TextAttributes ==
  {Plain("GetAttributeValue", <<"i", "s">>, "siib"),
   Plain("GetAttributes", <<"i">>, AttributeRun),
   Plain("GetDefaultAttributes", <<>>, AttributeSet)}
TextPlaces ==
  {Plain("GetCharacterExtents", <<"i", "u">>, "iiii"),
   Plain("GetOffsetAtPoint", <<"i", "i", "u">>, "i"),
   Plain("GetNSelections", <<>>, "i"), Plain("GetSelection", <<"i">>, "ii")}
TextSelection ==
  {Plain("AddSelection", <<"i", "i">>, "b"), Plain("RemoveSelection", <<"i">>, "b"),
   Plain("SetSelection", <<"i", "i", "i">>, "b"),
   Plain("GetRangeExtents", <<"i", "i", "u">>, "iiii")}
TextRanges ==
  {Plain("GetBoundedRanges", <<"i", "i", "i", "i", "u", "u", "u">>, "a(iisv)"),
   Plain("GetAttributeRun", <<"i", "b">>, AttributeRun),
   Plain("GetDefaultAttributeSet", <<>>, AttributeSet)}

ValueProperties ==
  {Value("MinimumValue", "d"), Value("MaximumValue", "d"),
   Value("MinimumIncrement", "d"), Value("CurrentValue", "d")}

(* The interfaces that every path under /org/a11y/atspi/accessible has,    *)
(* whatever the object implements.                                         *)
Methods ==
  [Accessible |-> AccessibleMethods \cup AccessibleRoles \cup AccessibleAbout,
   Action |-> ActionMethods \cup ActionMethodsMore,
   Application |-> ApplicationMethods,
   Component |-> ComponentMethods \cup ComponentMethodsMore,
   Document |-> DocumentMethods,
   EditableText |-> EditableTextMethods \cup EditableTextMethodsMore,
   Hyperlink |-> HyperlinkMethods,
   Hypertext |-> HypertextMethods,
   Image |-> ImageMethods,
   Selection |-> SelectionMethods \cup SelectionMethodsMore,
   Table |-> TableCells \cup TableExtents \cup TableSelected \cup TableSelection
               \cup TableIndex,
   Text |-> TextReading \cup TextAround \cup TextAttributes \cup TextPlaces
              \cup TextSelection \cup TextRanges,
   Value |-> {}]

Properties ==
  [Accessible |-> AccessibleProperties, Action |-> ActionProperties,
   Application |-> ApplicationProperties, Component |-> {}, Document |-> {},
   EditableText |-> {}, Hyperlink |-> HyperlinkProperties, Hypertext |-> {},
   Image |-> ImageProperties, Selection |-> SelectionProperties,
   Table |-> TableProperties, Text |-> TextProperties, Value |-> ValueProperties]

\* The properties that have a setter; it answers whatever it did.
Settable ==
  {<<"Accessible", "Name">>, <<"Accessible", "Description">>,
   <<"Application", "Id">>, <<"Value", "CurrentValue">>}

Interface == DOMAIN Methods
=============================================================================
