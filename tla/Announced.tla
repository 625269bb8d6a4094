----------------------------- MODULE Announced ------------------------------
(***************************************************************************)
(* What introspection.c tells clients that each interface of an accessible *)
(* has: methods with the signatures of their arguments and results, and    *)
(* properties with their types.  (org.a11y.atspi.Collection is announced   *)
(* with arguments its methods refuse: see Collection.)                     *)
(***************************************************************************)
EXTENDS AdaptorMethods

DictEntry == "{ss}"

AnnouncedAccessible ==
  [methods |->
     {<<"GetChildAtIndex", <<"i">>, "(so)">>,
      <<"GetChildren", <<>>, "a(so)">>, <<"GetIndexInParent", <<>>, "i">>,
      <<"GetRelationSet", <<>>, "a(ua(so))">>, <<"GetRole", <<>>, "u">>,
      <<"GetRoleName", <<>>, "s">>, <<"GetLocalizedRoleName", <<>>, "s">>,
      <<"GetState", <<>>, "au">>, <<"GetAttributes", <<>>, AttributeSet>>,
      <<"GetApplication", <<>>, "(so)">>},
   properties |->
     {<<"name", "s">>, <<"description", "s">>,
      <<"parent", "(so)">>, <<"childCount", "i">>}]

AnnouncedAction ==
  [methods |->
     {<<"GetDescription", <<"i">>, "s">>, <<"GetName", <<"i">>, "s">>,
      <<"GetKeyBinding", <<"i">>, "s">>, <<"GetActions", <<>>, "a(sss)">>,
      <<"DoAction", <<"i">>, "b">>},
   properties |-> {<<"nActions", "i">>}]

AnnouncedApplication ==
  [methods |-> {<<"GetLocale", <<"u">>, "s">>},
   properties |->
     {<<"toolkitName", "s">>, <<"version", "s">>,
      <<"id", "i">>}]

AnnouncedComponent ==
  [methods |->
     {<<"Contains", <<"i", "i", "u">>, "b">>,
      <<"GetAccessibleAtPoint", <<"i", "i", "u">>, "(so)">>,
      <<"GetExtents", <<"u">>, "(iiii)">>, <<"GetPosition", <<"u">>, "ii">>,
      <<"GetSize", <<>>, "ii">>, <<"GetLayer", <<>>, "u">>,
      <<"GetMDIZOrder", <<>>, "n">>, <<"GrabFocus", <<>>, "b">>,
      <<"GetAlpha", <<>>, "d">>},
   properties |-> {}]

AnnouncedDocument ==
  [methods |->
     {<<"GetLocale", <<>>, "s">>,
      <<"GetAttributeValue", <<"s">>, "s">>, <<"GetAttributes", <<>>, DictEntry>>},
   properties |-> {}]

AnnouncedEditableText ==
  [methods |->
     {<<"SetTextContents", <<"s">>, "b">>,
      <<"InsertText", <<"i", "s", "i">>, "b">>,
      <<"CopyText", <<"i", "i">>, NoResult>>,
      <<"CutText", <<"i", "i">>, "b">>, <<"DeleteText", <<"i", "i">>, "b">>,
      <<"PasteText", <<"i">>, "b">>},
   properties |-> {}]

AnnouncedHyperlink ==
  [methods |->
     {<<"GetObject", <<"i">>, "(so)">>, <<"GetURI", <<"i">>, "s">>,
      <<"IsValid", <<>>, "b">>},
   properties |->
     {<<"nAnchors", "n">>, <<"startIndex", "i">>,
      <<"endIndex", "i">>}]

AnnouncedHypertext ==
  [methods |->
     {<<"GetNLinks", <<>>, "i">>, <<"GetLink", <<"i">>, "(so)">>,
      <<"GetLinkIndex", <<"i">>, "i">>},
   properties |-> {}]

AnnouncedImage ==
  [methods |->
     {<<"GetImageExtents", <<"u">>, "(iiii)">>,
      <<"GetImagePosition", <<"u">>, "ii">>, <<"GetImageSize", <<>>, "ii">>},
   properties |->
     {<<"imageDescription", "s">>, <<"imageLocale", "s">>}]

AnnouncedSelection ==
  [methods |->
     {<<"GetSelectedChild", <<"i">>, "(so)">>,
      <<"SelectChild", <<"i">>, "b">>, <<"DeselectSelectedChild", <<"i">>, "b">>,
      <<"IsChildSelected", <<"i">>, "b">>, <<"SelectAll", <<>>, "b">>,
      <<"ClearSelection", <<>>, "b">>, <<"deSelectChild", <<"i">>, "b">>},
   properties |-> {<<"NSelectedChildren", "i">>}]

AnnouncedTable ==
  [methods |->
     {<<"GetAccessibleAt", <<"i", "i">>, "(so)">>,
      <<"GetIndexAt", <<"i", "i">>, "i">>, <<"GetRowAtIndex", <<"i">>, "i">>,
      <<"GetColumnAtIndex", <<"i">>, "i">>, <<"GetRowDescription", <<"i">>, "s">>,
      <<"GetColumnDescription", <<"i">>, "s">>,
      <<"GetRowExtentAt", <<"i", "i">>, "i">>,
      <<"GetColumnExtentAt", <<"i", "i">>, "i">>,
      <<"GetRowHeader", <<"i">>, "(so)">>,
      <<"GetColumnHeader", <<"i">>, "(so)">>, <<"GetSelectedRows", <<>>, "ai">>,
      <<"GetSelectedColumns", <<>>, "ai">>, <<"IsRowSelected", <<"i">>, "b">>,
      <<"IsColumnSelected", <<"i">>, "b">>, <<"IsSelected", <<"i", "i">>, "b">>,
      <<"AddRowSelection", <<"i">>, "b">>, <<"AddColumnSelection", <<"i">>, "b">>,
      <<"RemoveRowSelection", <<"i">>, "b">>,
      <<"RemoveColumnSelection", <<"i">>, "b">>,
      <<"GetRowColumnExtentsAtIndex", <<"i">>, "biiiib">>},
   properties |->
     {<<"nRows", "i">>, <<"nColumns", "i">>,
      <<"caption", "(so)">>, <<"summary", "(so)">>, <<"NSelectedRows", "i">>,
      <<"NSelectedColumns", "i">>}]

AnnouncedText ==
  [methods |->
     {<<"GetText", <<"i", "i">>, "s">>, <<"SetCaretOffset", <<"i">>, "b">>,
      <<"GetTextBeforeOffset", <<"i", "u">>, "sii">>,
      <<"GetTextAtOffset", <<"i", "u">>, "sii">>,
      <<"GetTextAfterOffset", <<"i", "u">>, "sii">>,
      <<"GetCharacterAtOffset", <<"i">>, "i">>,
      <<"GetAttributeValue", <<"i", "s">>, "siib">>,
      <<"GetAttributes", <<"i">>, AttributeRun>>,
      <<"GetDefaultAttributes", <<>>, AttributeSet>>,
      <<"GetCharacterExtents", <<"i", "u">>, "iiii">>,
      <<"GetOffsetAtPoint", <<"i", "i", "u">>, "i">>,
      <<"GetNSelections", <<>>, "i">>,
      <<"GetSelection", <<"i">>, "ii">>, <<"AddSelection", <<"i", "i">>, "b">>,
      <<"RemoveSelection", <<"i">>, "b">>,
      <<"SetSelection", <<"i", "i", "i">>, "b">>,
      <<"GetRangeExtents", <<"i", "i", "u">>, "iiii">>,
      <<"GetBoundedRanges", <<"i", "i", "i", "i", "u", "u", "u">>, "a(iisv)">>,
      <<"GetAttributeRun", <<"i", "b">>, AttributeRun>>,
      <<"GetDefaultAttributeSet", <<>>, "as">>},
   properties |->
     {<<"characterCount", "i">>, <<"caretOffset", "i">>}]

AnnouncedValue ==
  [methods |-> {},
   properties |->
     {<<"minimumValue", "d">>, <<"maximumValue", "d">>,
      <<"minimumIncrement", "d">>, <<"currentValue", "d">>}]

Announced ==
  [Accessible |-> AnnouncedAccessible, Action |-> AnnouncedAction,
   Application |-> AnnouncedApplication, Component |-> AnnouncedComponent,
   Document |-> AnnouncedDocument, EditableText |-> AnnouncedEditableText,
   Hyperlink |-> AnnouncedHyperlink, Hypertext |-> AnnouncedHypertext,
   Image |-> AnnouncedImage, Selection |-> AnnouncedSelection,
   Table |-> AnnouncedTable, Text |-> AnnouncedText,
   Value |-> AnnouncedValue]
=============================================================================
