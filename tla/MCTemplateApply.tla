-------------------------- MODULE MCTemplateApply --------------------------
(* Instances of TemplateApplyService for TLC.                              *)
EXTENDS TemplateApplyService

CONSTANTS gtk, kde, dark, light

OneTemplate == {gtk}
TwoTemplates == {gtk, kde}
NoTemplate == {}
OneLook == {dark}
TwoLooks == {dark, light}
InlineKde == {kde}
=============================================================================
