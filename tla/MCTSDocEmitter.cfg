SPECIFICATION Spec
CONSTANTS
  Comments <- MCComments
  HtmlTags <- MCHtmlTags
INVARIANT EmittedTextIsRead
INVARIANT ParagraphsFollowBlankLines
 
INVARIANT TextIsNeverMissed
CHECK_DEADLOCK FALSE
