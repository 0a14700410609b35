SPECIFICATION Spec
CONSTANTS
  Comments <- MCComments
  HtmlTags <- MCHtmlTags
INVARIANT TextIsCountedOnce
CHECK_DEADLOCK FALSE
