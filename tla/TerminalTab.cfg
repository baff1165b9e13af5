SPECIFICATION Spec
CONSTANTS
  FbWidth = 5
  FbHeight = 4
  GlyphWidth = 1
  GlyphHeight = 2
  PromptHead <- MCHead
  PromptTail <- MCTail
  Keys <- MCTabKeys
  MaxTyped = 8
INVARIANT
  ScreenShowsLine
