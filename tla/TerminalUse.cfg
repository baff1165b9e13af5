SPECIFICATION Spec
CONSTANTS
  FbWidth = 4
  FbHeight = 4
  GlyphWidth = 1
  GlyphHeight = 2
  PromptHead <- MCHead
  PromptTail <- MCTail
  Keys <- MCKeys
  MaxTyped = 8
INVARIANTS
  TypeOK
  ScreenShowsLine
  NoModifierStuck
PROPERTY BackspaceTakesBackTyped
