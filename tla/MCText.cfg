\* Every text of a part up to the part's bound, none for the whole program: the
\* letters with which reserved words are spelt, integers of four bits.
SPECIFICATION Spec
CONSTANTS
  Letters = {"a", "b", "x", "w", "if", "then", "else", "elif", "fi", "do", "done", "case", "esac", "while", "until", "for", "in"}
  Width = 4
  ReadOnly = {}
  Parts = {"grammar", "loops", "chosen", "scan", "clauses", "cut", "cutBraces", "cutBody", "typed", "typedBody", "typedList", "source", "function", "split", "whole", "never", "braces", "glob", "names", "compare", "assign", "divide", "operators", "shortcut", "bracket", "class", "numbered", "visible", "spaces", "cutBytes", "wide", "files", "arguments", "output", "tokens", "contents", "order", "mounts", "endings", "setUp"}
CHECK_DEADLOCK FALSE
PROPERTIES
  TakesThePrograms
  ProgramsReadAlike
  WordsBecomeTheirFields
  PatternsMatchWhatFits
  ArithmeticMeansIt
  ReadsAreSeamless
  ArgumentsAreRead
  OutputInOrder
  WhatIsQuotedComesBack
  BootsAsWritten
