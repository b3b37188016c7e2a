SPECIFICATION Spec
CONSTANTS
  Tools = {"sort", "uniq", "comm", "join", "cmp", "diff", "diffs", "cut",  "tr",  "tabs",  "fold",
            "head",  "tailc",  "tac",  "cat",  "nl",  "wc",  "paste",  "tee",  "split", "strings",
           "od", "hexdump", "base64", "spell", "operand", "printf", "seq", "expr", "test", "find", "glob",
           "grep", "greptree", "range",  "program",  "subst", "awkexpr", "awkrange", "awkfield",
           "awksub", "awkloop", "awktext", "shparse", "shguard", "shvars", "arith", "fwrule",
           "fwtable", "fwnumbers", "chmodclause", "chmod", "chown", "cp", "ln", "realpath",
           "maketree", "tarmatch", "roundtrip", "extract", "gzip", "bzip2", "zstd", "ratio"}
PROPERTIES
  SortedFiles ColumnsAndStreams Answers Lines Scripts Systems
