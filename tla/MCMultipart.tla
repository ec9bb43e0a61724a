---------------------------- MODULE MCMultipart ----------------------------
EXTENDS Multipart

MCByte == {"-", "b", "f", "g", "n", "t", "x", ":", " ", CR, LF}

MCBoundary == <<"-", "-", "b">>

\* A body that begins as it should; one with text before the boundary.
MCOpenings == {MCBoundary \o <<CR, LF>>, <<"x">>, <<"-", "-", "x">>}

\* The header lines of a field, of a file, of a part with a type and no name, of
\* one whose disposition comes twice, none at all, and a line that is no header.
MCHeaders ==
    { <<"n", ":", " ", "f", CR, LF, CR, LF>>,
      <<"n", ":", "g", CR, LF, "t", ":", "x", CR, LF, CR, LF>>,
      <<"t", ":", "x", CR, LF, CR, LF>>,
      <<"n", ":", "g", CR, LF, "n", ":", "f", CR, LF, CR, LF>>,
      <<CR, LF>>,
      <<"n", " ">>,
      <<"n", ":", "f", CR, "x">> }

\* Single bytes, and the beginning of a delimiter.
MCDataChunks == {<<CR>>, <<LF>>, <<"-">>, <<"x">>, <<CR, LF, "-">>}
=============================================================================
